------------------------- MODULE SpiceSessionProofs --------------------------
(****************************************************************************)
(* Leaving a SPICE session is final, and its types are kept; and, when no   *)
(* channel is opened twice, every message is handled in its turn and none   *)
(* is garbled but one whose header was the end of a chunk, no handler       *)
(* breaks a channel, and the acknowledgements and the agent's tokens agree. *)
(* For any channels and scopes.                                             *)
(****************************************************************************)
EXTENDS SpiceSession, FiniteSetTheorems, SequenceTheorems, TLAPS

\* Once the application has left no socket is connecting or open, and no chunk
\* is half handled.
Over == gone => /\ turn = None
                /\ \A c \in Channels : sock[c] = "closed"

\* So nothing can happen any more.
LEMMA NothingHappens ==
    ASSUME Over, gone
    PROVE  ~ Next
<1>1. ASSUME NEW c \in Channels
      PROVE  /\ sock[c] = "closed" /\ turn # c
             /\ ~ SocketOpens(c) /\ ~ SocketCloses(c) /\ ~ SocketFails(c)
             /\ ~ ServerReads(c) /\ ~ ServerSends(c)
  BY SessionAssumption DEF Over, SocketOpens, SocketCloses, SocketFails, ServerReads, ServerSends
<1>2. ASSUME NEW c \in Channels, NEW k PROVE ~ Receives(c, k)
  BY <1>1 DEF Receives
<1>3. ASSUME NEW c \in Channels PROVE ~ Handles(c)
  BY <1>1 DEF Handles, HeaderTaken, ReplyTaken, ErrorCodeTaken, MessageTaken, Takes
<1>4. ~ Types /\ ~ Resizes /\ ~ Disconnect
  BY DEF Types, Resizes, UserSends, Disconnect
<1> QED
  BY <1>1, <1>2, <1>3, <1>4 DEF Next, Protocol

LEMMA OverKept == Over /\ [Next]_vars => Over'
<1> SUFFICES ASSUME Over, [Next]_vars PROVE Over'
  OBVIOUS
<1>1. CASE gone
  <2>1. UNCHANGED vars
    BY <1>1, NothingHappens
  <2> QED
    BY <1>1, <2>1 DEF Over, vars, client
<1>2. CASE ~ gone
  <2>1. ASSUME Disconnect PROVE Over'
    BY <2>1 DEF Disconnect, Over
  <2>2. ASSUME gone' = gone PROVE Over'
    BY <1>2, <2>2 DEF Over
  <2>3. ASSUME NEW c \in Channels, SocketOpens(c) \/ SocketCloses(c) \/ SocketFails(c)
        PROVE  gone' = gone
    BY <2>3 DEF SocketOpens, SocketCloses, SocketFails, SocketLost
  <2>4. ASSUME NEW c \in Channels, Handles(c) \/ (\E k \in 1 .. Len(down[c]) : Receives(c, k))
        PROVE  gone' = gone
    BY <2>4 DEF Handles, HeaderTaken, ReplyTaken, ErrorCodeTaken, MessageTaken, Takes, Receives
  <2>5. ASSUME NEW c \in Channels, ServerReads(c) \/ ServerSends(c) PROVE gone' = gone
    BY <2>5 DEF ServerReads, ServerSends, client
  <2>6. ASSUME Types \/ Resizes PROVE gone' = gone
    BY <2>6 DEF Types, Resizes, UserSends
  <2>7. ASSUME UNCHANGED vars PROVE gone' = gone
    BY <2>7 DEF vars, client
  <2> QED
    BY <2>1, <2>2, <2>3, <2>4, <2>5, <2>6, <2>7 DEF Next, Protocol
<1> QED
  BY <1>1, <1>2

\* The application that has disconnected (disconnect of spiceconnection.js) is
\* not connected again by a channel that was connecting, sends nothing more
\* and handles nothing more.
THEOREM DisconnectedForGood == Spec => StaysDisconnected
<1>1. Init => Over
  BY DEF Init, Over
<1>2. Over /\ [Next]_vars => [gone => sock' = sock /\ up' = up /\ handled' = handled]_vars
  BY NothingHappens
<1> QED
  BY <1>1, <1>2, OverKept, PTL DEF Spec, StaysDisconnected
-----------------------------------------------------------------------------
(* The stream of a channel: what has been received and not taken, then     *)
(* what is on its way.  W is what the server has sent, S its units to come. *)

Size(kind) == IF kind \in {"ok", "denied"} THEN 1 ELSE HeaderSize + BodySize(kind)

\* The i-th unit to come; after the last one the next message begins.
NextAt(S, W, i) == IF i \in 1 .. Len(S) THEN S[i] ELSE [n |-> Len(W) + 1, part |-> 1]

After(W, u) ==
    IF u.part < Size(W[u.n]) THEN [n |-> u.n, part |-> u.part + 1]
    ELSE [n |-> u.n + 1, part |-> 1]

\* The units come in order and none is left out.
Flows(S, W) ==
    \A i \in 1 .. Len(S) :
        /\ S[i].n \in 1 .. Len(W) /\ S[i].part \in 1 .. Size(W[S[i].n])
        /\ NextAt(S, W, i + 1) = After(W, S[i])

LEMMA Sizes ==
    ASSUME NEW kind
    PROVE  /\ BodySize(kind) \in 0 .. 2 /\ Size(kind) \in 1 .. 4
           /\ kind \in {"ok", "denied"} => Size(kind) = 1
           /\ kind \notin {"ok", "denied"} => Size(kind) = 2 + BodySize(kind)
BY DEF Size, BodySize, HeaderSize

LEMMA UnitsAre ==
    ASSUME NEW kind, NEW n \in Nat
    PROVE  /\ UnitsSent(n, kind) \in Seq(Units) /\ Len(UnitsSent(n, kind)) = Size(kind)
           /\ \A i \in 1 .. Size(kind) : UnitsSent(n, kind)[i] = [n |-> n, part |-> i]
<1>1. CASE kind \in {"ok", "denied"}
  <2>1. UnitsSent(n, kind) = <<[n |-> n, part |-> 1]>> /\ Size(kind) = 1
    BY <1>1 DEF UnitsSent, Size
  <2> QED
    BY <2>1 DEF Units
<1>2. CASE kind \notin {"ok", "denied"}
  <2>1. UnitsSent(n, kind) = [i \in 1 .. Size(kind) |-> [n |-> n, part |-> i]]
    BY <1>2 DEF UnitsSent, UnitsOf, Size
  <2>2. Size(kind) \in Nat
    BY Sizes
  <2>3. \A i \in 1 .. Size(kind) : [n |-> n, part |-> i] \in Units
    BY <2>2 DEF Units
  <2> QED
    BY <2>1, <2>2, <2>3
<1> QED
  BY <1>1, <1>2

LEMMA Drop ==
    ASSUME NEW q \in Seq(Units), NEW m \in 0 .. Len(q)
    PROVE  LET rest == SubSeq(q, m + 1, Len(q))
           IN  /\ rest \in Seq(Units) /\ Len(rest) = Len(q) - m
               /\ \A i \in 1 .. Len(rest) : rest[i] = q[m + i]
<1> DEFINE rest == SubSeq(q, m + 1, Len(q))
<1>1. Len(rest) = Len(q) - m
  OBVIOUS
<1>2. \A i \in 1 .. Len(q) - m : rest[i] = q[m + i]
  OBVIOUS
<1>3. rest \in Seq(Units)
  <2>1. \A i \in m + 1 .. Len(q) : q[i] \in Units
    OBVIOUS
  <2> QED
    BY <2>1, SubSeqProperties
<1>4. \A i \in 1 .. Len(rest) : rest[i] = q[m + i]
  BY <1>1, <1>2
<1> QED
  BY <1>1, <1>3, <1>4

LEMMA Joined ==
    ASSUME NEW q \in Seq(Units), NEW D \in Seq(Units)
    PROVE  /\ q \o D \in Seq(Units) /\ Len(q \o D) = Len(q) + Len(D)
           /\ \A i \in 1 .. Len(q) : (q \o D)[i] = q[i]
           /\ \A i \in 1 .. Len(D) : (q \o D)[Len(q) + i] = D[i]
<1>1. q \o D \in Seq(Units) /\ Len(q \o D) = Len(q) + Len(D)
  OBVIOUS
<1>2. \A i \in 1 .. Len(q) : (q \o D)[i] = q[i]
  OBVIOUS
<1>3. ASSUME NEW i \in 1 .. Len(D) PROVE (q \o D)[Len(q) + i] = D[i]
  <2>1. Len(q) + i \in 1 .. Len(q) + Len(D) /\ Len(q) + i > Len(q) /\ Len(q) + i - Len(q) = i
    OBVIOUS
  <2> QED
    BY <2>1
<1> QED
  BY <1>1, <1>2, <1>3

LEMMA DropOfTwo ==
    ASSUME NEW q \in Seq(Units), NEW D \in Seq(Units), NEW m \in 0 .. Len(q)
    PROVE  SubSeq(q, m + 1, Len(q)) \o D = SubSeq(q \o D, m + 1, Len(q \o D))
<1> DEFINE a == SubSeq(q, m + 1, Len(q)) \o D
           b == SubSeq(q \o D, m + 1, Len(q \o D))
           rest == SubSeq(q, m + 1, Len(q))
           S == q \o D
<1>1. /\ rest \in Seq(Units) /\ Len(rest) = Len(q) - m
      /\ \A i \in 1 .. Len(rest) : rest[i] = q[m + i]
  BY Drop
<1> HIDE DEF rest
<1>2. /\ S \in Seq(Units) /\ Len(S) = Len(q) + Len(D) /\ Len(q) \in Nat /\ Len(D) \in Nat
      /\ \A i \in 1 .. Len(q) : S[i] = q[i]
      /\ \A i \in 1 .. Len(D) : S[Len(q) + i] = D[i]
  OBVIOUS
<1> HIDE DEF S
<1>3. m \in 0 .. Len(S)
  BY <1>2
<1>4. /\ SubSeq(S, m + 1, Len(S)) \in Seq(Units) /\ Len(SubSeq(S, m + 1, Len(S))) = Len(S) - m
      /\ \A i \in 1 .. Len(S) - m : SubSeq(S, m + 1, Len(S))[i] = S[m + i]
  BY <1>2, <1>3, Drop
<1>5. /\ rest \o D \in Seq(Units) /\ Len(rest \o D) = Len(S) - m
      /\ \A i \in 1 .. Len(rest) : (rest \o D)[i] = rest[i]
      /\ \A i \in 1 .. Len(D) : (rest \o D)[Len(rest) + i] = D[i]
  <2>1. /\ rest \o D \in Seq(Units) /\ Len(rest \o D) = Len(rest) + Len(D)
        /\ \A i \in 1 .. Len(rest) : (rest \o D)[i] = rest[i]
        /\ \A i \in 1 .. Len(D) : (rest \o D)[Len(rest) + i] = D[i]
    BY <1>1, Joined
  <2>2. Len(rest) + Len(D) = Len(S) - m
    BY <1>1, <1>2
  <2> QED
    BY <2>1, <2>2
<1>6. ASSUME NEW i \in 1 .. Len(S) - m
      PROVE  (rest \o D)[i] = SubSeq(S, m + 1, Len(S))[i]
  <2>1. CASE i \in 1 .. Len(rest)
    <3>1. m + i \in 1 .. Len(q)
      BY <1>1, <1>2, <2>1
    <3> QED
      BY <1>1, <1>2, <1>4, <1>5, <2>1, <3>1
  <2>2. CASE i \notin 1 .. Len(rest)
    <3> DEFINE j == i - Len(rest)
    <3>1. j \in 1 .. Len(D) /\ i = Len(rest) + j /\ m + i = Len(q) + j
      BY <1>1, <1>2, <2>2
    <3> HIDE DEF j
    <3>2. (rest \o D)[i] = D[j]
      BY <1>5, <3>1
    <3>3. S[m + i] = D[j]
      BY <1>2, <3>1
    <3> QED
      BY <1>4, <3>2, <3>3
  <2> QED
    BY <2>1, <2>2
<1>7. rest \o D = SubSeq(S, m + 1, Len(S))
  <2> DEFINE x == rest \o D
             y == SubSeq(S, m + 1, Len(S))
  <2>1. x \in Seq(Units) /\ y \in Seq(Units) /\ Len(x) = Len(y) /\ \A i \in 1 .. Len(x) : x[i] = y[i]
    BY <1>4, <1>5, <1>6
  <2> HIDE DEF x, y
  <2>2. x = y
    BY SMTT(30), <2>1
  <2> QED
    BY <2>2 DEF x, y
<1> QED
  BY <1>7 DEF rest, S

LEMMA DropFlows ==
    ASSUME NEW S \in Seq(Units), NEW W \in Seq(Kinds), Flows(S, W), NEW m \in 0 .. Len(S)
    PROVE  LET T == SubSeq(S, m + 1, Len(S))
           IN  /\ T \in Seq(Units) /\ Len(T) = Len(S) - m /\ Flows(T, W)
               /\ NextAt(T, W, 1) = NextAt(S, W, m + 1)
               /\ \A i \in 1 .. Len(T) : T[i] = S[m + i]
<1> DEFINE T == SubSeq(S, m + 1, Len(S))
<1>1. T \in Seq(Units) /\ Len(T) = Len(S) - m /\ \A i \in 1 .. Len(T) : T[i] = S[m + i]
  OBVIOUS
<1>2. Len(S) \in Nat
  OBVIOUS
<1> HIDE DEF T
<1>3. ASSUME NEW i \in 1 .. Len(T) + 1
      PROVE  NextAt(T, W, i) = NextAt(S, W, m + i)
  <2>1. CASE i \in 1 .. Len(T)
    <3>1. m + i \in 1 .. Len(S)
      BY <1>1, <1>2, <2>1
    <3> QED
      BY <1>1, <2>1, <3>1 DEF NextAt
  <2>2. CASE i = Len(T) + 1
    <3>1. i \notin 1 .. Len(T) /\ m + i \notin 1 .. Len(S)
      BY <1>1, <1>2, <2>2
    <3> QED
      BY <3>1 DEF NextAt
  <2>3. i \in 1 .. Len(T) \/ i = Len(T) + 1
    BY <1>1, <1>2
  <2> QED
    BY <2>1, <2>2, <2>3
<1>4. Flows(T, W)
  <2>1. SUFFICES ASSUME NEW i \in 1 .. Len(T)
                 PROVE  /\ T[i].n \in 1 .. Len(W) /\ T[i].part \in 1 .. Size(W[T[i].n])
                        /\ NextAt(T, W, i + 1) = After(W, T[i])
    BY DEF Flows
  <2>2. m + i \in 1 .. Len(S) /\ T[i] = S[m + i] /\ i + 1 \in 1 .. Len(T) + 1
        /\ m + (i + 1) = (m + i) + 1
    BY <1>1, <1>2
  <2>3. NextAt(T, W, i + 1) = NextAt(S, W, (m + i) + 1)
    BY <1>3, <2>2
  <2> QED
    BY <2>2, <2>3 DEF Flows
<1>5. NextAt(T, W, 1) = NextAt(S, W, m + 1)
  BY <1>1, <1>2, <1>3
<1> QED
  BY <1>1, <1>4, <1>5 DEF T

LEMMA AppendFlows ==
    ASSUME NEW S \in Seq(Units), NEW W \in Seq(Kinds), Flows(S, W), NEW kind \in Kinds
    PROVE  LET T == S \o UnitsSent(Len(W) + 1, kind)
               V == Append(W, kind)
           IN  Flows(T, V) /\ NextAt(T, V, 1) = NextAt(S, W, 1)
<1> DEFINE u == UnitsSent(Len(W) + 1, kind)
           T == S \o u
           V == Append(W, kind)
<1>1. Len(S) \in Nat /\ Len(W) \in Nat /\ Size(kind) \in 1 .. 4
  BY Sizes
<1>2. /\ u \in Seq(Units) /\ Len(u) = Size(kind)
      /\ \A i \in 1 .. Size(kind) : u[i] = [n |-> Len(W) + 1, part |-> i]
  BY <1>1, UnitsAre
<1> HIDE DEF u
<1>3. /\ Len(T) = Len(S) + Size(kind) /\ \A i \in 1 .. Len(S) : T[i] = S[i]
      /\ \A i \in 1 .. Size(kind) : T[Len(S) + i] = u[i]
  BY <1>1, <1>2
<1>4. Len(V) = Len(W) + 1 /\ V[Len(W) + 1] = kind /\ \A n \in 1 .. Len(W) : V[n] = W[n]
  OBVIOUS
<1> HIDE DEF T, V
<1>5. ASSUME NEW i \in 1 .. Len(S) + 1
      PROVE  NextAt(T, V, i) = NextAt(S, W, i)
  <2>1. CASE i \in 1 .. Len(S)
    <3>1. i \in 1 .. Len(T)
      BY <1>1, <1>3, <2>1
    <3> QED
      BY <1>3, <2>1, <3>1 DEF NextAt
  <2>2. CASE i = Len(S) + 1
    <3>1. i \in 1 .. Len(T) /\ i \notin 1 .. Len(S) /\ 1 \in 1 .. Size(kind)
      BY <1>1, <1>3, <2>2
    <3>2. T[i] = u[1] /\ u[1] = [n |-> Len(W) + 1, part |-> 1]
      BY <1>2, <1>3, <2>2, <3>1
    <3> QED
      BY <3>1, <3>2 DEF NextAt
  <2>3. i \in 1 .. Len(S) \/ i = Len(S) + 1
    BY <1>1
  <2> QED
    BY <2>1, <2>2, <2>3
<1>6. Flows(T, V)
  <2>1. SUFFICES ASSUME NEW i \in 1 .. Len(T)
                 PROVE  /\ T[i].n \in 1 .. Len(V) /\ T[i].part \in 1 .. Size(V[T[i].n])
                        /\ NextAt(T, V, i + 1) = After(V, T[i])
    BY DEF Flows
  <2>2. CASE i \in 1 .. Len(S)
    <3>1. /\ S[i].n \in 1 .. Len(W) /\ S[i].part \in 1 .. Size(W[S[i].n])
          /\ NextAt(S, W, i + 1) = After(W, S[i])
      BY <2>2 DEF Flows
    <3>2. T[i] = S[i] /\ V[S[i].n] = W[S[i].n] /\ S[i].n \in 1 .. Len(V) /\ i + 1 \in 1 .. Len(S) + 1
      BY <1>1, <1>3, <1>4, <2>2, <3>1
    <3>3. NextAt(T, V, i + 1) = NextAt(S, W, i + 1)
      BY <1>5, <3>2
    <3> QED
      BY <3>1, <3>2, <3>3 DEF After
  <2>3. CASE i \notin 1 .. Len(S)
    <3> DEFINE p == i - Len(S)
    <3>1. p \in 1 .. Size(kind) /\ i = Len(S) + p
      BY <1>1, <1>3, <2>3
    <3> HIDE DEF p
    <3>2. T[i] = [n |-> Len(W) + 1, part |-> p]
      BY <1>2, <1>3, <3>1
    <3>3. V[Len(W) + 1] = kind /\ Len(W) + 1 \in 1 .. Len(V)
      BY <1>1, <1>4
    <3>4. CASE p < Size(kind)
      <4>1. p + 1 \in 1 .. Size(kind) /\ i + 1 = Len(S) + (p + 1) /\ i + 1 \in 1 .. Len(T)
        BY <1>1, <1>3, <3>1, <3>4
      <4>2. T[i + 1] = [n |-> Len(W) + 1, part |-> p + 1]
        BY <1>2, <1>3, <4>1
      <4> QED
        BY <3>1, <3>2, <3>3, <3>4, <4>1, <4>2 DEF NextAt, After
    <3>5. CASE ~ (p < Size(kind))
      <4>1. i + 1 \notin 1 .. Len(T)
        BY <1>1, <1>3, <3>1, <3>5
      <4>2. NextAt(T, V, i + 1) = [n |-> (Len(W) + 1) + 1, part |-> 1]
        BY <1>4, <4>1 DEF NextAt
      <4> QED
        BY <3>1, <3>2, <3>3, <3>5, <4>2 DEF After
    <3> QED
      BY <3>4, <3>5
  <2> QED
    BY <2>2, <2>3
<1>7. NextAt(T, V, 1) = NextAt(S, W, 1)
  BY <1>1, <1>5
<1> QED
  BY <1>6, <1>7 DEF T, V, u
-----------------------------------------------------------------------------
(* The receiving side of a channel in its place of the stream.             *)

Shapes == [unread : Seq(Units), w : Int, phase : Phases, need : 0 .. 2, header : Seq(Units), at : Int]

At(n, part) == [n |-> n, part |-> part]

\* What a server sends: two answers to the link, then messages.
Told(W) ==
    \A i \in 1 .. Len(W) : /\ i = 1 => W[i] = "reply"
                           /\ i = 2 => W[i] \in {"ok", "denied"}
                           /\ i > 2 => W[i] \in Messages

\* Where a receiver is that has handled h messages: x is the next unit.  C are
\* the messages whose header was the end of a chunk.
Place(r, x, W, h, C) ==
    /\ r.phase = "reply" => r.need = 2 /\ x = At(1, 1) /\ h = 0
    /\ r.phase = "replyBody" => r.need = 2 /\ x = At(1, 3) /\ h = 0
    /\ r.phase = "errorCode" => r.need = 1 /\ x = At(2, 1) /\ h = 0
    /\ r.phase = "header" => r.need = 2 /\ x = At(h + 3, 1)
    /\ r.phase = "body" =>
          /\ h + 3 \in 1 .. Len(W) /\ r.need = BodySize(W[h + 3])
          /\ x = IF r.need = 0 THEN At(h + 4, 1) ELSE At(h + 3, 3)
          /\ h + 3 \notin C \/ r.need = 0 => r.header = <<At(h + 3, 1), At(h + 3, 2)>>
          /\ h + 3 \notin C /\ r.need > 0 => r.at + 2 <= r.w

\* u is a header whose body is still to come, and not one of C.
HeaderEnds(W, u, C) == u.part = HeaderSize /\ BodySize(W[u.n]) > 0 /\ u.n \notin C

Streaming(r, D, W, h, C) ==
    LET S == r.unread \o D
    IN  /\ r \in Shapes /\ D \in Seq(Units) /\ W \in Seq(Kinds) /\ h \in Nat
        /\ Told(W) /\ Flows(S, W) /\ Place(r, NextAt(S, W, 1), W, h, C)
        /\ r.unread # <<>> => ~ HeaderEnds(W, r.unread[Len(r.unread)], C)

\* The next m units are there: they are the first m of the stream.
LEMMA UnitsThere ==
    ASSUME NEW r \in Shapes, NEW D \in Seq(Units), NEW W \in Seq(Kinds), Ready(r),
           Flows(r.unread \o D, W)
    PROVE  LET S == r.unread \o D
           IN  /\ r.need \in 0 .. Len(S) /\ Len(S) = Len(r.unread) + Len(D) /\ S \in Seq(Units)
               /\ Taken(r) \in Seq(Units) /\ Len(Taken(r)) = r.need
               /\ \A i \in 1 .. r.need :
                     /\ Taken(r)[i] = NextAt(S, W, i) /\ S[i] = NextAt(S, W, i) /\ i \in 1 .. Len(S)
                     /\ S[i].n \in 1 .. Len(W) /\ S[i].part \in 1 .. Size(W[S[i].n])
                     /\ NextAt(S, W, i + 1) = After(W, S[i])
<1> DEFINE S == r.unread \o D
<1>1. r.unread \in Seq(Units) /\ r.need \in 0 .. 2 /\ Len(r.unread) >= r.need
  BY DEF Shapes, Ready
<1>2. /\ S \in Seq(Units) /\ Len(S) = Len(r.unread) + Len(D)
      /\ \A i \in 1 .. Len(r.unread) : S[i] = r.unread[i]
  BY <1>1
<1>3. Len(S) \in Nat /\ Len(r.unread) \in Nat /\ Len(D) \in Nat
  BY <1>1, <1>2
<1>4. r.need \in 0 .. Len(S)
  BY <1>1, <1>2, <1>3
<1>5. /\ Taken(r) \in Seq(Units) /\ Len(Taken(r)) = r.need
      /\ \A i \in 1 .. r.need : Taken(r)[i] = r.unread[i]
  BY <1>1, <1>3 DEF Taken
<1> HIDE DEF S
<1>6. ASSUME NEW i \in 1 .. r.need
      PROVE  i \in 1 .. Len(S) /\ Taken(r)[i] = S[i] /\ S[i] = NextAt(S, W, i)
  <2>1. i \in 1 .. Len(S) /\ i \in 1 .. Len(r.unread)
    BY <1>1, <1>2, <1>3
  <2> QED
    BY <1>2, <1>5, <2>1 DEF NextAt
<1>7. ASSUME NEW i \in 1 .. r.need
      PROVE  /\ S[i].n \in 1 .. Len(W) /\ S[i].part \in 1 .. Size(W[S[i].n])
             /\ NextAt(S, W, i + 1) = After(W, S[i])
  <2>1. Flows(S, W)
    BY DEF S
  <2> QED
    BY <1>6, <2>1 DEF Flows
<1> QED
  BY <1>2, <1>4, <1>5, <1>6, <1>7 DEF S

\* Taking a part off the queue.
LEMMA ShiftStreams ==
    ASSUME NEW r \in Shapes, NEW D \in Seq(Units), NEW W \in Seq(Kinds), NEW C, Ready(r),
           Flows(r.unread \o D, W), r.unread # <<>> => ~ HeaderEnds(W, r.unread[Len(r.unread)], C)
    PROVE  LET S == r.unread \o D
               t == Shift(r)
               T == t.unread \o D
           IN  /\ t \in Shapes /\ t.phase = r.phase /\ t.need = r.need /\ t.header = r.header /\ t.at = r.at
               /\ Flows(T, W) /\ NextAt(T, W, 1) = NextAt(S, W, r.need + 1)
               /\ t.unread # <<>> => ~ HeaderEnds(W, t.unread[Len(t.unread)], C)
               /\ Len(t.unread) = Len(r.unread) - r.need
               /\ t.unread # <<>> => t.w = r.w
<1> DEFINE S == r.unread \o D
           rest == SubSeq(r.unread, r.need + 1, Len(r.unread))
           t == Shift(r)
<1>1. /\ r.unread \in Seq(Units) /\ r.need \in 0 .. 2 /\ Len(r.unread) >= r.need
      /\ Len(r.unread) \in Nat /\ r.w \in Int
  BY DEF Shapes, Ready
<1>0. r.need \in 0 .. Len(r.unread)
  BY <1>1
<1>2. /\ rest \in Seq(Units) /\ Len(rest) = Len(r.unread) - r.need
      /\ \A i \in 1 .. Len(rest) : rest[i] = r.unread[r.need + i]
  BY <1>0, <1>1, Drop
<1>3. t = [r EXCEPT !.unread = rest, !.w = IF rest = <<>> /\ r.need > 0 THEN 0 ELSE @]
  BY DEF Shift
<1> HIDE DEF rest, t
<1>4. /\ t \in Shapes /\ t.phase = r.phase /\ t.need = r.need /\ t.header = r.header /\ t.at = r.at
      /\ t.unread = rest /\ (rest # <<>> => t.w = r.w)
  <2>1. /\ t.unread = rest /\ t.phase = r.phase /\ t.need = r.need /\ t.header = r.header /\ t.at = r.at
        /\ t.w = IF rest = <<>> /\ r.need > 0 THEN 0 ELSE r.w
    BY <1>3 DEF Shapes
  <2>2. t.w \in Int
    BY <1>1, <2>1
  <2>3. t \in Shapes
    BY <1>2, <1>3, <2>2 DEF Shapes
  <2> QED
    BY <2>1, <2>3
<1>5. rest \o D = SubSeq(S, r.need + 1, Len(S))
  BY <1>0, <1>1, DropOfTwo DEF rest
<1>6. S \in Seq(Units) /\ r.need \in 0 .. Len(S)
  BY UnitsThere
<1>7. Flows(rest \o D, W) /\ NextAt(rest \o D, W, 1) = NextAt(S, W, r.need + 1)
  <2>1. Flows(S, W)
    OBVIOUS
  <2> HIDE DEF S
  <2>2. /\ Flows(SubSeq(S, r.need + 1, Len(S)), W)
        /\ NextAt(SubSeq(S, r.need + 1, Len(S)), W, 1) = NextAt(S, W, r.need + 1)
    BY <1>6, <2>1, DropFlows
  <2> QED
    BY <1>5, <2>2
<1>8. ASSUME rest # <<>>
      PROVE  ~ HeaderEnds(W, rest[Len(rest)], C)
  <2>1. Len(rest) \in 1 .. Len(rest) /\ r.need + Len(rest) = Len(r.unread)
    BY <1>1, <1>2, <1>8
  <2>2. rest[Len(rest)] = r.unread[Len(r.unread)] /\ r.unread # <<>>
    BY <1>1, <1>2, <2>1
  <2> QED
    BY <2>2
<1> QED
  BY <1>2, <1>4, <1>7, <1>8 DEF t

LEMMA FirstTwo ==
    ASSUME NEW q \in Seq(Units), Len(q) = 2
    PROVE  SubSeq(q, 1, 2) = q /\ q # <<>> /\ q = <<q[1], q[2]>>
OBVIOUS

\* A header is taken: what it announces is the part to wait for.
LEMMA HeaderStreams ==
    ASSUME NEW r, NEW D, NEW W, NEW h, NEW C, Streaming(r, D, W, h, C), Ready(r), r.phase \in {"reply", "header"}
    PROVE  Streaming(TakeNext(r, BodySize(W[Taken(r)[1].n])), D, W, h, C)
<1> DEFINE S == r.unread \o D
           n == IF r.phase = "reply" THEN 1 ELSE h + 3
           t == Shift(r)
           size == BodySize(W[n])
           e == TakeNext(r, size)
<1>1. /\ r \in Shapes /\ D \in Seq(Units) /\ W \in Seq(Kinds) /\ h \in Nat
      /\ Told(W) /\ Flows(S, W) /\ Place(r, NextAt(S, W, 1), W, h, C)
      /\ r.unread # <<>> => ~ HeaderEnds(W, r.unread[Len(r.unread)], C)
  BY DEF Streaming
<1>2. n \in Nat /\ n # 0 /\ r.need = 2 /\ NextAt(S, W, 1) = At(n, 1)
  <2> DEFINE x == NextAt(S, W, 1)
  <2>1. Place(r, x, W, h, C) /\ h \in Nat
    BY <1>1
  <2> HIDE DEF x, S
  <2>2. CASE r.phase = "reply"
    BY <2>1, <2>2 DEF Place, x
  <2>3. CASE r.phase = "header"
    BY <2>1, <2>3 DEF Place, x
  <2> QED
    BY <2>2, <2>3
<1>3. /\ Taken(r) \in Seq(Units) /\ Len(Taken(r)) = r.need
      /\ \A i \in 1 .. r.need :
            /\ Taken(r)[i] = NextAt(S, W, i) /\ S[i] = NextAt(S, W, i)
            /\ S[i].n \in 1 .. Len(W) /\ S[i].part \in 1 .. Size(W[S[i].n])
            /\ NextAt(S, W, i + 1) = After(W, S[i])
  BY <1>1, UnitsThere
<1> HIDE DEF S, n
<1>4. n \in 1 .. Len(W) /\ Taken(r)[1] = At(n, 1) /\ NextAt(S, W, 2) = After(W, At(n, 1))
  BY <1>2, <1>3 DEF At
<1>5. Size(W[n]) = 2 + size /\ size \in 0 .. 2 /\ (r.phase = "reply" => size = 2)
  <2>1. W[n] \notin {"ok", "denied"} /\ (r.phase = "reply" => W[n] = "reply")
    BY <1>1, <1>4 DEF Told, Messages, n
  <2>2. BodySize("reply") = 2
    BY DEF BodySize
  <2> QED
    BY <2>1, <2>2, Sizes
<1>6. Taken(r)[2] = At(n, 2) /\ NextAt(S, W, 3) = After(W, At(n, 2))
  <2>1. After(W, At(n, 1)) = At(n, 2)
    BY <1>5 DEF After, At
  <2> QED
    BY <1>2, <1>3, <1>4, <2>1
<1>7. After(W, At(n, 2)) = IF size = 0 THEN At(n + 1, 1) ELSE At(n, 3)
  BY <1>5 DEF After, At
<1>8. /\ t \in Shapes /\ t.phase = r.phase /\ Flows(t.unread \o D, W)
      /\ NextAt(t.unread \o D, W, 1) = NextAt(S, W, 3)
      /\ t.unread # <<>> => ~ HeaderEnds(W, t.unread[Len(t.unread)], C)
      /\ Len(t.unread) = Len(r.unread) - 2 /\ (t.unread # <<>> => t.w = r.w)
  <2>1. r.need + 1 = 3
    BY <1>2
  <2> QED
    BY SMTT(30), <1>1, <1>2, <2>1, ShiftStreams DEF S
<1>9. e = [t EXCEPT !.header = Taken(r), !.at = r.w - Len(r.unread), !.need = size,
                    !.phase = IF r.phase = "reply" THEN "replyBody" ELSE "body"]
  BY <1>8 DEF TakeNext, Shapes
<1> HIDE DEF t, e, size
<1>10. /\ e.unread = t.unread /\ e.w = t.w /\ e.header = Taken(r) /\ e.at = r.w - Len(r.unread)
       /\ e.need = size /\ e.phase = IF r.phase = "reply" THEN "replyBody" ELSE "body"
  BY <1>8, <1>9 DEF Shapes
<1>11. r.w \in Int /\ r.unread \in Seq(Units) /\ Len(r.unread) \in Nat
  BY <1>1 DEF Shapes
<1>12. e \in Shapes
  <2>1. r.w - Len(r.unread) \in Int
    BY <1>11
  <2> QED
    BY <1>3, <1>5, <1>8, <1>9, <2>1 DEF Shapes, Phases
<1>13. n \notin C /\ size > 0 => t.w = r.w /\ e.at + 2 <= e.w
  <2>1. SUFFICES ASSUME n \notin C, size > 0 PROVE t.w = r.w /\ e.at + 2 <= e.w
    OBVIOUS
  <2>2. Len(r.unread) >= 2
    BY <1>2 , Ready(r) DEF Ready
  <2>3. Len(r.unread) # 2
    <3>1. SUFFICES ASSUME Len(r.unread) = 2 PROVE FALSE
      OBVIOUS
    <3>2. r.unread[2] = Taken(r)[2] /\ r.unread # <<>>
      <4>1. r.unread[2] = SubSeq(r.unread, 1, 2)[2] /\ r.unread # <<>>
        BY <1>11, <3>1, FirstTwo
      <4> QED
        BY <1>2, <4>1 DEF Taken
    <3>3. HeaderEnds(W, r.unread[Len(r.unread)], C)
      BY <1>6, <2>1, <3>1, <3>2 DEF HeaderEnds, HeaderSize, At, size
    <3> QED
      BY <1>1, <3>2, <3>3
  <2>4. t.unread # <<>>
    <3>1. Len(t.unread) # 0
      BY <1>8, <1>11, <2>2, <2>3
    <3> QED
      BY <3>1
  <2>5. t.w = r.w /\ e.w = r.w /\ e.at = r.w - Len(r.unread)
    BY <1>8, <1>10, <2>4
  <2>6. (r.w - Len(r.unread)) + 2 <= r.w
    BY <1>11, <2>2
  <2> QED
    BY <2>5, <2>6
<1>14. Place(e, NextAt(S, W, 3), W, h, C)
  <2>1. CASE r.phase = "reply"
    <3>1. n = 1 /\ h = 0
      BY <1>1, <2>1 DEF Place, n
    <3>2. e.phase = "replyBody" /\ e.need = 2 /\ NextAt(S, W, 3) = At(1, 3)
      <4>1. size = 2
        BY <1>5, <2>1
      <4>2. NextAt(S, W, 3) = After(W, At(n, 2)) /\ After(W, At(n, 2)) = At(n, 3)
        BY <1>6, <1>7, <4>1
      <4> QED
        BY <1>10, <2>1, <3>1, <4>1, <4>2
    <3> QED
      BY <3>1, <3>2 DEF Place
  <2>2. CASE r.phase = "header"
    <3>1. n = h + 3 /\ n + 1 = h + 4
      BY <1>1, <2>2 DEF n
    <3>2. e.header = <<At(h + 3, 1), At(h + 3, 2)>>
      <4>1. Len(Taken(r)) = 2 /\ Taken(r) \in Seq(Units)
        BY <1>2, <1>3
      <4>2. Taken(r) = <<Taken(r)[1], Taken(r)[2]>>
        BY <4>1, FirstTwo
      <4> QED
        BY <1>4, <1>6, <1>10, <3>1, <4>2
    <3>3. e.phase = "body" /\ e.need = BodySize(W[h + 3])
      BY <1>10, <2>2, <3>1 DEF size
    <3>4. /\ h + 3 \in 1 .. Len(W) /\ (h + 3 \notin C /\ e.need > 0 => e.at + 2 <= e.w)
          /\ NextAt(S, W, 3) = IF e.need = 0 THEN At(h + 4, 1) ELSE At(h + 3, 3)
      BY <1>4, <1>5, <1>6, <1>7, <1>10, <1>13, <3>1
    <3> QED
      BY <3>2, <3>3, <3>4 DEF Place
  <2> QED
    BY <2>1, <2>2
<1>15. Streaming(e, D, W, h, C)
  BY <1>1, <1>8, <1>10, <1>12, <1>14 DEF Streaming
<1>16. Taken(r)[1].n = n
  BY <1>4 DEF At
<1> QED
  BY <1>15, <1>16 DEF e, size

LEMMA Emptied ==
    ASSUME NEW t \in Shapes
    PROVE  LET e == [t EXCEPT !.phase = "header", !.need = HeaderSize, !.header = <<>>]
           IN  e \in Shapes /\ e.unread = t.unread /\ e.phase = "header" /\ e.need = 2
<1>1. <<>> \in Seq(Units)
  OBVIOUS
<1>2. "header" \in Phases /\ HeaderSize = 2 /\ 2 \in 0 .. 2
  BY DEF Phases, HeaderSize
<1> QED
  BY <1>1, <1>2 DEF Shapes

LEMMA Answered ==
    ASSUME NEW t \in Shapes
    PROVE  LET e == [t EXCEPT !.phase = "errorCode", !.need = 1]
           IN  e \in Shapes /\ e.unread = t.unread /\ e.phase = "errorCode" /\ e.need = 1
<1>1. "errorCode" \in Phases /\ 1 \in 0 .. 2
  BY DEF Phases
<1> QED
  BY <1>1 DEF Shapes

\* A part that ends its message is taken: the next message follows.
LEMMA RestTaken ==
    ASSUME NEW r \in Shapes, NEW D \in Seq(Units), NEW W \in Seq(Kinds), Ready(r),
           Flows(r.unread \o D, W), NEW n \in Nat, NEW p \in Nat, r.need > 0,
           NextAt(r.unread \o D, W, 1) = At(n, p),
           n \in 1 .. Len(W) => p + r.need - 1 = Size(W[n])
    PROVE  /\ n \in 1 .. Len(W) /\ Taken(r) \in Seq(Units) /\ Len(Taken(r)) = r.need
           /\ \A i \in 1 .. r.need : Taken(r)[i] = At(n, p + i - 1)
           /\ NextAt(r.unread \o D, W, r.need + 1) = At(n + 1, 1)
<1> DEFINE S == r.unread \o D
<1>1. /\ Taken(r) \in Seq(Units) /\ Len(Taken(r)) = r.need
      /\ \A i \in 1 .. r.need :
            /\ Taken(r)[i] = NextAt(S, W, i) /\ S[i] = NextAt(S, W, i)
            /\ S[i].n \in 1 .. Len(W) /\ S[i].part \in 1 .. Size(W[S[i].n])
            /\ NextAt(S, W, i + 1) = After(W, S[i])
  BY UnitsThere
<1>2. NextAt(S, W, 1) = At(n, p) /\ r.need \in 1 .. 2
  BY DEF Shapes
<1> HIDE DEF S
<1>3. n \in 1 .. Len(W) /\ Taken(r)[1] = At(n, p) /\ NextAt(S, W, 2) = After(W, At(n, p))
  <2>1. 1 \in 1 .. r.need
    BY <1>2
  <2>2. /\ Taken(r)[1] = At(n, p) /\ S[1] = At(n, p) /\ S[1].n \in 1 .. Len(W)
        /\ NextAt(S, W, 1 + 1) = After(W, S[1])
    BY <1>1, <1>2, <2>1
  <2>3. At(n, p).n = n /\ 1 + 1 = 2
    BY DEF At
  <2> QED
    BY <2>2, <2>3
<1>4. p + r.need - 1 = Size(W[n])
  BY <1>3
<1>5. CASE r.need = 1
  <2>1. After(W, At(n, p)) = At(n + 1, 1)
    BY <1>4, <1>5 DEF After, At
  <2>2. p + 1 - 1 = p /\ r.need + 1 = 2 /\ \A i \in 1 .. r.need : i = 1
    BY <1>5
  <2> QED
    BY <1>1, <1>3, <2>1, <2>2 DEF S
<1>6. CASE r.need = 2
  <2>1. After(W, At(n, p)) = At(n, p + 1) /\ After(W, At(n, p + 1)) = At(n + 1, 1)
    BY <1>4, <1>6 DEF After, At
  <2>2. 2 \in 1 .. r.need /\ r.need + 1 = 2 + 1 /\ \A i \in 1 .. r.need : i = 1 \/ i = 2
    BY <1>6
  <2>3. p + 1 - 1 = p /\ p + 2 - 1 = p + 1
    OBVIOUS
  <2>4. Taken(r)[2] = At(n, p + 1) /\ NextAt(S, W, 2 + 1) = At(n + 1, 1)
    <3>1. /\ Taken(r)[2] = NextAt(S, W, 2) /\ S[2] = NextAt(S, W, 2)
          /\ NextAt(S, W, 2 + 1) = After(W, S[2])
      BY <1>1, <2>2
    <3> QED
      BY <1>3, <2>1, <3>1
  <2> QED
    BY <1>1, <1>3, <2>2, <2>3, <2>4 DEF S
<1> QED
  BY <1>2, <1>5, <1>6

\* The part of `replyBody`, of `errorCode`, is taken.
LEMMA AnswerStreams ==
    ASSUME NEW r, NEW D, NEW W, NEW h, NEW C, Streaming(r, D, W, h, C), Ready(r),
           r.phase \in {"replyBody", "errorCode"}
    PROVE  Streaming(TakeNext(r, 0), D, W, h, C)
<1> DEFINE S == r.unread \o D
           x == NextAt(S, W, 1)
           y == NextAt(S, W, r.need + 1)
           t == Shift(r)
           e == TakeNext(r, 0)
<1>1. /\ r \in Shapes /\ D \in Seq(Units) /\ W \in Seq(Kinds) /\ h \in Nat
      /\ Told(W) /\ Flows(S, W) /\ Place(r, x, W, h, C)
      /\ r.unread # <<>> => ~ HeaderEnds(W, r.unread[Len(r.unread)], C)
  BY DEF Streaming
<1>2. /\ t \in Shapes /\ t.phase = r.phase /\ Flows(t.unread \o D, W)
      /\ NextAt(t.unread \o D, W, 1) = y
      /\ t.unread # <<>> => ~ HeaderEnds(W, t.unread[Len(t.unread)], C)
  BY <1>1, ShiftStreams
<1>3. ASSUME NEW n \in Nat, NEW p \in Nat, NEW m \in 1 .. 2, r.need = m, x = At(n, p),
             n \in 1 .. Len(W) => p + m - 1 = Size(W[n])
      PROVE  y = At(n + 1, 1)
  <2>1. r.need > 0 /\ r.need = m
    <3>1. m > 0
      OBVIOUS
    <3> QED
      BY <1>3, <3>1
  <2>2. n \in 1 .. Len(W) => p + r.need - 1 = Size(W[n])
    BY <1>3
  <2> HIDE DEF S
  <2>3. NextAt(S, W, r.need + 1) = At(n + 1, 1)
    BY <1>1, <1>3, <2>1, <2>2, RestTaken DEF S
  <2> QED
    BY <2>3
<1>4. ASSUME e \in Shapes, e.unread = t.unread, Place(e, y, W, h, C)
      PROVE  Streaming(e, D, W, h, C)
  <2> HIDE DEF e, t, y, S, x
  <2>1. NextAt(e.unread \o D, W, 1) = y /\ Flows(e.unread \o D, W)
    BY <1>2, <1>4
  <2> QED
    BY <1>1, <1>2, <1>4, <2>1 DEF Streaming
<1>5. CASE r.phase = "replyBody"
  <2>1. x = At(1, 3) /\ r.need = 2 /\ h = 0
    <3> HIDE DEF x
    <3> QED
      BY <1>1, <1>5 DEF Place
  <2>2. ASSUME 1 \in 1 .. Len(W)
        PROVE  3 + 2 - 1 = Size(W[1])
    <3>1. W[1] = "reply"
      BY <1>1, <2>2 DEF Told
    <3>2. BodySize("reply") = 2 /\ HeaderSize = 2
      BY DEF BodySize, HeaderSize
    <3>3. Size("reply") = 4
      BY <3>2 DEF Size
    <3> QED
      BY <3>1, <3>3
  <2>3. y = At(2, 1)
    <3> HIDE DEF x, y
    <3>1. y = At(1 + 1, 1)
      BY <1>3, <2>1, <2>2
    <3> QED
      BY <3>1
  <2>4. e = [t EXCEPT !.phase = "errorCode", !.need = 1]
    BY <1>5 DEF TakeNext
  <2>5. e \in Shapes /\ e.unread = t.unread /\ e.phase = "errorCode" /\ e.need = 1
    BY <1>2, <2>4, Answered
  <2> HIDE DEF e, y, x
  <2>6. Place(e, y, W, h, C)
    BY <2>1, <2>3, <2>5 DEF Place
  <2> QED
    BY <1>4, <2>5, <2>6 DEF e
<1>6. CASE r.phase = "errorCode"
  <2>1. x = At(2, 1) /\ r.need = 1 /\ h = 0
    <3> HIDE DEF x
    <3> QED
      BY <1>1, <1>6 DEF Place
  <2>2. ASSUME 2 \in 1 .. Len(W)
        PROVE  1 + 1 - 1 = Size(W[2])
    <3>1. W[2] \in {"ok", "denied"}
      BY <1>1, <2>2 DEF Told
    <3>2. Size(W[2]) = 1
      BY <3>1 DEF Size
    <3> QED
      BY <3>2
  <2>3. y = At(3, 1)
    <3> HIDE DEF x, y
    <3>1. y = At(2 + 1, 1)
      BY <1>3, <2>1, <2>2
    <3> QED
      BY <3>1
  <2>4. e = [t EXCEPT !.phase = "header", !.need = HeaderSize, !.header = <<>>]
    BY <1>6 DEF TakeNext
  <2>5. e \in Shapes /\ e.unread = t.unread /\ e.phase = "header" /\ e.need = 2
    BY <1>2, <2>4, Emptied
  <2> HIDE DEF e, y, x
  <2>6. Place(e, y, W, h, C)
    BY <2>1, <2>3, <2>5 DEF Place
  <2> QED
    BY <1>4, <2>5, <2>6 DEF e
<1> QED
  BY <1>5, <1>6 DEF e

\* The body of a message is taken: it belongs to the header, unless that was
\* the end of a chunk and is not what it was.
LEMMA MessageStreams ==
    ASSUME NEW r, NEW D, NEW W, NEW h, NEW C, Streaming(r, D, W, h, C), Ready(r), r.phase = "body"
    PROVE  /\ Complete(r) = h + 3 \/ (Complete(r) = 0 /\ h + 3 \in C)
           /\ h + 3 \in 1 .. Len(W) /\ Streaming(TakeNext(r, 0), D, W, h + 1, C)
<1> DEFINE S == r.unread \o D
           n == h + 3
           t == Shift(r)
           e == TakeNext(r, 0)
<1>1. /\ r \in Shapes /\ D \in Seq(Units) /\ W \in Seq(Kinds) /\ h \in Nat
      /\ Told(W) /\ Flows(S, W) /\ Place(r, NextAt(S, W, 1), W, h, C)
      /\ r.unread # <<>> => ~ HeaderEnds(W, r.unread[Len(r.unread)], C)
  BY DEF Streaming
<1>2. /\ n \in 1 .. Len(W) /\ r.need = BodySize(W[n])
      /\ n \notin C \/ r.need = 0 => r.header = <<At(n, 1), At(n, 2)>>
      /\ NextAt(S, W, 1) = IF r.need = 0 THEN At(h + 4, 1) ELSE At(n, 3)
  <2> DEFINE x == NextAt(S, W, 1)
  <2>1. Place(r, x, W, h, C)
    BY <1>1
  <2> HIDE DEF x, S
  <2> QED
    BY <2>1 DEF Place, x
<1>3. Size(W[n]) = 2 + r.need /\ n \in Nat /\ r.need \in 0 .. 2
  <2>1. n > 2
    BY <1>1
  <2>2. W[n] \in Messages
    BY <1>1, <1>2, <2>1 DEF Told
  <2> QED
    BY <1>1, <1>2, <2>2, Sizes DEF Messages, Shapes
<1> HIDE DEF n
<1>4. /\ Taken(r) \in Seq(Units) /\ Len(Taken(r)) = r.need
      /\ \A i \in 1 .. r.need : Taken(r)[i] = At(n, i + 2)
      /\ NextAt(S, W, r.need + 1) = At(h + 4, 1)
  <2>1. CASE r.need = 0
    BY <1>1, <1>2, <2>1, UnitsThere
  <2>2. CASE r.need # 0
    <3>1. r.need > 0 /\ 3 + r.need - 1 = Size(W[n]) /\ 3 \in Nat /\ n + 1 = h + 4
      BY <1>1, <1>3, <2>2 DEF n
    <3>2. /\ Taken(r) \in Seq(Units) /\ Len(Taken(r)) = r.need
          /\ \A i \in 1 .. r.need : Taken(r)[i] = At(n, 3 + i - 1)
          /\ NextAt(S, W, r.need + 1) = At(n + 1, 1)
      BY <1>1, <1>2, <1>3, <2>2, <3>1, RestTaken
    <3>3. \A i \in 1 .. r.need : 3 + i - 1 = i + 2
      BY <1>3
    <3> QED
      BY <3>1, <3>2, <3>3
  <2> QED
    BY <2>1, <2>2
<1>5. ASSUME n \notin C \/ r.need = 0
      PROVE  Complete(r) = n
  <2> DEFINE H == r.header
             B == Taken(r)
             m == r.need
             U == UnitsOf(n, m)
  <2>1. H = <<At(n, 1), At(n, 2)>> /\ H[1].n = n
    BY <1>2, <1>5 DEF At
  <2>2. B \in Seq(Units) /\ Len(B) = m /\ m \in 0 .. 2 /\ \A i \in 1 .. m : B[i] = At(n, i + 2)
    BY <1>3, <1>4
  <2>3. U = [i \in 1 .. 2 + m |-> At(n, i)]
    BY DEF UnitsOf, HeaderSize, At
  <2> HIDE DEF H, B, m, U
  <2>4. H \in Seq(Units) /\ Len(H) = 2 /\ H[1] = At(n, 1) /\ H[2] = At(n, 2)
    <3>1. At(n, 1) \in Units /\ At(n, 2) \in Units
      BY <1>3 DEF At, Units
    <3> QED
      BY <2>1, <3>1
  <2>5. /\ H \o B \in Seq(Units) /\ Len(H \o B) = 2 + m
        /\ \A i \in 1 .. 2 : (H \o B)[i] = H[i]
        /\ \A i \in 1 .. m : (H \o B)[2 + i] = B[i]
    BY <2>2, <2>4, Joined
  <2>6. ASSUME NEW i \in 1 .. 2 + m
        PROVE  (H \o B)[i] = At(n, i)
    <3>1. CASE i \in 1 .. 2
      BY <2>4, <2>5, <3>1
    <3>2. CASE i \notin 1 .. 2
      <4>1. i - 2 \in 1 .. m /\ i = 2 + (i - 2) /\ (i - 2) + 2 = i
        BY <2>2, <3>2
      <4> QED
        BY <2>2, <2>5, <4>1
    <3> QED
      BY <3>1, <3>2
  <2>7. H \o B = U
    <3> DEFINE x == H \o B
    <3>1. x \in Seq(Units) /\ Len(x) = 2 + m /\ m \in 0 .. 2 /\ \A i \in 1 .. 2 + m : x[i] = At(n, i)
      BY <2>2, <2>5, <2>6
    <3> HIDE DEF x
    <3>2. x = [i \in 1 .. 2 + m |-> At(n, i)]
      BY <3>1
    <3> QED
      BY <2>3, <3>2 DEF x
  <2>8. H = r.header /\ B = Taken(r) /\ m = r.need /\ U = UnitsOf(n, r.need)
    BY DEF H, B, m, U
  <2> QED
    BY <2>1, <2>7, <2>8 DEF Complete
<1>11. ASSUME r.need # 0
       PROVE  Complete(r) \in {n, 0}
  <2> DEFINE m == r.header[1].n
             H == r.header
             B == Taken(r)
             U == UnitsOf(m, r.need)
  <2>1. SUFFICES ASSUME H \o B = U PROVE m = n
    BY DEF Complete
  <2>2. H \in Seq(Units) /\ B \in Seq(Units) /\ Len(B) = r.need /\ B[1] = At(n, 3) /\ Len(H) \in Nat
    <3>1. 1 \in 1 .. r.need /\ 1 + 2 = 3
      BY <1>3, <1>11
    <3> QED
      BY <1>1, <1>4, <3>1 DEF Shapes
  <2>3. U = [i \in 1 .. 2 + r.need |-> [n |-> m, part |-> i]]
    BY DEF UnitsOf, HeaderSize
  <2> HIDE DEF m, H, B, U
  <2>4. Len(H \o B) = Len(H) + r.need /\ (H \o B)[Len(H) + 1] = At(n, 3)
    <3>1. 1 \in 1 .. Len(B)
      BY <1>3, <1>11, <2>2
    <3> QED
      BY <2>2, <3>1, Joined
  <2>5. Len(U) = 2 + r.need /\ \A i \in 1 .. 2 + r.need : U[i].n = m
    BY <1>3, <2>3
  <2>6. Len(H) + 1 \in 1 .. 2 + r.need
    BY <1>3, <1>11, <2>1, <2>2, <2>4, <2>5
  <2> QED
    BY <2>1, <2>4, <2>5, <2>6 DEF At
<1>12. Complete(r) = n \/ (Complete(r) = 0 /\ n \in C)
  BY <1>5, <1>11
<1>6. /\ t \in Shapes /\ t.phase = r.phase /\ Flows(t.unread \o D, W)
      /\ NextAt(t.unread \o D, W, 1) = NextAt(S, W, r.need + 1)
      /\ t.unread # <<>> => ~ HeaderEnds(W, t.unread[Len(t.unread)], C)
  BY <1>1, ShiftStreams
<1>7. e = [t EXCEPT !.phase = "header", !.need = HeaderSize, !.header = <<>>]
  BY <1>6 DEF TakeNext, Shapes
<1> HIDE DEF t, e, S
<1>8. e \in Shapes /\ e.unread = t.unread /\ e.phase = "header" /\ e.need = 2
  BY <1>6, <1>7, Emptied
<1>9. Place(e, At(h + 4, 1), W, h + 1, C)
  <2>1. (h + 1) + 3 = h + 4
    BY <1>1
  <2> QED
    BY <1>8, <2>1 DEF Place
<1>10. h + 1 \in Nat
  BY <1>1
<1> QED
  BY <1>1, <1>2, <1>4, <1>6, <1>8, <1>9, <1>10, <1>12 DEF Streaming, e, n

LEMMA Cut ==
    ASSUME NEW q \in Seq(Units), NEW D \in Seq(Units), NEW k \in 1 .. Len(D)
    PROVE  LET first == SubSeq(D, 1, k)
               rest == SubSeq(D, k + 1, Len(D))
           IN  /\ first \in Seq(Units) /\ Len(first) = k /\ rest \in Seq(Units)
               /\ q \o first \in Seq(Units) /\ q \o first # <<>>
               /\ (q \o first)[Len(q \o first)] = D[k]
               /\ (q \o first) \o rest = q \o D
<1> DEFINE first == SubSeq(D, 1, k)
           rest == SubSeq(D, k + 1, Len(D))
           a == q \o first
<1>1. Len(q) \in Nat /\ Len(D) \in Nat /\ k \in 0 .. Len(D)
  OBVIOUS
<1>2. first \in Seq(Units) /\ Len(first) = k /\ \A i \in 1 .. k : first[i] = D[i]
  BY <1>1
<1>3. /\ rest \in Seq(Units) /\ Len(rest) = Len(D) - k
      /\ \A i \in 1 .. Len(rest) : rest[i] = D[k + i]
  BY <1>1, Drop
<1> HIDE DEF first, rest
<1>4. /\ a \in Seq(Units) /\ Len(a) = Len(q) + k
      /\ \A i \in 1 .. Len(q) : a[i] = q[i]
      /\ \A i \in 1 .. k : a[Len(q) + i] = first[i]
  BY <1>2, Joined
<1> HIDE DEF a
<1>5. a # <<>> /\ a[Len(a)] = D[k]
  <2>1. k \in 1 .. k /\ Len(a) # 0
    BY <1>1, <1>4
  <2> QED
    BY <1>2, <1>4, <2>1
<1>6. a \o rest = q \o D
  <2> DEFINE x == a \o rest
             y == q \o D
  <2>1. /\ x \in Seq(Units) /\ Len(x) = Len(a) + Len(rest)
        /\ \A i \in 1 .. Len(a) : x[i] = a[i]
        /\ \A i \in 1 .. Len(rest) : x[Len(a) + i] = rest[i]
    BY <1>3, <1>4, Joined
  <2>2. /\ y \in Seq(Units) /\ Len(y) = Len(q) + Len(D)
        /\ \A i \in 1 .. Len(q) : y[i] = q[i]
        /\ \A i \in 1 .. Len(D) : y[Len(q) + i] = D[i]
    BY Joined
  <2> HIDE DEF x, y
  <2>3. Len(x) = Len(y)
    BY <1>1, <1>3, <1>4, <2>1, <2>2
  <2>4. ASSUME NEW i \in 1 .. Len(x)
        PROVE  x[i] = y[i]
    <3>1. CASE i \in 1 .. Len(q)
      <4>1. i \in 1 .. Len(a)
        BY <1>1, <1>4, <3>1
      <4> QED
        BY <1>4, <2>1, <2>2, <3>1, <4>1
    <3>2. CASE i - Len(q) \in 1 .. k
      <4> DEFINE j == i - Len(q)
      <4>1. i \in 1 .. Len(a) /\ i = Len(q) + j /\ j \in 1 .. Len(D) /\ j \in 1 .. k
        BY <1>1, <1>4, <2>1, <3>2
      <4> HIDE DEF j
      <4>2. x[i] = a[i] /\ a[i] = first[j] /\ first[j] = D[j]
        BY <1>2, <1>4, <2>1, <4>1
      <4>3. y[i] = D[j]
        BY <2>2, <4>1
      <4> QED
        BY <4>2, <4>3
    <3>3. CASE i - Len(a) \in 1 .. Len(rest)
      <4> DEFINE j == i - Len(a)
      <4>1. /\ i = Len(a) + j /\ i = Len(q) + (k + j)
            /\ k + j \in 1 .. Len(D) /\ j \in 1 .. Len(rest)
        BY <1>1, <1>3, <1>4, <2>1, <3>3
      <4> HIDE DEF j
      <4>2. x[i] = rest[j] /\ rest[j] = D[k + j]
        BY <1>3, <2>1, <4>1
      <4>3. y[i] = D[k + j]
        BY <2>2, <4>1
      <4> QED
        BY <4>2, <4>3
    <3>4. i \in 1 .. Len(q) \/ i - Len(q) \in 1 .. k \/ i - Len(a) \in 1 .. Len(rest)
      BY <1>1, <1>3, <1>4, <2>1
    <3> QED
      BY <3>1, <3>2, <3>3, <3>4
  <2>5. x = y
    BY <2>1, <2>2, <2>3, <2>4
  <2> QED
    BY <2>5 DEF x, y
<1> QED
  BY <1>2, <1>3, <1>4, <1>5, <1>6 DEF a, first, rest

\* What is written after the header leaves it alone.
LEMMA HeaderKept ==
    ASSUME NEW r \in Shapes, NEW chunk \in Seq(Units)
    PROVE  LET e == Push(r, chunk)
           IN  /\ e \in Shapes /\ e.unread = r.unread \o chunk /\ e.phase = r.phase /\ e.need = r.need
               /\ e.at = r.at /\ e.w = r.w + Len(chunk)
               /\ Len(r.header) = 2 /\ r.at + 2 <= r.w => e.header = r.header
<1> DEFINE H == Overwritten(r, chunk)
           L == r.header
<1>1. /\ L \in Seq(Units) /\ r.at \in Int /\ r.w \in Int /\ Len(chunk) \in Nat /\ Len(L) \in Nat
      /\ r.unread \in Seq(Units)
  BY DEF Shapes
<1>2. ASSUME NEW i \in 1 .. Len(L)
      PROVE  H[i] \in Units /\ (r.at + i <= r.w => H[i] = L[i])
  <2> DEFINE j == r.at + i - r.w
  <2>1. H[i] = IF j \in 1 .. Len(chunk) THEN chunk[j] ELSE L[i]
    BY DEF Overwritten
  <2>2. (j \in 1 .. Len(chunk) => chunk[j] \in Units) /\ L[i] \in Units
    <3> HIDE DEF j
    <3> QED
      BY <1>1
  <2>3. r.at + i <= r.w => j \notin 1 .. Len(chunk)
    BY <1>1
  <2> QED
    BY <2>1, <2>2, <2>3
<1>3. H = [i \in 1 .. Len(L) |-> H[i]]
  BY DEF Overwritten
<1> HIDE DEF H, L
<1>4. H \in Seq(Units)
  <2>1. H \in [1 .. Len(L) -> Units]
    BY <1>2, <1>3
  <2> QED
    BY <1>1, <2>1
<1>5. ASSUME Len(L) = 2, r.at + 2 <= r.w
      PROVE  H = L
  <2>1. \A i \in 1 .. 2 : r.at + i <= r.w
    BY <1>1, <1>5
  <2>2. \A i \in 1 .. Len(L) : H[i] = L[i]
    BY <1>2, <1>5, <2>1
  <2>3. L = [i \in 1 .. Len(L) |-> L[i]]
    BY <1>1
  <2> QED
    BY <1>3, <2>2, <2>3
<1>6. r.unread \o chunk \in Seq(Units) /\ r.w + Len(chunk) \in Int
  BY <1>1
<1> DEFINE e == [r EXCEPT !.unread = @ \o chunk, !.w = @ + Len(chunk), !.header = H]
<1>7. /\ e \in Shapes /\ e.unread = r.unread \o chunk /\ e.phase = r.phase /\ e.need = r.need
      /\ e.at = r.at /\ e.w = r.w + Len(chunk) /\ e.header = H
  BY <1>4, <1>6 DEF Shapes
<1>8. e = Push(r, chunk)
  BY DEF Push, H
<1> HIDE DEF e
<1> QED
  BY <1>5, <1>7, <1>8 DEF L

\* A chunk comes while the part awaited is not there.
LEMMA ChunkStreams ==
    ASSUME NEW r, NEW D, NEW W, NEW h, NEW C, Streaming(r, D, W, h, C), ~ Ready(r),
           NEW k \in 1 .. Len(D), NEW E, C \subseteq E, ~ HeaderEnds(W, D[k], E)
    PROVE  Streaming(Push(r, SubSeq(D, 1, k)), SubSeq(D, k + 1, Len(D)), W, h, E)
<1> DEFINE first == SubSeq(D, 1, k)
           rest == SubSeq(D, k + 1, Len(D))
           e == Push(r, first)
           x == NextAt(r.unread \o D, W, 1)
<1>1. /\ r \in Shapes /\ D \in Seq(Units) /\ W \in Seq(Kinds) /\ h \in Nat
      /\ Told(W) /\ Flows(r.unread \o D, W) /\ Place(r, x, W, h, C) /\ r.unread \in Seq(Units)
  BY DEF Streaming, Shapes
<1>2. /\ first \in Seq(Units) /\ rest \in Seq(Units)
      /\ r.unread \o first # <<>>
      /\ (r.unread \o first)[Len(r.unread \o first)] = D[k]
      /\ (r.unread \o first) \o rest = r.unread \o D
  BY <1>1, Cut
<1> HIDE DEF first, rest
<1>3. /\ e \in Shapes /\ e.unread = r.unread \o first /\ e.phase = r.phase /\ e.need = r.need
      /\ e.at = r.at /\ e.w = r.w + Len(first)
      /\ Len(r.header) = 2 /\ r.at + 2 <= r.w => e.header = r.header
  BY <1>1, <1>2, HeaderKept
<1> HIDE DEF e, x
<1>4. Place(e, x, W, h, E)
  <2>0. r.phase = "body" => r.need # 0
    <3>1. r.need \in 0 .. 2 /\ Len(r.unread) \in Nat
      BY <1>1 DEF Shapes
    <3> QED
      BY <3>1 DEF Ready
  <2>1. ASSUME r.phase = "body", h + 3 \notin E
        PROVE  r.header = <<At(h + 3, 1), At(h + 3, 2)>> /\ e.header = r.header /\ e.at + 2 <= e.w
    <3>1. r.need \in Nat /\ r.need # 0
      <4>1. r.need \in 0 .. 2 /\ Len(r.unread) \in Nat
        BY <1>1 DEF Shapes
      <4> QED
        BY <4>1 DEF Ready
    <3>2. r.header = <<At(h + 3, 1), At(h + 3, 2)>> /\ r.at + 2 <= r.w
      BY <1>1, <2>1, <3>1 DEF Place
    <3>3. Len(r.header) = 2 /\ r.at \in Int /\ r.w \in Int /\ Len(first) \in Nat
      BY <1>1, <1>2, <3>2 DEF Shapes
    <3> QED
      BY <1>3, <3>2, <3>3
  <2>2. CASE r.phase = "body"
    BY <1>1, <1>3, <2>0, <2>1, <2>2 DEF Place
  <2>3. CASE r.phase # "body"
    BY <1>1, <1>3, <2>3 DEF Place
  <2> QED
    BY <2>2, <2>3
<1> QED
  BY <1>1, <1>2, <1>3, <1>4 DEF Streaming, x, e, first, rest

\* Without a cut inside a message no chunk ends right after a header.
LEMMA WholeEnds ==
    ASSUME NEW r, NEW D, NEW W, NEW h, NEW C, Streaming(r, D, W, h, C), NEW k \in 1 .. Len(D),
           \A i \in 1 .. k : D[i].n = D[1].n, k < Len(D) => D[k + 1].n # D[1].n
    PROVE  ~ HeaderEnds(W, D[k], {})
<1> DEFINE q == r.unread
           S == q \o D
           j == Len(q) + k
           n == D[k].n
<1>1. /\ q \in Seq(Units) /\ D \in Seq(Units) /\ Flows(S, W) /\ W \in Seq(Kinds)
  BY DEF Streaming, Shapes
<1>2. /\ S \in Seq(Units) /\ Len(S) = Len(q) + Len(D)
      /\ \A i \in 1 .. Len(D) : S[Len(q) + i] = D[i]
  BY <1>1, Joined
<1>3. Len(q) \in Nat /\ Len(D) \in Nat /\ Len(W) \in Nat
  BY <1>1
<1> HIDE DEF q, S
<1>4. j \in 1 .. Len(S) /\ S[j] = D[k] /\ j + 1 = Len(q) + (k + 1)
  BY <1>2, <1>3
<1> HIDE DEF j
<1>5. n \in 1 .. Len(W) /\ NextAt(S, W, j + 1) = After(W, D[k])
  BY <1>1, <1>4 DEF Flows
<1>6. SUFFICES ASSUME D[k].part = 2, BodySize(W[n]) > 0
               PROVE  FALSE
  BY DEF HeaderEnds, HeaderSize
<1>7. D[k] = At(n, 2)
  <2>0. D[k] \in Units
    BY <1>1
  <2>1. D[k] \in [n : Nat, part : Nat]
    BY <2>0 DEF Units
  <2>2. D[k] = [n |-> D[k].n, part |-> D[k].part]
    BY <2>1
  <2> QED
    BY <1>6, <2>2 DEF At
<1> HIDE DEF n
<1>8. NextAt(S, W, j + 1) = At(n, 3)
  <2>1. W[n] \in Kinds
    BY <1>1, <1>5
  <2>2. W[n] \notin {"ok", "denied"}
    BY <1>6 DEF BodySize
  <2>3. Size(W[n]) = 2 + BodySize(W[n]) /\ BodySize(W[n]) \in 0 .. 2
    BY <2>1, <2>2, Sizes
  <2>4. 2 < Size(W[n])
    BY <1>6, <2>3
  <2> QED
    BY <1>5, <1>7, <2>4 DEF After, At
<1>9. CASE k < Len(D)
  <2>1. k + 1 \in 1 .. Len(D) /\ j + 1 \in 1 .. Len(S)
    BY <1>2, <1>3, <1>4, <1>9
  <2>2. D[k + 1] = At(n, 3)
    BY <1>2, <1>4, <1>8, <2>1 DEF NextAt
  <2>3. D[k + 1].n = D[k].n /\ D[k].n = D[1].n
    BY <1>7, <2>2 DEF At
  <2> QED
    BY <1>9, <2>3
<1>10. CASE ~ (k < Len(D))
  <2>1. j + 1 \notin 1 .. Len(S)
    BY <1>2, <1>3, <1>4, <1>10
  <2>2. At(n, 3) = [n |-> Len(W) + 1, part |-> 1]
    BY <1>8, <2>1 DEF NextAt
  <2> QED
    BY <2>2 DEF At
<1> QED
  BY <1>9, <1>10

LEMMA JoinedThree ==
    ASSUME NEW q \in Seq(Units), NEW D \in Seq(Units), NEW u \in Seq(Units)
    PROVE  (q \o D) \o u = q \o (D \o u)
<1> DEFINE x == (q \o D) \o u
           y == q \o (D \o u)
<1>1. /\ x \in Seq(Units) /\ Len(x) = Len(q) + Len(D) + Len(u)
      /\ y \in Seq(Units) /\ Len(y) = Len(q) + Len(D) + Len(u)
      /\ \A i \in 1 .. Len(q) + Len(D) + Len(u) : x[i] = y[i]
  OBVIOUS
<1> HIDE DEF x, y
<1>2. x = y
  BY <1>1
<1> QED
  BY <1>2 DEF x, y

\* The server sends a message, or an answer to the link.
LEMMA SentStreams ==
    ASSUME NEW r, NEW D, NEW W, NEW h, NEW C, Streaming(r, D, W, h, C), NEW kind \in Kinds,
           Told(Append(W, kind))
    PROVE  Streaming(r, D \o UnitsSent(Len(W) + 1, kind), Append(W, kind), h, C)
<1> DEFINE q == r.unread
           u == UnitsSent(Len(W) + 1, kind)
           V == Append(W, kind)
           x == NextAt(q \o D, W, 1)
           last == q[Len(q)]
<1>1. /\ r \in Shapes /\ D \in Seq(Units) /\ W \in Seq(Kinds) /\ h \in Nat /\ q \in Seq(Units)
      /\ Flows(q \o D, W) /\ Place(r, x, W, h, C)
      /\ q # <<>> => ~ HeaderEnds(W, last, C)
  BY DEF Streaming, Shapes
<1>2. u \in Seq(Units)
  BY <1>1, UnitsAre
<1>3. /\ q \o D \in Seq(Units) /\ Len(q) <= Len(q \o D)
      /\ \A i \in 1 .. Len(q) : (q \o D)[i] = q[i] /\ i \in 1 .. Len(q \o D)
  BY <1>1
<1>4. V \in Seq(Kinds) /\ Len(V) = Len(W) + 1 /\ \A n \in 1 .. Len(W) : V[n] = W[n] /\ n \in 1 .. Len(V)
  BY <1>1
<1>5. Flows((q \o D) \o u, V) /\ NextAt((q \o D) \o u, V, 1) = x
  BY <1>1, <1>3, AppendFlows
<1>6. (q \o D) \o u = q \o (D \o u) /\ D \o u \in Seq(Units)
  <2> HIDE DEF q, u
  <2> QED
    BY <1>1, <1>2, Joined, JoinedThree
<1>7. ASSUME q # <<>>
      PROVE  ~ HeaderEnds(V, last, C)
  <2>1. Len(q) \in 1 .. Len(q)
    BY <1>1, <1>7
  <2>2. last = (q \o D)[Len(q)] /\ Len(q) \in 1 .. Len(q \o D)
    BY <1>3, <2>1
  <2>3. last.n \in 1 .. Len(W)
    BY <1>1, <2>2 DEF Flows
  <2>4. V[last.n] = W[last.n]
    BY <1>4, <2>3
  <2> HIDE DEF V, last
  <2> QED
    BY <1>1, <1>7, <2>4 DEF HeaderEnds
<1> HIDE DEF x, V, q
<1>8. Place(r, x, V, h, C)
  <2>1. CASE r.phase = "body"
    <3>1. h + 3 \in 1 .. Len(W)
      BY <1>1, <2>1 DEF Place
    <3>2. h + 3 \in 1 .. Len(V) /\ V[h + 3] = W[h + 3]
      BY <1>4, <3>1
    <3> QED
      BY <1>1, <2>1, <3>2 DEF Place
  <2>2. CASE r.phase # "body"
    BY <1>1, <2>2 DEF Place
  <2> QED
    BY <2>1, <2>2
<1>9. Told(V)
  BY DEF V
<1> HIDE DEF u
<1>10. Flows(q \o (D \o u), V) /\ NextAt(q \o (D \o u), V, 1) = x
  BY <1>5, <1>6
<1> QED
  BY <1>1, <1>4, <1>6, <1>7, <1>8, <1>9, <1>10 DEF Streaming, V, u, q
-----------------------------------------------------------------------------
(* The server's side of a channel: what it has sent is what its state says. *)

Sending(s, W, script) ==
    /\ {"state", "script"} \subseteq DOMAIN s
    /\ W \in Seq(Kinds)
    /\ s.state = "link" => Len(W) = 0 /\ s.script = script
    /\ s.state = "ticket" => Len(W) = 1 /\ s.script = script
    /\ s.state = "up" => Len(W) >= 2 /\ s.script = SubSeq(script, Len(W) - 1, Len(script))
    /\ s.state = "closed" => Len(W) >= 2
    /\ \A i \in 3 .. Len(W) : i - 2 \in 1 .. Len(script) /\ W[i] = script[i - 2]

LEMMA OneMore ==
    ASSUME NEW W \in Seq(Kinds), NEW kind \in Kinds
    PROVE  /\ W \o <<kind>> = Append(W, kind) /\ Append(W, kind) \in Seq(Kinds)
           /\ Len(Append(W, kind)) = Len(W) + 1 /\ Append(W, kind)[Len(W) + 1] = kind
           /\ \A i \in 1 .. Len(W) : Append(W, kind)[i] = W[i]
OBVIOUS

\* The answer to the link, then to the ticket.
LEMMA AnswerSent ==
    ASSUME NEW s, NEW W, NEW script \in Seq(Messages), Sending(s, W, script), Told(W),
           NEW t, t.script = s.script, {"state", "script"} \subseteq DOMAIN t, NEW kind,
           \/ s.state = "link" /\ kind = "reply" /\ t.state = "ticket"
           \/ s.state = "ticket" /\ kind = "ok" /\ t.state = "up"
           \/ s.state = "ticket" /\ kind = "denied" /\ t.state = "closed"
    PROVE  Told(Append(W, kind)) /\ Sending(t, Append(W, kind), script) /\ kind \in Kinds
<1> DEFINE V == Append(W, kind)
<1>1. kind \in Kinds /\ W \in Seq(Kinds) /\ Len(W) \in 0 .. 1
  BY DEF Sending, Kinds
<1>2. V \in Seq(Kinds) /\ Len(V) = Len(W) + 1 /\ V[Len(W) + 1] = kind /\ \A i \in 1 .. Len(W) : V[i] = W[i]
  BY <1>1, OneMore
<1> HIDE DEF V
<1>3. Told(V)
  <2>1. CASE Len(W) = 0
    <3>1. kind = "reply"
      BY <2>1 DEF Sending
    <3> QED
      BY <1>2, <2>1, <3>1 DEF Told
  <2>2. CASE Len(W) = 1
    <3>1. kind \in {"ok", "denied"}
      BY <2>2 DEF Sending
    <3>2. Len(V) = 2 /\ V[2] = kind /\ V[1] = W[1] /\ W[1] = "reply"
      BY <1>2, <2>2 DEF Told
    <3> QED
      BY <3>1, <3>2 DEF Told
  <2> QED
    BY <1>1, <2>1, <2>2
<1>4. Sending(t, V, script)
  <2>1. \A i \in 3 .. Len(V) : FALSE
    BY <1>1, <1>2
  <2>2. CASE s.state = "link"
    <3>1. t.state = "ticket" /\ Len(V) = 1 /\ t.script = script
      BY <1>2, <2>2 DEF Sending
    <3> QED
      BY <1>2, <2>1, <3>1 DEF Sending
  <2>3. CASE s.state = "ticket"
    <3>1. t.state \in {"up", "closed"} /\ Len(V) = 2 /\ t.script = script
      <4>1. Len(W) = 1 /\ s.script = script
        BY <2>3 DEF Sending
      <4>2. Len(V) = 2 /\ t.script = script
        BY <1>2, <4>1
      <4>3. t.state \in {"up", "closed"}
        BY <2>3
      <4> QED
        BY <4>2, <4>3
    <3>2. Len(V) - 1 = 1 /\ SubSeq(script, 1, Len(script)) = script
      BY <3>1
    <3>3. V \in Seq(Kinds)
      BY <1>2
    <3> QED
      BY <2>1, <3>1, <3>2, <3>3 DEF Sending
  <2> QED
    BY <2>2, <2>3
<1> QED
  BY <1>1, <1>3, <1>4 DEF V

LEMMA Rest ==
    ASSUME NEW script \in Seq(Messages), NEW m \in Nat \ {0}, SubSeq(script, m, Len(script)) # <<>>
    PROVE  LET rest == SubSeq(script, m, Len(script))
           IN  /\ m \in 1 .. Len(script) /\ Head(rest) = script[m] /\ Head(rest) \in Messages
               /\ Tail(rest) = SubSeq(script, m + 1, Len(script))
<1>1. m \in 1 .. Len(script)
  OBVIOUS
<1>2. Head(SubSeq(script, m, Len(script))) = script[m]
  BY <1>1
<1> DEFINE x == Tail(SubSeq(script, m, Len(script)))
           y == SubSeq(script, m + 1, Len(script))
<1>3. /\ x \in Seq(Messages) /\ y \in Seq(Messages) /\ Len(x) = Len(y)
      /\ \A i \in 1 .. Len(x) : x[i] = y[i]
  BY <1>1
<1> HIDE DEF x, y
<1>4. x = y
  BY <1>3
<1> QED
  BY <1>1, <1>2, <1>4 DEF x, y

\* The next message of the script.
LEMMA MessageSent ==
    ASSUME NEW s, NEW W, NEW script \in Seq(Messages), Sending(s, W, script), Told(W),
           s.state = "up", s.script # <<>>,
           NEW t, t.script = Tail(s.script), t.state = "up", {"state", "script"} \subseteq DOMAIN t
    PROVE  LET kind == Head(s.script)
           IN  Told(Append(W, kind)) /\ Sending(t, Append(W, kind), script) /\ kind \in Kinds
<1> DEFINE kind == Head(s.script)
           V == Append(W, kind)
           m == Len(W) - 1
<1>1. W \in Seq(Kinds) /\ Len(W) >= 2 /\ s.script = SubSeq(script, m, Len(script))
  BY DEF Sending
<1>2. m \in Nat \ {0} /\ Len(W) \in Nat
  <2>1. Len(W) \in Nat /\ Len(W) >= 2
    BY <1>1
  <2>2. \A n \in Nat : n >= 2 => n - 1 \in Nat \ {0}
    OBVIOUS
  <2>3. Len(W) - 1 \in Nat \ {0}
    BY <2>1, <2>2
  <2> QED
    BY <2>1, <2>3
<1> HIDE DEF m
<1>3. /\ m \in 1 .. Len(script) /\ kind = script[m] /\ kind \in Messages
      /\ Tail(s.script) = SubSeq(script, m + 1, Len(script))
  BY <1>1, <1>2, Rest
<1>4. kind \in Kinds
  BY <1>3 DEF Messages
<1> HIDE DEF kind
<1>5. V \in Seq(Kinds) /\ Len(V) = Len(W) + 1 /\ V[Len(W) + 1] = kind /\ \A i \in 1 .. Len(W) : V[i] = W[i]
  BY <1>1, <1>4, OneMore
<1> HIDE DEF V
<1>6. \A i \in 1 .. Len(V) : i \in 1 .. Len(W) \/ i = Len(W) + 1
  BY <1>2, <1>5
<1>7. Told(V)
  <2>1. Len(W) + 1 > 2 /\ Len(W) + 1 # 1 /\ Len(W) + 1 # 2
    BY <1>1, <1>2
  <2> QED
    BY <1>3, <1>5, <1>6, <2>1 DEF Told
<1>8. Sending(t, V, script)
  <2>1. Len(V) >= 2 /\ Len(V) - 1 = m + 1
    BY <1>1, <1>2, <1>5 DEF m
  <2>2. ASSUME NEW i \in 3 .. Len(V)
        PROVE  i - 2 \in 1 .. Len(script) /\ V[i] = script[i - 2]
    <3>1. CASE i \in 3 .. Len(W)
      <4>1. i \in 1 .. Len(W)
        BY <3>1
      <4> QED
        BY <1>5, <3>1, <4>1 DEF Sending
    <3>2. CASE i \notin 3 .. Len(W)
      <4>1. i = Len(W) + 1 /\ i - 2 = m
        BY <1>2, <1>5, <3>2 DEF m
      <4> QED
        BY <1>3, <1>5, <4>1
    <3> QED
      BY <3>1, <3>2
  <2> QED
    BY <1>3, <1>5, <2>1, <2>2 DEF Sending
<1> QED
  BY <1>4, <1>7, <1>8 DEF V, kind
-----------------------------------------------------------------------------
(* The session: no channel is opened twice and each stays in its place.    *)

Framed ==
    /\ DOMAIN sock = Channels /\ DOMAIN rx = Channels /\ DOMAIN down = Channels
    /\ DOMAIN wire = Channels /\ DOMAIN server = Channels
    /\ handled \in [Channels -> Seq(Nat)]
    /\ scope \in Scopes

\* The messages of channel c whose header was the end of a chunk.
CutOf(c) == {n \in Nat : <<c, n>> \in cut}

Placed(c) ==
    sock[c] # "closed" =>
        Streaming(rx[c], down[c], wire[c], Len(handled[c]), CutOf(c)) /\ (turn = c <=> Ready(rx[c]))

\* The list of channels has been handled.
Listed == \E i \in 1 .. Len(handled["main"]) : scope.scripts["main"][i] = "list"

NoneOpened(q) == \A i \in 1 .. Len(q) : sock[q[i]] = "none"
Distinct(q) == \A i, j \in 1 .. Len(q) : q[i] = q[j] => i = j

ToOpen ==
    ~ gone => /\ runQ \in Seq(Channels) /\ NoneOpened(runQ) /\ Distinct(runQ)
              /\ ~ Listed => runQ = <<>> /\ proxy = None /\ NoneOpened(scope.listed)

Turned == turn # None => turn \in Channels /\ sock[turn] = "open"

Served == \A c \in Channels : Sending(server[c], wire[c], scope.scripts[c])

Inv ==
    /\ Framed /\ Over /\ Turned /\ ToOpen /\ Served
    /\ \A c \in Channels : Placed(c)
    /\ MessagesIntact

\* What is said of a scope.
LEMMA ScopeIs ==
    ASSUME Orderly, scope \in Scopes
    PROVE  /\ scope.listed \in Seq(Channels) /\ Distinct(scope.listed)
           /\ \A i \in 1 .. Len(scope.listed) : scope.listed[i] # "main"
           /\ \A c \in Channels : scope.scripts[c] \in Seq(Messages)
           /\ \A c \in Channels : \A i, j \in 1 .. Len(scope.scripts[c]) :
                 scope.scripts[c][i] = "list" => c = "main" /\ (scope.scripts[c][j] = "list" => i = j)
<1>1. scope \in ScopeSet
  BY SessionAssumption
<1>2. scope.listed \in Seq(Channels) /\ scope.scripts \in [Channels -> Seq(Messages)]
  BY <1>1 DEF ScopeSet
<1> QED
  BY <1>2 DEF Orderly, OrderlyScope, Distinct

\* A channel that is not touched stays in its place.
LEMMA PlacedKept ==
    ASSUME NEW c \in Channels, Placed(c), sock'[c] # "closed" => sock[c] # "closed",
           rx'[c] = rx[c], down'[c] = down[c], wire'[c] = wire[c], handled'[c] = handled[c],
           \A n \in Nat : <<c, n>> \in cut' <=> <<c, n>> \in cut, turn' = c <=> turn = c
    PROVE  Placed(c)'
BY DEF Placed, CutOf

LEMMA ToOpenKept ==
    ASSUME ToOpen, gone' = gone, scope' = scope, runQ' = runQ, proxy' = proxy,
           Len(handled'["main"]) \in Nat, Len(handled["main"]) \in Nat,
           Len(handled'["main"]) >= Len(handled["main"]),
           \A d \in Channels : sock[d] = "none" => sock'[d] = "none",
           scope.listed \in Seq(Channels)
    PROVE  ToOpen'
<1> SUFFICES ASSUME ~ gone PROVE ToOpen'
  BY DEF ToOpen
<1>1. Listed => Listed'
  <2>1. \A i \in 1 .. Len(handled["main"]) : i \in 1 .. Len(handled'["main"])
    OBVIOUS
  <2> QED
    BY <2>1 DEF Listed
<1>2. ASSUME NEW q \in Seq(Channels), NoneOpened(q)
      PROVE  NoneOpened(q)'
  <2>1. \A i \in 1 .. Len(q) : q[i] \in Channels
    OBVIOUS
  <2> QED
    BY <1>2, <2>1 DEF NoneOpened
<1>3. NoneOpened(runQ)' /\ Distinct(runQ)' /\ runQ' \in Seq(Channels)
  BY <1>2 DEF ToOpen, NoneOpened, Distinct
<1>4. ~ Listed' => runQ' = <<>> /\ proxy' = None /\ NoneOpened(scope.listed)'
  BY <1>1, <1>2 DEF ToOpen, NoneOpened
<1> QED
  BY <1>3, <1>4 DEF ToOpen

LEMMA HeadAndTail ==
    ASSUME NEW q \in Seq(Channels), q # <<>>, Distinct(q)
    PROVE  /\ Head(q) \in Channels /\ Tail(q) \in Seq(Channels) /\ Head(q) = q[1] /\ 1 \in 1 .. Len(q)
           /\ \A i \in 1 .. Len(Tail(q)) :
                 i + 1 \in 1 .. Len(q) /\ Tail(q)[i] = q[i + 1] /\ Tail(q)[i] # Head(q)
           /\ Distinct(Tail(q))
<1>1. /\ Head(q) \in Channels /\ Tail(q) \in Seq(Channels) /\ Head(q) = q[1] /\ 1 \in 1 .. Len(q)
      /\ \A i \in 1 .. Len(Tail(q)) : i + 1 \in 1 .. Len(q) /\ Tail(q)[i] = q[i + 1] /\ i + 1 # 1
  OBVIOUS
<1>2. \A i \in 1 .. Len(Tail(q)) : Tail(q)[i] # Head(q)
  BY <1>1 DEF Distinct
<1>3. ASSUME NEW i \in 1 .. Len(Tail(q)), NEW j \in 1 .. Len(Tail(q)), Tail(q)[i] = Tail(q)[j]
      PROVE  i = j
  <2>1. i + 1 = j + 1
    BY <1>1, <1>3 DEF Distinct
  <2> QED
    BY <2>1
<1> QED
  BY <1>1, <1>2, <1>3 DEF Distinct

\* The RunQueue goes on to its next channel, which was not opened before.
LEMMA RunsNext ==
    ASSUME NEW socks, DOMAIN socks = Channels, NEW q \in Seq(Channels), Distinct(q),
           \A i \in 1 .. Len(q) : socks[q[i]] = "none", RunNext(socks, q)
    PROVE  /\ DOMAIN sock' = Channels /\ runQ' \in Seq(Channels) /\ Distinct(runQ)' /\ NoneOpened(runQ)'
           /\ \A d \in Channels : \/ sock'[d] = socks[d]
                                  \/ socks[d] = "none" /\ sock'[d] = "connecting"
<1>1. CASE q = <<>>
  <2>1. sock' = socks /\ runQ' = <<>>
    BY <1>1 DEF RunNext
  <2>2. runQ' \in Seq(Channels) /\ Len(runQ') = 0
    BY <2>1
  <2>3. \A i \in 1 .. Len(runQ') : FALSE
    BY <2>2
  <2> QED
    BY <2>1, <2>2, <2>3 DEF Distinct, NoneOpened
<1>2. CASE q # <<>>
  <2>1. sock' = [socks EXCEPT ![Head(q)] = "connecting"] /\ runQ' = Tail(q)
    BY <1>2 DEF RunNext
  <2>2. /\ Head(q) \in Channels /\ Tail(q) \in Seq(Channels) /\ Head(q) = q[1] /\ 1 \in 1 .. Len(q)
        /\ \A i \in 1 .. Len(Tail(q)) :
              i + 1 \in 1 .. Len(q) /\ Tail(q)[i] = q[i + 1] /\ Tail(q)[i] # Head(q)
        /\ Distinct(Tail(q))
    BY <1>2, HeadAndTail
  <2>3. socks[Head(q)] = "none"
    BY <2>2
  <2>4. \A i \in 1 .. Len(Tail(q)) : Tail(q)[i] \in Channels /\ socks[Tail(q)[i]] = "none"
    BY <2>2
  <2>5. \A i \in 1 .. Len(Tail(q)) : sock'[Tail(q)[i]] = "none"
    BY <2>1, <2>2, <2>4
  <2>6. NoneOpened(runQ)' /\ Distinct(runQ)'
    BY <2>1, <2>2, <2>5 DEF NoneOpened, Distinct
  <2> QED
    BY <2>1, <2>2, <2>3, <2>6
<1> QED
  BY <1>1, <1>2

LEMMA SendsAll ==
    ASSUME DOMAIN sock = Channels, NEW c \in Channels, NEW packets, SendAll(c, packets)
    PROVE  /\ DOMAIN sock' = Channels /\ (sock[c] = "open" => sock' = sock)
           /\ \A d \in Channels : sock'[d] = sock[d] \/ (sock[d] # "none" /\ sock'[d] = "closed")
<1> DEFINE sent == packets = <<>> \/ sock[c] = "open"
<1>1. sock' = IF sent \/ sock[c] = "none" THEN sock ELSE [sock EXCEPT ![c] = "closed"]
  BY DEF SendAll
<1>2. CASE sent \/ sock[c] = "none"
  <2>1. sock' = sock
    BY <1>1, <1>2
  <2> HIDE DEF sent
  <2> QED
    BY <2>1
<1>3. CASE ~ (sent \/ sock[c] = "none")
  <2>1. sock' = [sock EXCEPT ![c] = "closed"] /\ sock[c] # "none" /\ sock[c] # "open"
    BY <1>1, <1>3
  <2> HIDE DEF sent
  <2>2. DOMAIN sock' = Channels /\ sock'[c] = "closed" /\ \A d \in Channels : d # c => sock'[d] = sock[d]
    BY <2>1
  <2> QED
    BY <2>1, <2>2
<1> QED
  BY <1>2, <1>3

\* Steps that change only which sockets are open.
LEMMA SocketsOnly ==
    ASSUME Inv, UNCHANGED <<scope, rx, down, wire, server, handled, turn, cut>>,
           DOMAIN sock' = Channels, Over', ToOpen', turn = None,
           \A d \in Channels : sock'[d] # "closed" => sock[d] # "closed"
    PROVE  Inv'
<1>1. Framed'
  BY DEF Inv, Framed
<1>2. Turned' /\ Served' /\ MessagesIntact'
  BY DEF Inv, Turned, Served, MessagesIntact
<1>3. \A c \in Channels : Placed(c)'
  BY PlacedKept DEF Inv
<1> QED
  BY <1>1, <1>2, <1>3 DEF Inv

LEMMA Lengths ==
    ASSUME Inv
    PROVE  \A c \in Channels : handled[c] \in Seq(Nat) /\ Len(handled[c]) \in Nat
BY DEF Inv, Framed

LEMMA OpensKeeps ==
    ASSUME Inv, Orderly, NEW c \in Channels, SocketOpens(c), Over'
    PROVE  /\ Inv' /\ sock'[c] = "open"
           /\ \A d \in Channels : d # c =>
                 sock'[d] = sock[d] \/ (sock[d] = "none" /\ sock'[d] = "connecting")
<1> DEFINE opened == [sock EXCEPT ![c] = "open"]
<1>1. ~ gone /\ gone' = gone /\ turn = None /\ sock[c] = "connecting"
      /\ UNCHANGED <<scope, rx, down, wire, server, handled, turn, cut>>
  BY DEF SocketOpens, Inv, Over
<1>2. DOMAIN opened = Channels /\ \A d \in Channels : opened[d] = IF d = c THEN "open" ELSE sock[d]
  BY DEF Inv, Framed
<1>3. IF proxy = c THEN RunNext(opened, runQ) ELSE sock' = opened /\ UNCHANGED <<runQ, proxy>>
  BY DEF SocketOpens
<1> HIDE DEF opened
<1>4. Listed' = Listed /\ scope.listed \in Seq(Channels)
  BY <1>1, ScopeIs DEF Listed, Inv, Framed
<1>5. CASE proxy = c
  <2>1. Listed
    BY <1>1, <1>5, SessionAssumption DEF Inv, ToOpen
  <2>2. runQ \in Seq(Channels) /\ Distinct(runQ) /\ \A i \in 1 .. Len(runQ) : opened[runQ[i]] = "none"
    <3>1. runQ \in Seq(Channels) /\ Distinct(runQ) /\ NoneOpened(runQ)
      BY <1>1 DEF Inv, ToOpen
    <3>2. \A i \in 1 .. Len(runQ) : runQ[i] \in Channels /\ sock[runQ[i]] = "none"
      BY <3>1 DEF NoneOpened
    <3> QED
      BY <1>1, <1>2, <3>1, <3>2
  <2>3. /\ DOMAIN sock' = Channels /\ runQ' \in Seq(Channels) /\ Distinct(runQ)' /\ NoneOpened(runQ)'
        /\ \A d \in Channels : \/ sock'[d] = opened[d]
                               \/ opened[d] = "none" /\ sock'[d] = "connecting"
    BY <1>2, <1>3, <1>5, <2>2, RunsNext
  <2>4. ToOpen'
    BY <1>4, <2>1, <2>3 DEF ToOpen
  <2>5. \A d \in Channels : sock'[d] # "closed" => sock[d] # "closed"
    BY <1>1, <1>2, <2>3
  <2>6. Inv'
    BY <1>1, <2>3, <2>4, <2>5, SocketsOnly
  <2>7. sock'[c] = "open"
    BY <1>2, <2>3
  <2>8. ASSUME NEW d \in Channels, d # c
        PROVE  sock'[d] = sock[d] \/ (sock[d] = "none" /\ sock'[d] = "connecting")
    BY <1>2, <2>3, <2>8
  <2> QED
    BY <2>6, <2>7, <2>8
<1>6. CASE proxy # c
  <2>1. sock' = opened /\ runQ' = runQ /\ proxy' = proxy
    BY <1>3, <1>6
  <2>2. \A d \in Channels : sock[d] = "none" => sock'[d] = "none"
    BY <1>1, <1>2, <2>1
  <2>3. Len(handled["main"]) \in Nat /\ handled' = handled
    BY <1>1, Lengths, SessionAssumption
  <2>4. ToOpen'
    <3>1. gone' = gone /\ scope' = scope /\ ToOpen /\ scope.listed \in Seq(Channels)
      BY <1>1, <1>4 DEF Inv
    <3>2. Len(handled'["main"]) \in Nat /\ Len(handled'["main"]) >= Len(handled["main"])
      BY <2>3
    <3> QED
      BY <2>1, <2>2, <2>3, <3>1, <3>2, ToOpenKept
  <2>5. \A d \in Channels : sock'[d] # "closed" => sock[d] # "closed"
    BY <1>1, <1>2, <2>1
  <2>6. Inv'
    BY <1>1, <1>2, <2>1, <2>4, <2>5, SocketsOnly
  <2>7. sock'[c] = "open" /\ \A d \in Channels : d # c => sock'[d] = sock[d]
    BY <1>2, <2>1
  <2> QED
    BY <2>6, <2>7
<1> QED
  BY <1>5, <1>6

LEMMA UserKeeps ==
    ASSUME Inv, Orderly, NEW c \in Channels, NEW kind, UserSends(c, kind), Over'
    PROVE  Inv'
<1>1. /\ turn = None /\ ~ gone /\ gone' = gone /\ SendAll(c, <<Packet(kind)>>)
      /\ UNCHANGED <<scope, rx, down, wire, server, handled, turn, runQ, proxy, cut>>
  BY DEF UserSends
<1>2. /\ DOMAIN sock' = Channels
      /\ \A d \in Channels : sock'[d] = sock[d] \/ (sock[d] # "none" /\ sock'[d] = "closed")
  BY <1>1, SendsAll DEF Inv, Framed
<1>3. Len(handled["main"]) \in Nat /\ handled' = handled
  BY <1>1, Lengths, SessionAssumption
<1>4. scope.listed \in Seq(Channels)
  BY ScopeIs DEF Inv, Framed
<1>5. ToOpen'
  BY <1>1, <1>2, <1>3, <1>4, ToOpenKept DEF Inv
<1> QED
  BY <1>1, <1>2, <1>5, SocketsOnly

LEMMA DisconnectKeeps ==
    ASSUME Inv, Disconnect, Over'
    PROVE  Inv'
<1>1. /\ gone' /\ turn = None /\ sock' = [c \in Channels |-> "closed"]
      /\ UNCHANGED <<scope, rx, down, wire, server, handled, turn, cut>>
  BY DEF Disconnect
<1>2. ToOpen'
  BY <1>1 DEF ToOpen
<1> QED
  BY <1>1, <1>2, SocketsOnly

LEMMA LostKeeps ==
    ASSUME Inv, Orderly, NEW c \in Channels, SocketLost(c), sock[c] \in {"connecting", "open"}, Over'
    PROVE  Inv'
<1>1. /\ turn = None /\ sock' = [sock EXCEPT ![c] = "closed"] /\ down' = [down EXCEPT ![c] = <<>>]
      /\ UNCHANGED <<scope, rx, wire, server, handled, turn, runQ, proxy, gone, cut>>
  BY DEF SocketLost
<1>2. DOMAIN sock' = Channels /\ DOMAIN down' = Channels /\ sock'[c] = "closed"
      /\ \A d \in Channels : d # c => sock'[d] = sock[d] /\ down'[d] = down[d]
  BY <1>1 DEF Inv, Framed
<1>3. Framed'
  BY <1>1, <1>2 DEF Inv, Framed
<1>4. Turned' /\ Served' /\ MessagesIntact'
  BY <1>1 DEF Inv, Turned, Served, MessagesIntact
<1>5. ASSUME NEW d \in Channels PROVE Placed(d)'
  <2>1. CASE d = c
    BY <1>2, <2>1 DEF Placed
  <2>2. CASE d # c
    BY <1>1, <1>2, <2>2, PlacedKept DEF Inv
  <2> QED
    BY <2>1, <2>2
<1>6. Len(handled["main"]) \in Nat /\ handled' = handled
  BY <1>1, Lengths, SessionAssumption
<1>7. scope.listed \in Seq(Channels)
  BY ScopeIs DEF Inv, Framed
<1>8. \A d \in Channels : sock[d] = "none" => sock'[d] = "none"
  BY <1>2
<1>9. ToOpen'
  BY <1>1, <1>6, <1>7, <1>8, ToOpenKept DEF Inv
<1> QED
  BY <1>3, <1>4, <1>5, <1>9 DEF Inv

\* Nothing changes in what waits to be opened.
LEMMA NothingOpens ==
    ASSUME Inv, Orderly, UNCHANGED <<scope, sock, runQ, proxy, gone, handled>>
    PROVE  ToOpen'
<1>1. Len(handled["main"]) \in Nat /\ handled' = handled /\ scope.listed \in Seq(Channels)
  BY Lengths, SessionAssumption, ScopeIs DEF Inv, Framed
<1>2. ToOpen
  BY DEF Inv
<1> QED
  BY <1>1, <1>2, ToOpenKept

LEMMA ReceivesKeeps ==
    ASSUME Inv, Orderly, NEW c \in Channels, NEW k \in 1 .. Len(down[c]), Receives(c, k), Over'
    PROVE  Inv'
<1> DEFINE D == down[c]
           r == Push(rx[c], SubSeq(D, 1, k))
           h == Len(handled[c])
<1>1. /\ turn = None /\ sock[c] = "open"
      /\ down' = [down EXCEPT ![c] = SubSeq(D, k + 1, Len(D))]
      /\ rx' = [rx EXCEPT ![c] = r] /\ turn' = IF Ready(r) THEN c ELSE None
      /\ UNCHANGED <<scope, sock, runQ, proxy, gone, handled, server, wire>>
      /\ cut' = IF EndsAtHeader(c, k) THEN cut \cup {<<c, D[k].n>>} ELSE cut
  BY DEF Receives
<1>2. c # None /\ \A d \in Channels : d # None
  BY SessionAssumption
<1>3. Streaming(rx[c], D, wire[c], h, CutOf(c)) /\ ~ Ready(rx[c])
  BY <1>1, <1>2 DEF Inv, Placed
<1>4. D[k].n \in Nat
  <2>1. D \in Seq(Units) /\ k \in 1 .. Len(D)
    BY <1>3 DEF Streaming
  <2> HIDE DEF D
  <2>2. D[k] \in Units
    BY <2>1
  <2> QED
    BY <2>2 DEF Units
<1>11. /\ CutOf(c) \subseteq CutOf(c)'
       /\ \A d \in Channels : d # c => \A n \in Nat : <<d, n>> \in cut' <=> <<d, n>> \in cut
       /\ cut \subseteq cut' /\ (EndsAtHeader(c, k) => D[k].n \in CutOf(c)')
  BY <1>1, <1>4 DEF CutOf
<1>12. ~ HeaderEnds(wire[c], D[k], CutOf(c)')
  <2>1. CASE EndsAtHeader(c, k)
    BY <1>11, <2>1 DEF HeaderEnds
  <2>2. CASE ~ EndsAtHeader(c, k)
    BY <2>2 DEF EndsAtHeader, HeaderEnds, KindOf
  <2> QED
    BY <2>1, <2>2
<1>5. Streaming(r, SubSeq(D, k + 1, Len(D)), wire[c], h, CutOf(c)')
  BY <1>3, <1>11, <1>12, ChunkStreams
<1>6. /\ DOMAIN down' = Channels /\ DOMAIN rx' = Channels
      /\ down'[c] = SubSeq(D, k + 1, Len(D)) /\ rx'[c] = r
      /\ \A d \in Channels : d # c => down'[d] = down[d] /\ rx'[d] = rx[d]
  BY <1>1 DEF Inv, Framed
<1> HIDE DEF r, D
<1>7. Framed'
  BY <1>1, <1>6 DEF Inv, Framed
<1>8. Turned' /\ Served' /\ MessagesIntact'
  BY <1>1, <1>2, <1>11 DEF Inv, Turned, Served, MessagesIntact
<1>9. ASSUME NEW d \in Channels PROVE Placed(d)'
  <2>1. CASE d = c
    BY <1>1, <1>2, <1>5, <1>6, <2>1 DEF Placed
  <2>2. CASE d # c
    <3>1. turn' # d /\ turn # d
      BY <1>1, <1>2, <2>2
    <3> QED
      BY <1>1, <1>6, <1>11, <2>2, <3>1, PlacedKept DEF Inv
  <2> QED
    BY <2>1, <2>2
<1>10. ToOpen'
  BY <1>1, NothingOpens
<1> QED
  BY <1>7, <1>8, <1>9, <1>10 DEF Inv
-----------------------------------------------------------------------------
(* The handler that runs takes the next part of its channel.               *)

LEMMA TakesWhat ==
    ASSUME Inv, NEW c \in Channels, NEW size, Takes(c, size)
    PROVE  /\ turn = c /\ sock[c] = "open" /\ Ready(rx[c])
           /\ Streaming(rx[c], down[c], wire[c], Len(handled[c]), CutOf(c))
           /\ DOMAIN rx' = Channels /\ rx'[c] = TakeNext(rx[c], size)
           /\ \A d \in Channels : d # c => rx'[d] = rx[d] /\ turn' # d /\ turn # d
           /\ turn' \in {c, None} /\ (turn' = c <=> Ready(rx'[c]))
           /\ UNCHANGED <<scope, gone, cut, down, server, wire>>
<1>1. c # None /\ \A d \in Channels : d # None
  BY SessionAssumption
<1>2. /\ turn = c /\ rx' = [rx EXCEPT ![c] = TakeNext(rx[c], size)]
      /\ turn' = IF Ready(TakeNext(rx[c], size)) THEN c ELSE None
      /\ UNCHANGED <<scope, gone, cut, down, server, wire>>
  BY DEF Takes
<1>3. sock[c] = "open"
  BY <1>1, <1>2 DEF Inv, Turned
<1>4. Ready(rx[c]) /\ Streaming(rx[c], down[c], wire[c], Len(handled[c]), CutOf(c))
  BY <1>2, <1>3 DEF Inv, Placed
<1>5. /\ DOMAIN rx' = Channels /\ rx'[c] = TakeNext(rx[c], size)
      /\ \A d \in Channels : d # c => rx'[d] = rx[d]
  BY <1>2 DEF Inv, Framed
<1> QED
  BY <1>1, <1>2, <1>3, <1>4, <1>5

LEMMA TakenKeeps ==
    ASSUME Inv, NEW c \in Channels, NEW size, Takes(c, size), Over', ToOpen',
           DOMAIN sock' = Channels, sock'[c] = "open",
           \A d \in Channels : sock'[d] # "closed" => sock[d] # "closed",
           handled' \in [Channels -> Seq(Nat)], MessagesIntact',
           \A d \in Channels : d # c => handled'[d] = handled[d],
           Streaming(TakeNext(rx[c], size), down[c], wire[c], Len(handled'[c]), CutOf(c))
    PROVE  Inv'
<1>1. /\ DOMAIN rx' = Channels /\ rx'[c] = TakeNext(rx[c], size)
      /\ \A d \in Channels : d # c => rx'[d] = rx[d] /\ turn' # d /\ turn # d
      /\ turn' \in {c, None} /\ (turn' = c <=> Ready(rx'[c]))
      /\ UNCHANGED <<scope, gone, cut, down, server, wire>>
  BY TakesWhat
<1>2. Framed'
  BY <1>1 DEF Inv, Framed
<1>3. Turned' /\ Served'
  BY <1>1 DEF Inv, Turned, Served
<1>5. \A d \in Channels : CutOf(d)' = CutOf(d)
  BY <1>1 DEF CutOf
<1>4. ASSUME NEW d \in Channels PROVE Placed(d)'
  <2>1. CASE d = c
    BY <1>1, <1>5, <2>1 DEF Placed
  <2>2. CASE d # c
    BY <1>1, <2>2, PlacedKept DEF Inv
  <2> QED
    BY <2>1, <2>2
<1> QED
  BY <1>2, <1>3, <1>4 DEF Inv

LEMMA HeaderKeeps ==
    ASSUME Inv, Orderly, NEW c \in Channels, HeaderTaken(c), Over'
    PROVE  Inv'
<1> DEFINE size == BodySize(KindOf(c, Taken(rx[c])[1].n))
<1>1. /\ Takes(c, size) /\ rx[c].phase \in {"reply", "header"}
      /\ UNCHANGED <<sock, runQ, proxy, handled>>
  BY DEF HeaderTaken
<1> HIDE DEF size
<1>2. /\ sock[c] = "open" /\ Ready(rx[c]) /\ UNCHANGED <<scope, gone, cut>>
      /\ Streaming(rx[c], down[c], wire[c], Len(handled[c]), CutOf(c))
  BY <1>1, TakesWhat
<1>3. Streaming(TakeNext(rx[c], size), down[c], wire[c], Len(handled[c]), CutOf(c))
  BY <1>1, <1>2, HeaderStreams DEF size, KindOf
<1>4. ToOpen'
  BY <1>1, <1>2, NothingOpens
<1>5. MessagesIntact' /\ handled' \in [Channels -> Seq(Nat)] /\ DOMAIN sock' = Channels
  BY <1>1, <1>2 DEF Inv, MessagesIntact, Framed
<1> QED
  BY <1>1, <1>2, <1>3, <1>4, <1>5, TakenKeeps

LEMMA AnswerKeeps ==
    ASSUME Inv, Orderly, NEW c \in Channels, ReplyTaken(c) \/ ErrorCodeTaken(c), Over'
    PROVE  Inv'
<1>1. /\ Takes(c, 0) /\ rx[c].phase \in {"replyBody", "errorCode"}
      /\ UNCHANGED <<runQ, proxy, handled>>
      /\ (\E packets : SendAll(c, packets)) \/ UNCHANGED sock
  BY DEF ReplyTaken, ErrorCodeTaken
<1>2. /\ sock[c] = "open" /\ Ready(rx[c]) /\ UNCHANGED <<scope, gone, cut>>
      /\ Streaming(rx[c], down[c], wire[c], Len(handled[c]), CutOf(c))
  BY <1>1, TakesWhat
<1>3. sock' = sock /\ DOMAIN sock = Channels
  BY <1>1, <1>2, SendsAll DEF Inv, Framed
<1>4. Streaming(TakeNext(rx[c], 0), down[c], wire[c], Len(handled[c]), CutOf(c))
  BY <1>1, <1>2, AnswerStreams
<1>5. ToOpen'
  BY <1>1, <1>2, <1>3, NothingOpens
<1>6. MessagesIntact' /\ handled' \in [Channels -> Seq(Nat)]
  BY <1>1, <1>2 DEF Inv, MessagesIntact, Framed
<1> QED
  BY <1>1, <1>2, <1>3, <1>4, <1>5, <1>6, TakenKeeps

\* The list of channels comes once: only then are channels opened.
LEMMA MessageKeeps ==
    ASSUME Inv, Orderly, NEW c \in Channels, MessageTaken(c), Over'
    PROVE  /\ Inv'
           /\ \A d \in Channels : \/ sock'[d] = sock[d]
                                  \/ sock[d] = "none" /\ sock'[d] = "connecting"
<1> DEFINE n == Complete(rx[c])
           kind == IF n = 0 THEN "garbled" ELSE KindOf(c, n)
           h == Len(handled[c])
           scripts == scope.scripts[c]
<1>1. /\ Takes(c, 0) /\ rx[c].phase = "body"
      /\ handled' = [handled EXCEPT ![c] = Append(@, n)]
      /\ IF kind = "list" /\ proxy = None
         THEN RunNext(sock, runQ \o scope.listed)
         ELSE /\ \E packets : SendAll(c, packets)
              /\ runQ' = IF kind = "list" THEN runQ \o scope.listed ELSE runQ
              /\ UNCHANGED proxy
  BY DEF MessageTaken
<1>2. /\ turn = c /\ sock[c] = "open" /\ Ready(rx[c]) /\ UNCHANGED <<scope, gone, cut>>
      /\ Streaming(rx[c], down[c], wire[c], h, CutOf(c))
  BY <1>1, TakesWhat
<1>3. /\ n = h + 3 \/ (n = 0 /\ h + 3 \in CutOf(c))
      /\ h + 3 \in 1 .. Len(wire[c])
      /\ Streaming(TakeNext(rx[c], 0), down[c], wire[c], h + 1, CutOf(c))
  BY <1>1, <1>2, MessageStreams
<1> HIDE DEF n, kind
<1>4. handled[c] \in Seq(Nat) /\ h \in Nat /\ handled \in [Channels -> Seq(Nat)]
  BY DEF Inv, Framed
<1>5. /\ kind \in {wire[c][h + 3], "garbled"} /\ wire[c][h + 3] = scripts[h + 1]
      /\ h + 1 \in 1 .. Len(scripts)
  <2>2. h + 3 \in 3 .. Len(wire[c]) /\ (h + 3) - 2 = h + 1
    BY <1>3, <1>4
  <2>3. h + 1 \in 1 .. Len(scripts) /\ wire[c][h + 3] = scripts[h + 1]
    <3>1. \A i \in 3 .. Len(wire[c]) : i - 2 \in 1 .. Len(scripts) /\ wire[c][i] = scripts[i - 2]
      BY DEF Inv, Served, Sending
    <3> HIDE DEF h, scripts
    <3>2. (h + 3) - 2 \in 1 .. Len(scripts) /\ wire[c][h + 3] = scripts[(h + 3) - 2]
      BY <2>2, <3>1
    <3> QED
      BY <2>2, <3>2
  <2>4. kind \in {wire[c][h + 3], "garbled"}
    BY <1>3 DEF kind, KindOf
  <2> QED
    BY <2>3, <2>4
<1>6. /\ handled'[c] = Append(handled[c], n) /\ handled' \in [Channels -> Seq(Nat)]
      /\ \A d \in Channels : d # c => handled'[d] = handled[d]
  <2>0. n \in Nat
    BY <1>3, <1>4
  <2>1. Append(handled[c], n) \in Seq(Nat)
    BY <1>4, <2>0
  <2> QED
    BY <1>1, <1>4, <2>1
<1>7. /\ Len(handled'[c]) = h + 1 /\ handled'[c][h + 1] = n
      /\ \A i \in 1 .. h : handled'[c][i] = handled[c][i]
  BY <1>4, <1>6
<1>8. MessagesIntact'
  <2>1. ASSUME NEW i \in 1 .. h + 1
        PROVE  \/ handled'[c][i] = i + LinkAnswers
               \/ handled'[c][i] = 0 /\ <<c, i + LinkAnswers>> \in cut
    <3>1. CASE i \in 1 .. h
      BY <1>7, <3>1 DEF Inv, MessagesIntact
    <3>2. CASE i = h + 1
      <4>1. i + LinkAnswers = h + 3
        BY <1>4, <3>2 DEF LinkAnswers
      <4>2. handled'[c][i] = n
        BY <1>7, <3>2
      <4> QED
        BY <1>3, <4>1, <4>2 DEF CutOf
    <3> QED
      BY <1>4, <3>1, <3>2
  <2>2. ASSUME NEW d \in Channels, NEW i \in 1 .. Len(handled'[d])
        PROVE  \/ handled'[d][i] = i + LinkAnswers
               \/ handled'[d][i] = 0 /\ <<d, i + LinkAnswers>> \in cut
    <3>1. CASE d = c
      BY <1>7, <2>1, <3>1
    <3>2. CASE d # c
      <4>1. handled'[d] = handled[d]
        BY <1>6, <3>2
      <4> QED
        BY <4>1 DEF Inv, MessagesIntact
    <3> QED
      BY <3>1, <3>2
  <2> QED
    BY <1>2, <2>2 DEF MessagesIntact
<1>9. /\ scope.listed \in Seq(Channels) /\ Distinct(scope.listed) /\ DOMAIN sock = Channels
      /\ ToOpen /\ ~ gone
  BY <1>2, ScopeIs, SessionAssumption DEF Inv, Framed, Over
<1>12. ASSUME kind = "list"
       PROVE  c = "main" /\ runQ = <<>> /\ proxy = None /\ NoneOpened(scope.listed)
  <2>1. c = "main" /\ \A j \in 1 .. Len(scripts) : scripts[j] = "list" => j = h + 1
    BY <1>5, <1>12, ScopeIs DEF Inv, Framed
  <2>2. ~ Listed
    <3>1. SUFFICES ASSUME NEW i \in 1 .. h, scripts[i] = "list" PROVE FALSE
      BY <2>1 DEF Listed
    <3>2. i \in 1 .. Len(scripts) /\ i # h + 1
      BY <1>4, <1>5
    <3> QED
      BY <2>1, <3>1, <3>2
  <2> QED
    BY <1>9, <2>1, <2>2 DEF ToOpen
<1>10. CASE kind = "list" /\ proxy = None
  <2>1. c = "main" /\ scripts[h + 1] = "list"
    BY <1>5, <1>10, <1>12
  <2>3. runQ = <<>> /\ NoneOpened(scope.listed)
    BY <1>10, <1>12
  <2>4. RunNext(sock, scope.listed)
    <3>1. <<>> \o scope.listed = scope.listed
      BY <1>9
    <3> QED
      BY <1>1, <1>10, <2>3, <3>1
  <2>5. /\ DOMAIN sock' = Channels /\ runQ' \in Seq(Channels) /\ Distinct(runQ)' /\ NoneOpened(runQ)'
        /\ \A d \in Channels : \/ sock'[d] = sock[d]
                               \/ sock[d] = "none" /\ sock'[d] = "connecting"
    BY <1>9, <2>3, <2>4, RunsNext DEF NoneOpened
  <2>6. Listed'
    <3>1. h + 1 \in 1 .. Len(handled'["main"]) /\ scope'.scripts["main"][h + 1] = "list"
      BY <1>2, <1>4, <1>5, <1>7, <1>10, <2>1
    <3> QED
      BY <3>1 DEF Listed
  <2>7. ToOpen'
    BY <2>5, <2>6 DEF ToOpen
  <2>8. sock'[c] = "open" /\ \A d \in Channels : sock'[d] # "closed" => sock[d] # "closed"
    BY <1>2, <2>5
  <2>9. Inv'
    BY <1>1, <1>3, <1>6, <1>7, <1>8, <2>5, <2>7, <2>8, TakenKeeps
  <2> QED
    BY <2>5, <2>9
<1>11. CASE ~ (kind = "list" /\ proxy = None)
  <2>1. sock' = sock /\ UNCHANGED <<runQ, proxy>>
    BY <1>1, <1>2, <1>9, <1>11, <1>12, SendsAll
  <2>2. /\ Len(handled'["main"]) \in Nat /\ Len(handled["main"]) \in Nat
        /\ Len(handled'["main"]) >= Len(handled["main"])
    <3>1. "main" \in Channels
      BY SessionAssumption
    <3>2. CASE c = "main"
      BY <1>4, <1>7, <3>2
    <3>3. CASE c # "main"
      BY <1>4, <1>6, <3>1, <3>3
    <3> QED
      BY <3>2, <3>3
  <2>3. ToOpen'
    BY <1>2, <1>9, <2>1, <2>2, ToOpenKept
  <2>4. Inv'
    BY <1>1, <1>2, <1>3, <1>6, <1>7, <1>8, <1>9, <2>1, <2>3, TakenKeeps
  <2> QED
    BY <2>1, <2>4
<1> QED
  BY <1>10, <1>11
-----------------------------------------------------------------------------
(* The server sends a message, or only changes its own state.              *)

LEMMA ServerSentKeeps ==
    ASSUME Inv, Orderly, NEW c \in Channels, sock[c] = "open", UNCHANGED <<scope, client>>,
           NEW t, NEW kind \in Kinds, server' = [server EXCEPT ![c] = t], Sent(c, <<kind>>),
           Told(Append(wire[c], kind)), Sending(t, Append(wire[c], kind), scope.scripts[c]), Over'
    PROVE  Inv'
<1> DEFINE W == wire[c]
           V == Append(W, kind)
           u == UnitsSent(Len(W) + 1, kind)
<1>1. W \in Seq(Kinds) /\ W \o <<kind>> = V
  BY OneMore DEF Inv, Served, Sending
<1>2. wire' = [wire EXCEPT ![c] = V] /\ down' = [down EXCEPT ![c] = @ \o u]
  <2>1. <<kind>> # <<>> /\ <<kind>>[1] = kind
    OBVIOUS
  <2> QED
    BY <1>1, <2>1 DEF Sent
<1>3. UNCHANGED <<sock, rx, runQ, proxy, gone, turn, handled, cut, scope>>
  BY DEF client
<1>12. \A d \in Channels : CutOf(d)' = CutOf(d)
  BY <1>3 DEF CutOf
<1> HIDE DEF V, u
<1>4. /\ DOMAIN wire' = Channels /\ DOMAIN down' = Channels /\ DOMAIN server' = Channels
      /\ wire'[c] = V /\ down'[c] = down[c] \o u /\ server'[c] = t
      /\ \A d \in Channels : d # c => wire'[d] = wire[d] /\ down'[d] = down[d] /\ server'[d] = server[d]
  BY <1>2 DEF Inv, Framed
<1>5. Streaming(rx[c], down[c], W, Len(handled[c]), CutOf(c)) /\ (turn = c <=> Ready(rx[c]))
  BY DEF Inv, Placed
<1>6. Streaming(rx[c], down[c] \o u, V, Len(handled[c]), CutOf(c))
  BY <1>5, SentStreams DEF u, V
<1>7. Framed'
  BY <1>3, <1>4 DEF Inv, Framed
<1>8. Turned' /\ MessagesIntact'
  BY <1>3 DEF Inv, Turned, MessagesIntact
<1>9. Served'
  BY <1>3, <1>4 DEF Inv, Served, V
<1>10. ASSUME NEW d \in Channels PROVE Placed(d)'
  <2>1. CASE d = c
    BY <1>3, <1>4, <1>5, <1>6, <1>12, <2>1 DEF Placed
  <2>2. CASE d # c
    BY <1>3, <1>4, <2>2, PlacedKept DEF Inv
  <2> QED
    BY <2>1, <2>2
<1>11. ToOpen'
  BY <1>3, NothingOpens
<1> QED
  BY <1>7, <1>8, <1>9, <1>10, <1>11 DEF Inv

LEMMA ServerQuietKeeps ==
    ASSUME Inv, Orderly, NEW c \in Channels, UNCHANGED <<scope, client>>,
           NEW t, server' = [server EXCEPT ![c] = t], Sent(c, <<>>), {"state", "script"} \subseteq DOMAIN t,
           t.state = server[c].state, t.script = server[c].script, Over'
    PROVE  Inv'
<1>1. wire[c] \in Seq(Kinds) /\ wire[c] \o <<>> = wire[c]
  <2>1. wire[c] \in Seq(Kinds)
    BY DEF Inv, Served, Sending
  <2>2. ASSUME NEW W \in Seq(Kinds) PROVE W \o <<>> = W
    OBVIOUS
  <2> QED
    BY <2>1, <2>2
<1>2. /\ DOMAIN wire' = Channels /\ DOMAIN down' = Channels
      /\ \A d \in Channels : wire'[d] = wire[d] /\ down'[d] = down[d]
  BY <1>1 DEF Sent, Inv, Framed
<1>3. UNCHANGED <<sock, rx, runQ, proxy, gone, turn, handled, cut, scope>>
  BY DEF client
<1>4. /\ DOMAIN server' = Channels /\ server'[c] = t
      /\ \A d \in Channels : d # c => server'[d] = server[d]
  BY DEF Inv, Framed
<1>5. Framed'
  BY <1>2, <1>3, <1>4 DEF Inv, Framed
<1>6. Turned' /\ MessagesIntact'
  BY <1>3 DEF Inv, Turned, MessagesIntact
<1>7. Served'
  <2>1. ASSUME NEW d \in Channels PROVE Sending(server'[d], wire'[d], scope'.scripts[d])
    <3>1. Sending(server[d], wire[d], scope.scripts[d])
      BY DEF Inv, Served
    <3>2. /\ {"state", "script"} \subseteq DOMAIN server'[d]
          /\ server'[d].state = server[d].state /\ server'[d].script = server[d].script
      BY <1>4, <3>1 DEF Sending
    <3> QED
      BY <1>2, <1>3, <3>1, <3>2 DEF Sending
  <2> QED
    BY <2>1 DEF Served
<1>8. ASSUME NEW d \in Channels PROVE Placed(d)'
  BY <1>2, <1>3, PlacedKept DEF Inv
<1>9. ToOpen'
  BY <1>3, NothingOpens
<1> QED
  BY <1>5, <1>6, <1>7, <1>8, <1>9 DEF Inv

LEMMA ServerReadsKeeps ==
    ASSUME Inv, Orderly, NEW c \in Channels, ServerReads(c), Over'
    PROVE  Inv'
<1> DEFINE s == server[c]
           W == wire[c]
           scripts == scope.scripts[c]
           Answers(t, kinds) == server' = [server EXCEPT ![c] = t] /\ Sent(c, kinds)
<1>1. sock[c] = "open" /\ UNCHANGED <<scope, client>>
  BY DEF ServerReads
<1>2. Sending(s, W, scripts) /\ Told(W) /\ scripts \in Seq(Messages) /\ {"state", "script"} \subseteq DOMAIN s
  BY <1>1, ScopeIs DEF Inv, Served, Placed, Streaming, Sending, Framed
<1>3. \/ s.state = "link" /\ Answers([s EXCEPT !.state = "ticket"], <<"reply">>)
      \/ s.state = "ticket" /\ Answers([s EXCEPT !.state = "up"], <<"ok">>)
      \/ s.state = "ticket" /\ Answers([s EXCEPT !.state = "closed"], <<"denied">>)
      \/ \E t : /\ Answers(t, <<>>) /\ {"state", "script"} \subseteq DOMAIN t
                /\ t.state = s.state /\ t.script = s.script
  <2>1. ASSUME NEW x
        PROVE  /\ {"state", "script"} \subseteq DOMAIN [s EXCEPT !.attached = x]
               /\ [s EXCEPT !.attached = x].state = s.state /\ [s EXCEPT !.attached = x].script = s.script
    BY <1>2
  <2>2. ASSUME NEW x
        PROVE  /\ {"state", "script"} \subseteq DOMAIN [s EXCEPT !.tokens = x]
               /\ [s EXCEPT !.tokens = x].state = s.state /\ [s EXCEPT !.tokens = x].script = s.script
    BY <1>2
  <2>3. ASSUME NEW x
        PROVE  /\ {"state", "script"} \subseteq DOMAIN [s EXCEPT !.unacked = x]
               /\ [s EXCEPT !.unacked = x].state = s.state /\ [s EXCEPT !.unacked = x].script = s.script
    BY <1>2
  <2>4. ASSUME NEW x, NEW y
        PROVE  /\ {"state", "script"} \subseteq DOMAIN [s EXCEPT !.tokens = x, !.started = y]
               /\ [s EXCEPT !.tokens = x, !.started = y].state = s.state
               /\ [s EXCEPT !.tokens = x, !.started = y].script = s.script
    BY <1>2
  <2> DEFINE p == Head(up[c])
  <2>5. \/ s.state = "link" /\ Answers([s EXCEPT !.state = "ticket"], <<"reply">>)
        \/ s.state = "ticket" /\ Answers([s EXCEPT !.state = "up"], <<"ok">>)
        \/ s.state = "ticket" /\ Answers([s EXCEPT !.state = "closed"], <<"denied">>)
        \/ Answers([s EXCEPT !.attached = TRUE], <<>>)
        \/ Answers([s EXCEPT !.tokens = p.n, !.started = TRUE], <<>>)
        \/ Answers([s EXCEPT !.tokens = s.tokens + p.n], <<>>)
        \/ Answers([s EXCEPT !.unacked = s.unacked - s.window], <<>>)
        \/ Answers(s, <<>>)
    <3> DEFINE becomes(t) == server' = [server EXCEPT ![c] = t]
               answered(t, kinds) == becomes(t) /\ Sent(c, kinds) /\ UNCHANGED faults
    <3>1. \/ s.state = "link" /\ answered([s EXCEPT !.state = "ticket"], <<"reply">>)
          \/ s.state = "ticket" /\ p.kind = "ticket" /\ answered([s EXCEPT !.state = "up"], <<"ok">>)
          \/ s.state = "ticket" /\ p.kind = "ticket" /\ faults < scope.faults
               /\ becomes([s EXCEPT !.state = "closed"])
               /\ Sent(c, <<"denied">>)
               /\ faults' = faults + 1
          \/ s.state = "ticket" /\ p.kind # "ticket"
               /\ answered([s EXCEPT !.state = "closed"], <<"denied">>)
          \/ s.state = "up" /\ p.kind = "attachChannels" /\ answered([s EXCEPT !.attached = TRUE], <<>>)
          \/ s.state = "up" /\ p.kind = "agentStart"
               /\ answered([s EXCEPT !.tokens = p.n, !.started = TRUE], <<>>)
          \/ s.state = "up" /\ p.kind = "tokens" /\ answered([s EXCEPT !.tokens = @ + p.n], <<>>)
          \/ s.state = "up" /\ p.kind = "ack"
               /\ answered([s EXCEPT !.unacked = @ - s.window], <<>>)
          \/ s.state = "up"
               /\ p.kind \notin {"attachChannels", "agentStart", "tokens", "ack"}
               /\ answered(s, <<>>)
          \/ s.state = "closed" /\ answered(s, <<>>)
      BY DEF ServerReads
    <3>2. \A x, kinds : answered(x, kinds) => Answers(x, kinds)
      OBVIOUS
    <3>3. \A x, kinds : becomes(x) /\ Sent(c, kinds) => Answers(x, kinds)
      OBVIOUS
    <3> HIDE DEF becomes, answered, Answers, s, p
    <3> QED
      BY <3>1, <3>2, <3>3
  <2>6. CASE \/ Answers([s EXCEPT !.attached = TRUE], <<>>)
             \/ Answers([s EXCEPT !.tokens = p.n, !.started = TRUE], <<>>)
             \/ Answers([s EXCEPT !.tokens = s.tokens + p.n], <<>>)
             \/ Answers([s EXCEPT !.unacked = s.unacked - s.window], <<>>)
             \/ Answers(s, <<>>)
    <3> SUFFICES \E t : /\ Answers(t, <<>>) /\ {"state", "script"} \subseteq DOMAIN t
                        /\ t.state = s.state /\ t.script = s.script
      OBVIOUS
    <3> HIDE DEF Answers, s, p
    <3>1. CASE Answers([s EXCEPT !.attached = TRUE], <<>>)
      <4>1. /\ {"state", "script"} \subseteq DOMAIN [s EXCEPT !.attached = TRUE]
            /\ [s EXCEPT !.attached = TRUE].state = s.state
            /\ [s EXCEPT !.attached = TRUE].script = s.script
        BY <2>1
      <4> QED
        BY <3>1, <4>1
    <3>2. CASE Answers([s EXCEPT !.tokens = p.n, !.started = TRUE], <<>>)
      <4>1. /\ {"state", "script"} \subseteq DOMAIN [s EXCEPT !.tokens = p.n, !.started = TRUE]
            /\ [s EXCEPT !.tokens = p.n, !.started = TRUE].state = s.state
            /\ [s EXCEPT !.tokens = p.n, !.started = TRUE].script = s.script
        BY <2>4
      <4> QED
        BY <3>2, <4>1
    <3>3. CASE Answers([s EXCEPT !.tokens = s.tokens + p.n], <<>>)
      <4>1. /\ {"state", "script"} \subseteq DOMAIN [s EXCEPT !.tokens = s.tokens + p.n]
            /\ [s EXCEPT !.tokens = s.tokens + p.n].state = s.state
            /\ [s EXCEPT !.tokens = s.tokens + p.n].script = s.script
        BY <2>2
      <4> QED
        BY <3>3, <4>1
    <3>4. CASE Answers([s EXCEPT !.unacked = s.unacked - s.window], <<>>)
      <4>1. /\ {"state", "script"} \subseteq DOMAIN [s EXCEPT !.unacked = s.unacked - s.window]
            /\ [s EXCEPT !.unacked = s.unacked - s.window].state = s.state
            /\ [s EXCEPT !.unacked = s.unacked - s.window].script = s.script
        BY <2>3
      <4> QED
        BY <3>4, <4>1
    <3>5. CASE Answers(s, <<>>)
      BY <1>2, <3>5
    <3> QED
      BY <2>6, <3>1, <3>2, <3>3, <3>4, <3>5
  <2> HIDE DEF Answers, s, p
  <2> QED
    BY <2>5, <2>6
<1>4. ASSUME NEW t, NEW kind, server' = [server EXCEPT ![c] = t], Sent(c, <<kind>>),
             {"state", "script"} \subseteq DOMAIN t, t.script = s.script,
             \/ s.state = "link" /\ kind = "reply" /\ t.state = "ticket"
             \/ s.state = "ticket" /\ kind = "ok" /\ t.state = "up"
             \/ s.state = "ticket" /\ kind = "denied" /\ t.state = "closed"
      PROVE  Inv'
  <2>1. Told(Append(W, kind)) /\ Sending(t, Append(W, kind), scripts) /\ kind \in Kinds
    BY <1>2, <1>4, AnswerSent
  <2> QED
    BY <1>1, <1>4, <2>1, ServerSentKeeps
<1>5. ASSUME NEW x
      PROVE  /\ {"state", "script"} \subseteq DOMAIN [s EXCEPT !.state = x]
             /\ [s EXCEPT !.state = x].state = x /\ [s EXCEPT !.state = x].script = s.script
  BY <1>2
<1>6. CASE s.state = "link" /\ Answers([s EXCEPT !.state = "ticket"], <<"reply">>)
  BY <1>4, <1>5, <1>6
<1>7. CASE s.state = "ticket" /\ Answers([s EXCEPT !.state = "up"], <<"ok">>)
  BY <1>4, <1>5, <1>7
<1>8. CASE s.state = "ticket" /\ Answers([s EXCEPT !.state = "closed"], <<"denied">>)
  BY <1>4, <1>5, <1>8
<1>9. CASE \E t : /\ Answers(t, <<>>) /\ {"state", "script"} \subseteq DOMAIN t
                  /\ t.state = s.state /\ t.script = s.script
  BY <1>1, <1>9, ServerQuietKeeps
<1> QED
  BY <1>3, <1>6, <1>7, <1>8, <1>9

\* What the server keeps of a channel when it sends.
LEMMA ServerSendsWhat ==
    ASSUME Inv, NEW c \in Channels, ServerSends(c)
    PROVE  /\ sock[c] = "open" /\ server[c].state = "up" /\ server[c].script # <<>>
           /\ Sent(c, <<Head(server[c].script)>>) /\ UNCHANGED <<scope, client, up, faults>>
           /\ \E t : /\ server' = [server EXCEPT ![c] = t]
                    /\ {"state", "script"} \subseteq DOMAIN t
                    /\ t.state = "up" /\ t.script = Tail(server[c].script)
<1> DEFINE s == server[c]
           kind == Head(s.script)
           counted == [s EXCEPT !.script = Tail(s.script),
                                !.unacked = IF s.window = 0 THEN s.unacked ELSE s.unacked + 1]
           t == CASE kind = "setAck" -> [counted EXCEPT !.window = Window, !.unacked = 0]
                  [] kind = "agent" -> [counted EXCEPT !.tokens = counted.tokens - 1]
                  [] kind = "agentUp" -> [counted EXCEPT !.started = FALSE]
                  [] OTHER -> counted
<1>1. /\ sock[c] = "open" /\ s.state = "up" /\ s.script # <<>>
      /\ UNCHANGED <<scope, client, up, faults>>
      /\ server' = [server EXCEPT ![c] = t] /\ Sent(c, <<kind>>)
  BY DEF ServerSends
<1>2. {"state", "script"} \subseteq DOMAIN s
  BY DEF Inv, Served, Sending
<1> HIDE DEF s, kind
<1>3. /\ {"state", "script"} \subseteq DOMAIN counted
      /\ counted.state = s.state /\ counted.script = Tail(s.script)
  BY <1>2
<1> HIDE DEF counted
<1>4. {"state", "script"} \subseteq DOMAIN t /\ t.state = "up" /\ t.script = Tail(s.script)
  <2>1. CASE kind = "setAck"
    <3>1. t = [counted EXCEPT !.window = Window, !.unacked = 0]
      BY <2>1
    <3> HIDE DEF t
    <3> QED
      BY <1>1, <1>3, <3>1
  <2>2. CASE kind = "agent"
    <3>1. t = [counted EXCEPT !.tokens = counted.tokens - 1]
      BY <2>2
    <3> HIDE DEF t
    <3> QED
      BY <1>1, <1>3, <3>1
  <2>3. CASE kind = "agentUp"
    <3>1. t = [counted EXCEPT !.started = FALSE]
      BY <2>3
    <3> HIDE DEF t
    <3> QED
      BY <1>1, <1>3, <3>1
  <2>4. CASE kind \notin {"setAck", "agent", "agentUp"}
    <3>1. t = counted
      BY <2>4
    <3> HIDE DEF t
    <3> QED
      BY <1>1, <1>3, <3>1
  <2> QED
    BY <2>1, <2>2, <2>3, <2>4
<1> HIDE DEF t
<1> QED
  BY <1>1, <1>4 DEF s, kind

LEMMA ServerSendsKeeps ==
    ASSUME Inv, Orderly, NEW c \in Channels, ServerSends(c), Over'
    PROVE  Inv'
<1> DEFINE s == server[c]
           W == wire[c]
           scripts == scope.scripts[c]
           kind == Head(s.script)
<1>1. /\ sock[c] = "open" /\ s.state = "up" /\ s.script # <<>> /\ UNCHANGED <<scope, client>>
      /\ Sent(c, <<kind>>)
  BY ServerSendsWhat
<1>2. Sending(s, W, scripts) /\ Told(W) /\ scripts \in Seq(Messages)
  BY <1>1, ScopeIs DEF Inv, Served, Placed, Streaming, Sending, Framed
<1>3. PICK t : /\ server' = [server EXCEPT ![c] = t]
               /\ {"state", "script"} \subseteq DOMAIN t
               /\ t.state = "up" /\ t.script = Tail(s.script)
  BY ServerSendsWhat
<1> HIDE DEF s, kind
<1>4. Told(Append(W, kind)) /\ Sending(t, Append(W, kind), scripts) /\ kind \in Kinds
  BY <1>1, <1>2, <1>3, MessageSent DEF kind
<1> QED
  BY <1>1, <1>3, <1>4, ServerSentKeeps
-----------------------------------------------------------------------------
LEMMA InvInit ==
    ASSUME Orderly, Init
    PROVE  Inv
<1>1. /\ scope \in Scopes /\ runQ = <<>> /\ proxy = None /\ gone = FALSE /\ turn = None
      /\ sock = [c \in Channels |-> IF c = "main" THEN "connecting" ELSE "none"]
      /\ rx = [c \in Channels |-> NewReceiver] /\ down = [c \in Channels |-> <<>>]
      /\ wire = [c \in Channels |-> <<>>] /\ handled = [c \in Channels |-> <<>>]
  BY DEF Init
<1>2. \A c \in Channels : /\ server[c].state = "link" /\ server[c].script = scope.scripts[c]
                          /\ {"state", "script"} \subseteq DOMAIN server[c]
  BY DEF Init
<1>3. DOMAIN server = Channels
  BY DEF Init
<1>4. <<>> \in Seq(Nat) /\ <<>> \in Seq(Units) /\ <<>> \in Seq(Kinds) /\ <<>> \in Seq(Channels)
  OBVIOUS
<1>5. Framed
  BY <1>1, <1>3, <1>4 DEF Framed
<1>6. Over /\ Turned
  BY <1>1 DEF Over, Turned
<1>7. ToOpen
  <2>1. NoneOpened(scope.listed)
    <3>1. scope.listed \in Seq(Channels) /\ \A i \in 1 .. Len(scope.listed) : scope.listed[i] # "main"
      BY <1>1, ScopeIs
    <3>2. \A i \in 1 .. Len(scope.listed) : scope.listed[i] \in Channels
      BY <3>1
    <3> QED
      BY <1>1, <3>1, <3>2 DEF NoneOpened
  <2>2. Len(runQ) = 0 /\ \A i \in 1 .. 0 : FALSE
    BY <1>1
  <2>3. NoneOpened(runQ) /\ Distinct(runQ)
    BY <2>2 DEF NoneOpened, Distinct
  <2> QED
    BY <1>1, <1>4, <2>1, <2>3 DEF ToOpen
<1>8. Len(<<>>) = 0 /\ \A i \in 1 .. 0 : FALSE
  OBVIOUS
<1>9. Served
  <2>1. ASSUME NEW c \in Channels PROVE Sending(server[c], wire[c], scope.scripts[c])
    <3>1. wire[c] = <<>> /\ \A i \in 3 .. 0 : FALSE
      BY <1>1
    <3> QED
      BY <1>2, <1>4, <1>8, <3>1 DEF Sending
  <2> QED
    BY <2>1 DEF Served
<1>10. MessagesIntact
  BY <1>1, <1>8 DEF MessagesIntact
<1>11. \A C : Streaming(NewReceiver, <<>>, <<>>, 0, C) /\ ~ Ready(NewReceiver)
  <2> DEFINE S == <<>> \o <<>>
  <2>1. S = <<>>
    OBVIOUS
  <2>2. /\ NewReceiver \in Shapes /\ NewReceiver.unread = <<>> /\ NewReceiver.need = 2
        /\ NewReceiver.phase = "reply"
    BY <1>4 DEF NewReceiver, Shapes, Phases, HeaderSize
  <2>3. Told(<<>>) /\ Flows(<<>>, <<>>)
    BY <1>8 DEF Told, Flows
  <2>4. NextAt(<<>>, <<>>, 1) = At(1, 1)
    BY <1>8 DEF NextAt, At
  <2>5. \A C : Place(NewReceiver, At(1, 1), <<>>, 0, C)
    BY <2>2 DEF Place
  <2>6. ~ Ready(NewReceiver)
    BY <1>8, <2>2 DEF Ready
  <2> QED
    BY <1>4, <2>1, <2>2, <2>3, <2>4, <2>5, <2>6 DEF Streaming
<1>12. ASSUME NEW c \in Channels PROVE Placed(c)
  <2>1. rx[c] = NewReceiver /\ down[c] = <<>> /\ wire[c] = <<>> /\ Len(handled[c]) = 0 /\ turn # c
    BY <1>1, <1>8, SessionAssumption
  <2> QED
    BY <1>11, <2>1 DEF Placed
<1> QED
  BY <1>5, <1>6, <1>7, <1>9, <1>10, <1>12 DEF Inv

LEMMA InvKept ==
    ASSUME Orderly, Inv, [Next]_vars
    PROVE  Inv'
<1>1. Over'
  BY OverKept DEF Inv
<1>2. CASE UNCHANGED vars
  <2>1. /\ UNCHANGED <<scope, sock, rx, runQ, proxy, gone, turn, handled, cut, down, server, wire>>
    BY <1>2 DEF vars, client
  <2>2. ToOpen'
    BY <2>1, NothingOpens
  <2>3. \A c \in Channels : Placed(c)'
    BY <2>1, PlacedKept DEF Inv
  <2> QED
    BY <1>1, <2>1, <2>2, <2>3 DEF Inv, Framed, Turned, Served, MessagesIntact
<1>3. ASSUME NEW c \in Channels, SocketCloses(c) \/ SocketFails(c) PROVE Inv'
  <2>1. SocketLost(c) /\ sock[c] \in {"connecting", "open"}
    BY <1>3 DEF SocketCloses, SocketFails
  <2> QED
    BY <1>1, <2>1, LostKeeps
<1>4. ASSUME NEW c \in Channels, Handles(c) PROVE Inv'
  BY <1>1, <1>4, HeaderKeeps, AnswerKeeps, MessageKeeps DEF Handles
<1>5. ASSUME Types \/ Resizes PROVE Inv'
  <2>1. "inputs" \in Channels /\ "main" \in Channels
    BY SessionAssumption
  <2> QED
    BY <1>1, <1>5, <2>1, UserKeeps DEF Types, Resizes
<1> QED
  BY <1>1, <1>2, <1>3, <1>4, <1>5, OpensKeeps, ReceivesKeeps, ServerReadsKeeps, ServerSendsKeeps,
     DisconnectKeeps DEF Next, Protocol

\* A message that is not garbled is the next one.
LEMMA NotGarbled ==
    ASSUME Inv, NEW c \in Channels, MessageTaken(c), ~ Garbled'
    PROVE  Complete(rx[c]) # 0
<1> DEFINE n == Complete(rx[c])
           h == Len(handled[c])
<1>1. handled' = [handled EXCEPT ![c] = Append(@, n)]
  BY DEF MessageTaken
<1>2. handled \in [Channels -> Seq(Nat)]
  BY DEF Inv, Framed
<1> HIDE DEF n
<1>3. h + 1 \in 1 .. Len(handled'[c]) /\ handled'[c][h + 1] = n
  BY <1>1, <1>2
<1>4. n # 0
  BY <1>3 DEF Garbled
<1> QED
  BY <1>4 DEF n

\* What has been garbled remains so.
LEMMA GarbledStays ==
    ASSUME Inv, Garbled, [Next]_vars
    PROVE  Garbled'
<1>1. handled \in [Channels -> Seq(Nat)]
  BY DEF Inv, Framed
<1>2. ASSUME handled' = handled PROVE Garbled'
  BY <1>2 DEF Garbled
<1>3. ASSUME NEW c \in Channels, MessageTaken(c) PROVE Garbled'
  <2>1. handled' = [handled EXCEPT ![c] = Append(@, Complete(rx[c]))]
    BY <1>3 DEF MessageTaken
  <2>2. PICK d \in Channels : \E i \in 1 .. Len(handled[d]) : handled[d][i] = 0
    BY DEF Garbled
  <2>4. PICK i \in 1 .. Len(handled[d]) : handled[d][i] = 0
    BY <2>2
  <2>3. i \in 1 .. Len(handled'[d]) /\ handled'[d][i] = 0
    BY <1>1, <2>1, <2>4
  <2> QED
    BY <2>3 DEF Garbled
<1>4. ASSUME NEW c \in Channels, Handles(c) PROVE Garbled'
  BY <1>2, <1>3, <1>4 DEF Handles, HeaderTaken, ReplyTaken, ErrorCodeTaken
<1>5. ASSUME NEW c \in Channels, SocketOpens(c) \/ SocketCloses(c) \/ SocketFails(c) PROVE handled' = handled
  BY <1>5 DEF SocketOpens, SocketCloses, SocketFails, SocketLost
<1>6. ASSUME NEW c \in Channels, NEW k \in 1 .. Len(down[c]), Receives(c, k) PROVE handled' = handled
  BY <1>6 DEF Receives
<1>7. ASSUME NEW c \in Channels, ServerReads(c) \/ ServerSends(c) PROVE handled' = handled
  BY <1>7 DEF ServerReads, ServerSends, client
<1>8. ASSUME Types \/ Resizes \/ Disconnect \/ UNCHANGED vars PROVE handled' = handled
  BY <1>8 DEF Types, Resizes, UserSends, Disconnect, vars, client
<1> QED
  BY <1>2, <1>4, <1>5, <1>6, <1>7, <1>8 DEF Next, Protocol

\* However the network cuts what the server sends (PacketExtractor.js,
\* PacketReassembler.js, FixedQueue.js), the messages of every channel are
\* handled in order, none twice and none left out, each header with its own
\* body; only a message whose header was the end of a chunk may be garbled.
\* For any channels and any scripts, of any length, as long as no channel is
\* opened twice.
THEOREM MessagesStayIntact ==
    ASSUME Orderly
    PROVE  Spec => []MessagesIntact
<1>1. Init => Inv
  BY InvInit
<1>2. Inv /\ [Next]_vars => Inv'
  BY InvKept
<1>3. Inv => MessagesIntact
  BY DEF Inv
<1> QED
  BY <1>1, <1>2, <1>3, PTL DEF Spec
-----------------------------------------------------------------------------
(* No handler breaks a channel: what comes where the ticket is awaited is   *)
(* the ticket, unless the user sends on a channel that is not linked.       *)

Linking(c) ==
    /\ server[c].state \in {"link", "ticket", "up", "closed"}
    /\ sock[c] \in {"none", "connecting"} => server[c].state = "link" /\ c \notin linked
    /\ sock[c] = "open" /\ ~ early =>
          /\ server[c].state = "link" => up[c] = <<Packet("link")>>
          /\ server[c].state = "ticket" =>
                up[c] = IF rx[c].phase = "errorCode" THEN <<Packet("ticket")>> ELSE <<>>
          /\ server[c].state = "closed" => faults > 0
          /\ c \in linked => rx[c].phase \in {"header", "body"}

\* An error that was told has a cause.
ErrorsHaveCauses == told => faults > 0 \/ early

\* As long as nothing went wrong the linked channels are open.
LinkedOpen == ~ gone /\ ~ told => \A c \in Channels : c \in linked => sock[c] = "open"

Linkings ==
    /\ DOMAIN up = Channels /\ faults \in Nat
    /\ \A c \in Channels : Linking(c)
    /\ LinkedOpen
    /\ ErrorsHaveCauses

\* Nothing is parsed that was not sent.
LEMMA PhaseIs ==
    ASSUME NEW r, NEW D, NEW W, NEW h, NEW C, Streaming(r, D, W, h, C)
    PROVE  /\ Len(W) = 0 => r.phase = "reply"
           /\ Len(W) = 1 => r.phase \in {"reply", "replyBody", "errorCode"}
           /\ r.phase = "errorCode" /\ Ready(r) => Len(W) > 1
<1> DEFINE S == r.unread \o D
           x == NextAt(S, W, 1)
<1>1. /\ r \in Shapes /\ D \in Seq(Units) /\ W \in Seq(Kinds) /\ h \in Nat
      /\ Flows(S, W) /\ Place(r, x, W, h, C) /\ Len(W) \in Nat
  BY DEF Streaming
<1>2. \/ x.n \in 1 .. Len(W)
      \/ x = At(Len(W) + 1, 1)
  <2>1. CASE 1 \in 1 .. Len(S)
    BY <1>1, <2>1 DEF NextAt, Flows
  <2>2. CASE 1 \notin 1 .. Len(S)
    BY <2>2 DEF NextAt, At
  <2> QED
    BY <2>1, <2>2
<1>3. r.phase = "errorCode" /\ Ready(r) => Len(W) > 1
  <2>1. SUFFICES ASSUME r.phase = "errorCode", Ready(r) PROVE Len(W) > 1
    OBVIOUS
  <2>2. r.need = 1 /\ x = At(2, 1)
    <3> HIDE DEF x
    <3> QED
      BY <1>1, <2>1 DEF Place
  <2>3. 1 \in 1 .. r.need /\ S[1] = x /\ S[1].n \in 1 .. Len(W)
    <3>1. 1 \in 1 .. r.need
      BY <2>2
    <3>2. S[1] = x /\ 1 \in 1 .. Len(S)
      BY <1>1, <2>1, <3>1, UnitsThere
    <3>3. S[1].n \in 1 .. Len(W)
      BY <1>1, <3>2 DEF Flows
    <3> QED
      BY <3>1, <3>2, <3>3
  <2>4. 2 \in 1 .. Len(W)
    BY <2>2, <2>3 DEF At
  <2> QED
    BY <1>1, <2>4
<1> HIDE DEF x
<1>4. r.phase \in Phases
  BY <1>1 DEF Shapes
<1>5. Len(W) \in 0 .. 1 => r.phase \notin {"header", "body"}
  <2>1. SUFFICES ASSUME Len(W) \in 0 .. 1 PROVE r.phase \notin {"header", "body"}
    OBVIOUS
  <2>0. \A a \in Nat : \A b \in 0 .. 1 : a + 3 \notin 1 .. b /\ a + 3 # b + 1
    OBVIOUS
  <2>2. r.phase # "body"
    <3>1. h + 3 \notin 1 .. Len(W)
      BY <1>1, <2>0, <2>1
    <3> QED
      BY <1>1, <3>1 DEF Place
  <2>3. r.phase # "header"
    <3>1. h + 3 \notin 1 .. Len(W) /\ h + 3 # Len(W) + 1
      BY <1>1, <2>0, <2>1
    <3>2. x # At(h + 3, 1)
      BY <1>2, <3>1 DEF At
    <3> QED
      BY <1>1, <3>2 DEF Place
  <2> QED
    BY <2>2, <2>3
<1>6. Len(W) = 0 => r.phase \notin {"replyBody", "errorCode"}
  <2>1. SUFFICES ASSUME Len(W) = 0 PROVE r.phase \notin {"replyBody", "errorCode"}
    OBVIOUS
  <2>2. x = At(1, 1)
    BY <1>2, <2>1
  <2>3. At(1, 1) # At(1, 3) /\ At(1, 1) # At(2, 1)
    BY DEF At
  <2> QED
    BY <1>1, <2>2, <2>3 DEF Place
<1> QED
  BY <1>3, <1>4, <1>5, <1>6 DEF Phases

LEMMA NextPhase ==
    ASSUME NEW r \in Shapes, NEW size
    PROVE  LET e == TakeNext(r, size)
           IN  /\ r.phase = "reply" => e.phase = "replyBody"
               /\ r.phase = "replyBody" => e.phase = "errorCode"
               /\ r.phase = "header" => e.phase = "body"
               /\ r.phase \in {"errorCode", "body"} => e.phase = "header"
<1> DEFINE t == Shift(r)
<1>1. "phase" \in DOMAIN t
  BY DEF Shift, Shapes
<1> HIDE DEF t
<1>2. CASE r.phase = "reply"
  BY <1>1, <1>2 DEF TakeNext, t
<1>3. CASE r.phase = "replyBody"
  BY <1>1, <1>3 DEF TakeNext, t
<1>4. CASE r.phase = "header"
  BY <1>1, <1>4 DEF TakeNext, t
<1>5. CASE r.phase \in {"errorCode", "body"}
  BY <1>1, <1>5 DEF TakeNext, t
<1> QED
  BY <1>2, <1>3, <1>4, <1>5

\* A channel that is not touched.
LEMMA LinkingKept ==
    ASSUME NEW c \in Channels, Linking(c), server'[c].state = server[c].state, up'[c] = up[c],
           rx'[c].phase = rx[c].phase, c \in linked' <=> c \in linked, early => early',
           faults \in Nat, faults' \in Nat, faults' >= faults,
           \/ sock'[c] = sock[c] \/ sock'[c] = "closed"
           \/ sock[c] = "none" /\ sock'[c] = "connecting"
    PROVE  Linking(c)'
<1>1. faults > 0 => faults' > 0
  OBVIOUS
<1>2. CASE sock'[c] = sock[c]
  BY <1>1, <1>2 DEF Linking
<1>3. CASE sock'[c] = "closed"
  BY <1>3 DEF Linking
<1>4. CASE sock[c] = "none" /\ sock'[c] = "connecting"
  BY <1>4 DEF Linking
<1> QED
  BY <1>2, <1>3, <1>4

LEMMA LinksOpening ==
    ASSUME Inv, Orderly, Linkings, NEW c \in Channels, SocketOpens(c), Over'
    PROVE  Linkings'
<1>1. /\ sock[c] = "connecting" /\ up' = [up EXCEPT ![c] = <<Packet("link")>>]
      /\ UNCHANGED <<rx, linked, told, gone, early, server, faults>>
  BY DEF SocketOpens
<1>2. /\ sock'[c] = "open"
      /\ \A d \in Channels : d # c =>
            sock'[d] = sock[d] \/ (sock[d] = "none" /\ sock'[d] = "connecting")
  BY OpensKeeps
<1>3. /\ DOMAIN up' = Channels /\ up'[c] = <<Packet("link")>>
      /\ \A d \in Channels : d # c => up'[d] = up[d]
  BY <1>1 DEF Linkings
<1>4. server[c].state = "link" /\ c \notin linked
  BY <1>1 DEF Linkings, Linking
<1>5. ASSUME NEW d \in Channels PROVE Linking(d)'
  <2>1. CASE d = c
    BY <1>1, <1>2, <1>3, <1>4, <2>1 DEF Linking
  <2>2. CASE d # c
    <3>1. Linking(d) /\ faults \in Nat /\ faults' \in Nat /\ faults' >= faults
      BY <1>1 DEF Linkings
    <3> QED
      BY <1>1, <1>2, <1>3, <2>2, <3>1, LinkingKept
  <2> QED
    BY <2>1, <2>2
<1>6. LinkedOpen'
  BY <1>1, <1>2, <1>4 DEF Linkings, LinkedOpen
<1> QED
  BY <1>1, <1>3, <1>5, <1>6 DEF Linkings, ErrorsHaveCauses

LEMMA LinksLosing ==
    ASSUME Inv, Linkings, NEW c \in Channels, SocketFails(c) \/ SocketCloses(c)
    PROVE  Linkings'
<1>1. /\ sock' = [sock EXCEPT ![c] = "closed"] /\ up' = [up EXCEPT ![c] = <<>>] /\ told'
      /\ UNCHANGED <<rx, linked, gone, early, server>>
  BY DEF SocketFails, SocketCloses, SocketLost
<1>2. /\ DOMAIN sock = Channels /\ DOMAIN up' = Channels /\ sock'[c] = "closed"
      /\ \A d \in Channels : d # c => sock'[d] = sock[d] /\ up'[d] = up[d]
  BY <1>1 DEF Inv, Framed, Linkings
<1>3. faults \in Nat /\ faults' \in Nat /\ faults' >= faults /\ (faults' > 0 \/ early)
  <2>1. faults \in Nat
    BY DEF Linkings
  <2>2. CASE SocketFails(c)
    BY <2>1, <2>2 DEF SocketFails
  <2>3. CASE SocketCloses(c)
    <3>1. sock[c] = "open" /\ server[c].state = "closed" /\ faults' = faults
      BY <2>3 DEF SocketCloses
    <3>2. early \/ faults > 0
      BY <3>1 DEF Linkings, Linking
    <3> QED
      BY <2>1, <3>1, <3>2
  <2> QED
    BY <2>2, <2>3
<1>4. ASSUME NEW d \in Channels PROVE Linking(d)'
  <2>0. Linking(d)
    BY DEF Linkings
  <2>1. CASE d = c
    BY <1>1, <1>2, <2>0, <2>1 DEF Linking
  <2>2. CASE d # c
    BY <1>1, <1>2, <1>3, <2>0, <2>2, LinkingKept
  <2> QED
    BY <2>1, <2>2
<1>5. LinkedOpen' /\ ErrorsHaveCauses'
  BY <1>1, <1>3 DEF LinkedOpen, ErrorsHaveCauses
<1> QED
  BY <1>2, <1>3, <1>4, <1>5 DEF Linkings

\* Steps after which a channel is where it was in its link.
LEMMA LinksUntouched ==
    ASSUME Inv, Linkings, UNCHANGED <<sock, linked, told, gone, early, server, up, faults>>,
           \A d \in Channels : rx'[d].phase = rx[d].phase
    PROVE  Linkings'
<1>1. faults \in Nat /\ faults' \in Nat /\ faults' >= faults
  BY DEF Linkings
<1>2. \A d \in Channels : Linking(d)'
  BY <1>1, LinkingKept DEF Linkings
<1> QED
  BY <1>1, <1>2 DEF Linkings, LinkedOpen, ErrorsHaveCauses

LEMMA LinksReceiving ==
    ASSUME Inv, Linkings, NEW c \in Channels, NEW k \in 1 .. Len(down[c]), Receives(c, k)
    PROVE  Linkings'
<1> DEFINE r == Push(rx[c], SubSeq(down[c], 1, k))
<1>1. /\ turn = None /\ sock[c] = "open" /\ rx' = [rx EXCEPT ![c] = r]
      /\ UNCHANGED <<sock, linked, told, gone, early, server, up, faults>>
  BY DEF Receives
<1>2. rx[c] \in Shapes
  BY <1>1 DEF Inv, Placed, Streaming
<1>3. r.phase = rx[c].phase
  BY <1>2 DEF Push, Shapes
<1> HIDE DEF r
<1>4. \A d \in Channels : rx'[d].phase = rx[d].phase
  BY <1>1, <1>3 DEF Inv, Framed
<1> QED
  BY <1>1, <1>4, LinksUntouched

\* What is sent on the open channel whose part is handled.
LEMMA HandlerSends ==
    ASSUME Linkings, NEW c \in Channels, sock[c] = "open", NEW packets, SendAll(c, packets)
    PROVE  /\ sock' = sock /\ (told' <=> told)
           /\ DOMAIN up' = Channels /\ up'[c] = up[c] \o packets
           /\ \A d \in Channels : d # c => up'[d] = up[d]
BY DEF SendAll, Linkings

LEMMA LinksTaking ==
    ASSUME Inv, Linkings, NEW c \in Channels, NEW size, Takes(c, size), told' <=> told,
           \A d \in Channels : sock'[d] = sock[d] \/ (sock[d] = "none" /\ sock'[d] = "connecting"),
           DOMAIN up' = Channels, \A d \in Channels : d # c => up'[d] = up[d],
           linked' \subseteq linked \cup {c}, linked \subseteq linked',
           ~ early =>
              /\ server[c].state = "link" => up'[c] = <<Packet("link")>>
              /\ server[c].state = "ticket" =>
                    up'[c] = IF rx'[c].phase = "errorCode" THEN <<Packet("ticket")>> ELSE <<>>
              /\ c \in linked' => rx'[c].phase \in {"header", "body"}
    PROVE  Linkings'
<1>1. /\ turn = c /\ sock[c] = "open" /\ UNCHANGED <<gone, server, early, faults>>
      /\ \A d \in Channels : d # c => rx'[d] = rx[d]
  BY TakesWhat DEF Takes
<1>2. faults \in Nat /\ faults' \in Nat /\ faults' >= faults
  BY <1>1 DEF Linkings
<1>3. ASSUME NEW d \in Channels PROVE Linking(d)'
  <2>0. Linking(d)
    BY DEF Linkings
  <2>1. CASE d = c
    <3>1. sock'[c] = "open"
      BY <1>1
    <3> QED
      BY <1>1, <2>0, <2>1, <3>1 DEF Linking
  <2>2. CASE d # c
    <3>1. d \in linked' <=> d \in linked
      BY <2>2
    <3> QED
      BY <1>1, <1>2, <2>0, <2>2, <3>1, LinkingKept
  <2> QED
    BY <2>1, <2>2
<1>4. LinkedOpen'
  <2>1. SUFFICES ASSUME ~ gone', ~ told', NEW d \in Channels, d \in linked' PROVE sock'[d] = "open"
    BY DEF LinkedOpen
  <2>2. sock[d] = "open"
    BY <1>1, <2>1 DEF Linkings, LinkedOpen
  <2> QED
    BY <2>2
<1>5. ErrorsHaveCauses'
  BY <1>1 DEF Linkings, ErrorsHaveCauses
<1> QED
  BY <1>2, <1>3, <1>4, <1>5 DEF Linkings

\* What the state of the server says of the receiving side of an open channel.
LEMMA LinkStates ==
    ASSUME Inv, NEW c \in Channels, sock[c] = "open"
    PROVE  /\ rx[c] \in Shapes
           /\ server[c].state = "link" => rx[c].phase = "reply"
           /\ server[c].state = "ticket" => rx[c].phase \in {"reply", "replyBody", "errorCode"}
           /\ rx[c].phase = "errorCode" /\ Ready(rx[c]) => server[c].state \notin {"link", "ticket"}
<1>1. /\ Streaming(rx[c], down[c], wire[c], Len(handled[c]), CutOf(c))
      /\ Sending(server[c], wire[c], scope.scripts[c])
  BY DEF Inv, Placed, Served
<1>2. /\ server[c].state = "link" => Len(wire[c]) = 0
      /\ server[c].state = "ticket" => Len(wire[c]) = 1
  BY <1>1 DEF Sending
<1>3. rx[c] \in Shapes
  BY <1>1 DEF Streaming
<1>4. /\ Len(wire[c]) = 0 => rx[c].phase = "reply"
      /\ Len(wire[c]) = 1 => rx[c].phase \in {"reply", "replyBody", "errorCode"}
      /\ rx[c].phase = "errorCode" /\ Ready(rx[c]) => Len(wire[c]) > 1
  BY <1>1, PhaseIs
<1>5. rx[c].phase = "errorCode" /\ Ready(rx[c]) => Len(wire[c]) # 0 /\ Len(wire[c]) # 1
  <2>1. \A n \in Nat : n > 1 => n # 0 /\ n # 1
    OBVIOUS
  <2>2. Len(wire[c]) \in Nat
    BY <1>1 DEF Streaming
  <2> QED
    BY <1>4, <2>1, <2>2
<1> QED
  BY <1>2, <1>3, <1>4, <1>5

LEMMA LinksHandling ==
    ASSUME Inv, Orderly, Linkings, NEW c \in Channels, Handles(c), Over'
    PROVE  Linkings'
<1>1. DOMAIN up = Channels /\ Linking(c)
  BY DEF Linkings
<1>2. ASSUME HeaderTaken(c) PROVE Linkings'
  <2> DEFINE size == BodySize(KindOf(c, Taken(rx[c])[1].n))
  <2>1. /\ Takes(c, size) /\ rx[c].phase \in {"reply", "header"}
        /\ UNCHANGED <<sock, up, told, linked>>
    BY <1>2 DEF HeaderTaken
  <2> HIDE DEF size
  <2>2. sock[c] = "open" /\ rx'[c] = TakeNext(rx[c], size)
    BY <2>1, TakesWhat
  <2>3. \/ rx[c].phase = "reply" /\ rx'[c].phase = "replyBody"
        \/ rx[c].phase = "header" /\ rx'[c].phase = "body"
    BY <2>1, <2>2, LinkStates, NextPhase
  <2>4. server[c].state \in {"link", "ticket"} => rx[c].phase # "header"
    BY <2>2, LinkStates
  <2>5. ~ early =>
           /\ server[c].state = "link" => up'[c] = <<Packet("link")>>
           /\ server[c].state = "ticket" =>
                 up'[c] = IF rx'[c].phase = "errorCode" THEN <<Packet("ticket")>> ELSE <<>>
           /\ c \in linked' => rx'[c].phase \in {"header", "body"}
    BY <1>1, <2>1, <2>2, <2>3, <2>4 DEF Linking
  <2> QED
    BY <1>1, <2>1, <2>5, LinksTaking
<1>3. ASSUME ReplyTaken(c) PROVE Linkings'
  <2>1. /\ Takes(c, 0) /\ rx[c].phase = "replyBody" /\ SendAll(c, <<Packet("ticket")>>)
        /\ UNCHANGED linked
    BY <1>3 DEF ReplyTaken
  <2>2. sock[c] = "open" /\ rx'[c] = TakeNext(rx[c], 0)
    BY <2>1, TakesWhat
  <2>3. rx'[c].phase = "errorCode" /\ server[c].state # "link"
    BY <2>1, <2>2, LinkStates, NextPhase
  <2>4. /\ sock' = sock /\ (told' <=> told)
        /\ DOMAIN up' = Channels /\ up'[c] = up[c] \o <<Packet("ticket")>>
        /\ \A d \in Channels : d # c => up'[d] = up[d]
    BY <2>1, <2>2, HandlerSends
  <2>5. <<>> \o <<Packet("ticket")>> = <<Packet("ticket")>>
    OBVIOUS
  <2>6. ~ early => /\ server[c].state = "ticket" => up'[c] = <<Packet("ticket")>>
                   /\ c \notin linked
    BY <1>1, <2>1, <2>2, <2>4, <2>5 DEF Linking
  <2> QED
    BY <2>1, <2>3, <2>4, <2>6, LinksTaking
<1>4. ASSUME ErrorCodeTaken(c) PROVE Linkings'
  <2>1. /\ Takes(c, 0) /\ rx[c].phase = "errorCode"
        /\ \/ SendAll(c, AfterLink(c)) /\ linked' = linked \cup {c}
           \/ UNCHANGED <<sock, up, told, linked>>
    BY <1>4 DEF ErrorCodeTaken
  <2>2. sock[c] = "open" /\ rx'[c] = TakeNext(rx[c], 0) /\ Ready(rx[c])
    BY <2>1, TakesWhat
  <2>3. rx'[c].phase = "header" /\ server[c].state \notin {"link", "ticket"}
    BY <2>1, <2>2, LinkStates, NextPhase
  <2>4. /\ sock' = sock /\ (told' <=> told) /\ DOMAIN up' = Channels
        /\ \A d \in Channels : d # c => up'[d] = up[d]
    BY <1>1, <2>1, <2>2, HandlerSends
  <2> QED
    BY <2>1, <2>3, <2>4, LinksTaking
<1>5. ASSUME MessageTaken(c) PROVE Linkings'
  <2>1. /\ Takes(c, 0) /\ rx[c].phase = "body" /\ UNCHANGED linked
        /\ \/ \E packets : up' = [up EXCEPT ![c] = packets] /\ told' = told
           \/ \E packets : SendAll(c, packets)
    BY <1>5 DEF MessageTaken
  <2>2. sock[c] = "open" /\ rx'[c] = TakeNext(rx[c], 0)
    BY <2>1, TakesWhat
  <2>3. rx'[c].phase = "header" /\ server[c].state \notin {"link", "ticket"}
    BY <2>1, <2>2, LinkStates, NextPhase
  <2>4. \A d \in Channels : sock'[d] = sock[d] \/ (sock[d] = "none" /\ sock'[d] = "connecting")
    BY <1>5, MessageKeeps
  <2>5. /\ told' <=> told
        /\ DOMAIN up' = Channels /\ \A d \in Channels : d # c => up'[d] = up[d]
    <3>1. CASE \E packets : up' = [up EXCEPT ![c] = packets] /\ told' = told
      BY <1>1, <3>1
    <3>2. CASE \E packets : SendAll(c, packets)
      BY <2>2, <3>2, HandlerSends
    <3> QED
      BY <2>1, <3>1, <3>2
  <2> QED
    BY <2>1, <2>3, <2>4, <2>5, LinksTaking
<1> QED
  BY <1>2, <1>3, <1>4, <1>5 DEF Handles

LEMMA LinksUser ==
    ASSUME Inv, Linkings, NEW c \in Channels, NEW kind, UserSends(c, kind)
    PROVE  Linkings'
<1> DEFINE sent == sock[c] = "open"
<1>1. /\ ~ gone /\ (early' <=> early \/ c \notin linked)
      /\ UNCHANGED <<rx, linked, gone, server, faults>>
      /\ up' = IF sent THEN [up EXCEPT ![c] = @ \o <<Packet(kind)>>] ELSE up
      /\ sock' = IF sent \/ sock[c] = "none" THEN sock ELSE [sock EXCEPT ![c] = "closed"]
      /\ told' <=> (told \/ ~ sent)
  <2>1. <<Packet(kind)>> # <<>>
    OBVIOUS
  <2> QED
    BY <2>1 DEF UserSends, SendAll
<1>2. /\ DOMAIN up' = Channels /\ \A d \in Channels : d # c => up'[d] = up[d] /\ sock'[d] = sock[d]
      /\ sock'[c] = sock[c] \/ (sock[c] # "none" /\ sock'[c] = "closed")
      /\ sent => sock' = sock
  BY <1>1 DEF Inv, Framed, Linkings
<1>3. faults \in Nat /\ faults' \in Nat /\ faults' >= faults /\ Linking(c)
  BY <1>1 DEF Linkings
<1>4. Linking(c)'
  <2>1. ASSUME sock[c] = "open", ~ early'
        PROVE  server[c].state \notin {"link", "ticket"} /\ ~ early
    <3>1. c \in linked /\ ~ early
      BY <1>1, <2>1
    <3>2. rx[c].phase \in {"header", "body"}
      BY <1>3, <2>1, <3>1 DEF Linking
    <3> QED
      BY <2>1, <3>1, <3>2, LinkStates
  <2>2. CASE sock'[c] = "closed"
    BY <1>1, <1>3, <2>2 DEF Linking
  <2>3. CASE sock'[c] = sock[c]
    BY <1>1, <1>3, <2>1, <2>3 DEF Linking
  <2> QED
    BY <1>2, <2>2, <2>3
<1>5. ASSUME NEW d \in Channels, d # c PROVE Linking(d)'
  <2>1. Linking(d)
    BY DEF Linkings
  <2> QED
    BY <1>1, <1>2, <1>3, <1>5, <2>1, LinkingKept
<1>6. LinkedOpen'
  <2>1. SUFFICES ASSUME ~ told', NEW d \in Channels, d \in linked' PROVE sock'[d] = "open"
    BY DEF LinkedOpen
  <2>2. sock' = sock /\ ~ told
    BY <1>1, <1>2, <2>1
  <2> QED
    BY <1>1, <2>1, <2>2 DEF Linkings, LinkedOpen
<1>7. ErrorsHaveCauses'
  <2>1. SUFFICES ASSUME told', ~ early' PROVE faults > 0
    BY <1>1 DEF ErrorsHaveCauses
  <2>2. c \in linked /\ ~ early
    BY <1>1, <2>1
  <2>3. CASE told
    BY <2>2, <2>3 DEF Linkings, ErrorsHaveCauses
  <2>4. CASE ~ told
    <3>1. sent
      BY <1>1, <2>2, <2>4 DEF Linkings, LinkedOpen
    <3> QED
      BY <1>1, <2>1, <2>4, <3>1
  <2> QED
    BY <2>3, <2>4
<1> QED
  BY <1>2, <1>3, <1>4, <1>5, <1>6, <1>7 DEF Linkings

\* The server reads or sends on a channel: t is what its state becomes.
LEMMA LinksServing ==
    ASSUME Inv, Linkings, NEW c \in Channels, sock[c] = "open", UNCHANGED client,
           DOMAIN up' = Channels, \A d \in Channels : d # c => up'[d] = up[d],
           NEW t, server' = [server EXCEPT ![c] = t], faults' \in Nat, faults' >= faults,
           t.state \in {"link", "ticket", "up", "closed"},
           ~ early =>
              /\ t.state = "link" => up'[c] = <<Packet("link")>>
              /\ t.state = "ticket" =>
                    up'[c] = IF rx[c].phase = "errorCode" THEN <<Packet("ticket")>> ELSE <<>>
              /\ t.state = "closed" => faults' > 0
    PROVE  Linkings'
<1>1. UNCHANGED <<sock, rx, linked, told, gone, early>>
  BY DEF client
<1>2. /\ server'[c] = t /\ \A d \in Channels : d # c => server'[d] = server[d]
  BY DEF Inv, Framed
<1>3. faults \in Nat
  BY DEF Linkings
<1>4. ASSUME NEW d \in Channels PROVE Linking(d)'
  <2>0. Linking(d)
    BY DEF Linkings
  <2>1. CASE d = c
    BY <1>1, <1>2, <2>0, <2>1 DEF Linking
  <2>2. CASE d # c
    BY <1>1, <1>2, <1>3, <2>0, <2>2, LinkingKept
  <2> QED
    BY <2>1, <2>2
<1>5. ErrorsHaveCauses'
  <2>1. faults > 0 => faults' > 0
    BY <1>3
  <2> QED
    BY <1>1, <2>1 DEF Linkings, ErrorsHaveCauses
<1> QED
  BY <1>1, <1>4, <1>5 DEF Linkings, LinkedOpen

LEMMA LinksReading ==
    ASSUME Inv, Linkings, NEW c \in Channels, ServerReads(c)
    PROVE  Linkings'
<1> DEFINE s == server[c]
           p == Head(up[c])
<1>1. /\ sock[c] = "open" /\ UNCHANGED client /\ up[c] # <<>> /\ up' = [up EXCEPT ![c] = Tail(@)]
  BY DEF ServerReads
<1>2. /\ DOMAIN up' = Channels /\ up'[c] = Tail(up[c]) /\ \A d \in Channels : d # c => up'[d] = up[d]
  BY <1>1 DEF Linkings
<1>3. Linking(c) /\ faults \in Nat
  BY DEF Linkings
<1>4. "state" \in DOMAIN s
  BY DEF Inv, Served, Sending
<1>5. \E t : /\ server' = [server EXCEPT ![c] = t]
             /\ \/ s.state = "link" /\ t.state = "ticket" /\ faults' = faults
                \/ s.state = "ticket" /\ t.state = "up" /\ faults' = faults
                \/ s.state = "ticket" /\ t.state = "closed" /\ faults' = faults + 1
                \/ s.state = "ticket" /\ p.kind # "ticket" /\ t.state = "closed" /\ faults' = faults
                \/ s.state \in {"up", "closed"} /\ t.state = s.state /\ faults' = faults
  <2> DEFINE becomes(t) == server' = [server EXCEPT ![c] = t]
             answered(t, kinds) == becomes(t) /\ Sent(c, kinds) /\ UNCHANGED faults
             Ends(t) == \/ s.state = "link" /\ t.state = "ticket" /\ faults' = faults
                        \/ s.state = "ticket" /\ t.state = "up" /\ faults' = faults
                        \/ s.state = "ticket" /\ t.state = "closed" /\ faults' = faults + 1
                        \/ s.state = "ticket" /\ p.kind # "ticket" /\ t.state = "closed" /\ faults' = faults
                        \/ s.state \in {"up", "closed"} /\ t.state = s.state /\ faults' = faults
  <2>1. \/ s.state = "link" /\ answered([s EXCEPT !.state = "ticket"], <<"reply">>)
        \/ s.state = "ticket" /\ p.kind = "ticket" /\ answered([s EXCEPT !.state = "up"], <<"ok">>)
        \/ s.state = "ticket" /\ p.kind = "ticket" /\ faults < scope.faults
             /\ becomes([s EXCEPT !.state = "closed"])
             /\ Sent(c, <<"denied">>)
             /\ faults' = faults + 1
        \/ s.state = "ticket" /\ p.kind # "ticket"
             /\ answered([s EXCEPT !.state = "closed"], <<"denied">>)
        \/ s.state = "up" /\ p.kind = "attachChannels" /\ answered([s EXCEPT !.attached = TRUE], <<>>)
        \/ s.state = "up" /\ p.kind = "agentStart"
             /\ answered([s EXCEPT !.tokens = p.n, !.started = TRUE], <<>>)
        \/ s.state = "up" /\ p.kind = "tokens" /\ answered([s EXCEPT !.tokens = @ + p.n], <<>>)
        \/ s.state = "up" /\ p.kind = "ack"
             /\ answered([s EXCEPT !.unacked = @ - s.window], <<>>)
        \/ s.state = "up"
             /\ p.kind \notin {"attachChannels", "agentStart", "tokens", "ack"}
             /\ answered(s, <<>>)
        \/ s.state = "closed" /\ answered(s, <<>>)
    BY DEF ServerReads
  <2>2. \A x, kinds : answered(x, kinds) => becomes(x) /\ faults' = faults
    OBVIOUS
  <2>3. SUFFICES \E t : becomes(t) /\ Ends(t)
    OBVIOUS
  <2>4. /\ \A x : [s EXCEPT !.state = x].state = x
        /\ \A x : [s EXCEPT !.attached = x].state = s.state
        /\ \A x, y : [s EXCEPT !.tokens = x, !.started = y].state = s.state
        /\ \A x : [s EXCEPT !.tokens = x].state = s.state
        /\ \A x : [s EXCEPT !.unacked = x].state = s.state
    BY <1>4
  <2> HIDE DEF becomes, answered, s, p
  <2>5. CASE s.state = "link"
    <3>1. becomes([s EXCEPT !.state = "ticket"]) /\ faults' = faults
      BY <2>1, <2>2, <2>5
    <3> QED
      BY <2>4, <2>5, <3>1
  <2>6. CASE s.state = "ticket" /\ p.kind = "ticket"
    <3>1. \/ becomes([s EXCEPT !.state = "up"]) /\ faults' = faults
          \/ becomes([s EXCEPT !.state = "closed"]) /\ faults' = faults + 1
      BY <2>1, <2>2, <2>6
    <3> QED
      BY <2>4, <2>6, <3>1
  <2>7. CASE s.state = "ticket" /\ p.kind # "ticket"
    <3>1. becomes([s EXCEPT !.state = "closed"]) /\ faults' = faults
      BY <2>1, <2>2, <2>7
    <3> QED
      BY <2>4, <2>7, <3>1
  <2>8. CASE s.state = "up"
    <3>1. \/ becomes([s EXCEPT !.attached = TRUE]) /\ faults' = faults
          \/ becomes([s EXCEPT !.tokens = p.n, !.started = TRUE]) /\ faults' = faults
          \/ becomes([s EXCEPT !.tokens = s.tokens + p.n]) /\ faults' = faults
          \/ becomes([s EXCEPT !.unacked = s.unacked - s.window]) /\ faults' = faults
          \/ becomes(s) /\ faults' = faults
      BY <2>1, <2>2, <2>8
    <3>2. \A x : becomes(x) /\ faults' = faults /\ x.state = s.state => \E t : becomes(t) /\ Ends(t)
      BY <2>8
    <3> HIDE DEF Ends
    <3>3. CASE becomes([s EXCEPT !.attached = TRUE]) /\ faults' = faults
      BY <2>4, <3>2, <3>3
    <3>4. CASE becomes([s EXCEPT !.tokens = p.n, !.started = TRUE]) /\ faults' = faults
      BY <2>4, <3>2, <3>4
    <3>5. CASE becomes([s EXCEPT !.tokens = s.tokens + p.n]) /\ faults' = faults
      BY <2>4, <3>2, <3>5
    <3>6. CASE becomes([s EXCEPT !.unacked = s.unacked - s.window]) /\ faults' = faults
      BY <2>4, <3>2, <3>6
    <3>7. CASE becomes(s) /\ faults' = faults
      BY <3>2, <3>7
    <3> QED
      BY <3>1, <3>3, <3>4, <3>5, <3>6, <3>7
  <2>9. CASE s.state = "closed"
    <3>1. becomes(s) /\ faults' = faults
      BY <2>1, <2>2, <2>9
    <3> QED
      BY <2>9, <3>1
  <2> QED
    BY <2>1, <2>5, <2>6, <2>7, <2>8, <2>9
<1>6. PICK t : /\ server' = [server EXCEPT ![c] = t]
               /\ \/ s.state = "link" /\ t.state = "ticket" /\ faults' = faults
                  \/ s.state = "ticket" /\ t.state = "up" /\ faults' = faults
                  \/ s.state = "ticket" /\ t.state = "closed" /\ faults' = faults + 1
                  \/ s.state = "ticket" /\ p.kind # "ticket" /\ t.state = "closed" /\ faults' = faults
                  \/ s.state \in {"up", "closed"} /\ t.state = s.state /\ faults' = faults
  BY <1>5
<1>7. faults' \in Nat /\ faults' >= faults
  <2>1. faults' = faults \/ faults' = faults + 1
    BY <1>6
  <2> QED
    BY <1>3, <2>1
<1>8. t.state \in {"link", "ticket", "up", "closed"}
  BY <1>6
<1>9. ASSUME ~ early
      PROVE  /\ t.state = "link" => up'[c] = <<Packet("link")>>
             /\ t.state = "ticket" =>
                   up'[c] = IF rx[c].phase = "errorCode" THEN <<Packet("ticket")>> ELSE <<>>
             /\ t.state = "closed" => faults' > 0
  <2>1. CASE s.state = "link"
    <3>1. up[c] = <<Packet("link")>> /\ rx[c].phase = "reply"
      BY <1>1, <1>3, <1>9, <2>1, LinkStates DEF Linking
    <3>2. Tail(<<Packet("link")>>) = <<>>
      OBVIOUS
    <3> QED
      BY <1>2, <1>6, <2>1, <3>1, <3>2
  <2>2. CASE s.state = "ticket"
    <3>1. up[c] = IF rx[c].phase = "errorCode" THEN <<Packet("ticket")>> ELSE <<>>
      BY <1>1, <1>3, <1>9, <2>2 DEF Linking
    <3>2. up[c] = <<Packet("ticket")>>
      BY <1>1, <3>1
    <3>3. p = Packet("ticket") /\ p.kind = "ticket"
      BY <3>2 DEF Packet
    <3>4. t.state = "up" \/ (t.state = "closed" /\ faults' = faults + 1)
      BY <1>6, <2>2, <3>3
    <3> QED
      BY <1>3, <3>4
  <2>3. CASE s.state \in {"up", "closed"}
    <3>1. t.state = s.state /\ faults' = faults
      BY <1>6, <2>3
    <3>2. s.state = "closed" => faults > 0
      BY <1>1, <1>3, <1>9 DEF Linking
    <3> QED
      BY <2>3, <3>1, <3>2
  <2> QED
    BY <1>3, <2>1, <2>2, <2>3 DEF Linking
<1> HIDE DEF s, p
<1> QED
  BY <1>1, <1>2, <1>6, <1>7, <1>8, <1>9, LinksServing

LEMMA LinksSending ==
    ASSUME Inv, Linkings, NEW c \in Channels, ServerSends(c)
    PROVE  Linkings'
<1>1. sock[c] = "open" /\ server[c].state = "up" /\ UNCHANGED <<client, up, faults>>
  BY ServerSendsWhat
<1>2. PICK t : server' = [server EXCEPT ![c] = t] /\ t.state = "up"
  BY ServerSendsWhat
<1>3. DOMAIN up' = Channels /\ faults' \in Nat /\ faults' >= faults
  BY <1>1 DEF Linkings
<1> QED
  BY <1>1, <1>2, <1>3, LinksServing

LEMMA LinksLeaving ==
    ASSUME Inv, Linkings, Disconnect
    PROVE  Linkings'
<1>1. /\ gone' /\ sock' = [c \in Channels |-> "closed"]
      /\ UNCHANGED <<rx, linked, told, early, up, server, faults>>
  BY DEF Disconnect
<1>2. \A c \in Channels : Linking(c)'
  BY <1>1 DEF Linkings, Linking
<1> QED
  BY <1>1, <1>2 DEF Linkings, LinkedOpen, ErrorsHaveCauses

LEMMA LinkingsInit ==
    ASSUME Init
    PROVE  Linkings
<1>1. /\ told = FALSE /\ linked = {} /\ faults = 0 /\ up = [c \in Channels |-> <<>>]
      /\ sock = [c \in Channels |-> IF c = "main" THEN "connecting" ELSE "none"]
  BY DEF Init
<1>2. \A c \in Channels : server[c].state = "link" /\ sock[c] \in {"none", "connecting"}
  BY DEF Init
<1>3. \A c \in Channels : Linking(c)
  BY <1>1, <1>2 DEF Linking
<1> QED
  BY <1>1, <1>3 DEF Linkings, LinkedOpen, ErrorsHaveCauses

LEMMA LinkingsKept ==
    ASSUME Orderly, Inv, Linkings, [Next]_vars
    PROVE  Linkings'
<1>1. Over'
  BY OverKept DEF Inv
<1>2. CASE UNCHANGED vars
  <2>1. UNCHANGED <<sock, rx, linked, told, gone, early, server, up, faults>>
    BY <1>2 DEF vars, client
  <2> QED
    BY <2>1, LinksUntouched
<1>3. ASSUME Types \/ Resizes PROVE Linkings'
  <2>1. "inputs" \in Channels /\ "main" \in Channels
    BY SessionAssumption
  <2> QED
    BY <1>3, <2>1, LinksUser DEF Types, Resizes
<1> QED
  BY <1>1, <1>2, <1>3, LinksOpening, LinksLosing, LinksReceiving, LinksHandling, LinksReading,
     LinksSending, LinksLeaving DEF Next, Protocol

\* The handlers send a channel's packets only where the server awaits them (send
\* of spiceconnection.js, connect of spicechannel.js, the ticket after the
\* reply): the application is told of an error only when a socket failed, a link
\* was refused, the user sent on a channel that was not linked, or a message
\* was garbled, of which nothing is said.
THEOREM HandlersBreakNothing ==
    ASSUME Orderly
    PROVE  Spec => []NoErrorOfItsOwn
<1>1. Init => Inv /\ Linkings
  BY InvInit, LinkingsInit
<1>2. Inv /\ Linkings /\ [Next]_vars => (Inv /\ Linkings)'
  BY InvKept, LinkingsKept
<1>3. Linkings => NoErrorOfItsOwn
  BY DEF Linkings, ErrorsHaveCauses, NoErrorOfItsOwn
<1> QED
  BY <1>1, <1>2, <1>3, PTL DEF Spec
-----------------------------------------------------------------------------
(* The window of acknowledgements: the ACKs on their way are counted by     *)
(* their places in the queue.                                               *)

PacketKinds == {"link", "ticket", "key", "displayInit", "attachChannels", "agentStart", "agentData",
                "ackSync", "pong", "mouseMode", "tokens", "ack"}
Packets == [kind : PacketKinds, n : Int]
Places(q, kind) == {i \in 1 .. Len(q) : q[i].kind = kind}
HowMany(q, kind) == Cardinality(Places(q, kind))
AcksIn(q) == HowMany(q, "ack")
NoAcks(p) == p \in Seq(Packets) /\ \A i \in 1 .. Len(p) : p[i].kind # "ack"

LEMMA PlacesAreFew ==
    ASSUME NEW q \in Seq(Packets), NEW kind
    PROVE  IsFiniteSet(Places(q, kind)) /\ HowMany(q, kind) \in Nat
<1>1. IsFiniteSet(1 .. Len(q))
  BY FS_Interval
<1>2. Places(q, kind) \subseteq 1 .. Len(q)
  BY DEF Places
<1> QED
  BY <1>1, <1>2, FS_Subset, FS_CardinalityType DEF HowMany

LEMMA JoinedPackets ==
    ASSUME NEW q \in Seq(Packets), NEW p \in Seq(Packets)
    PROVE  /\ q \o p \in Seq(Packets) /\ Len(q \o p) = Len(q) + Len(p)
           /\ \A i \in 1 .. Len(q) : (q \o p)[i] = q[i]
           /\ \A i \in 1 .. Len(q \o p) : i > Len(q) => i - Len(q) \in 1 .. Len(p) /\ (q \o p)[i] = p[i - Len(q)]
<1>1. q \o p \in Seq(Packets) /\ Len(q \o p) = Len(q) + Len(p)
  OBVIOUS
<1>2. \A i \in 1 .. Len(q) : (q \o p)[i] = q[i]
  OBVIOUS
<1>3. ASSUME NEW i \in 1 .. Len(q \o p), i > Len(q)
      PROVE  i - Len(q) \in 1 .. Len(p) /\ (q \o p)[i] = p[i - Len(q)]
  BY <1>3
<1> QED
  BY <1>1, <1>2, <1>3

\* The packets of one kind in what is sent are added to those on their way.
LEMMA HowManyJoined ==
    ASSUME NEW q \in Seq(Packets), NEW p \in Seq(Packets), NEW kind
    PROVE  q \o p \in Seq(Packets) /\ HowMany(q \o p, kind) = HowMany(q, kind) + HowMany(p, kind)
<1> DEFINE j == q \o p
           Q == Places(q, kind)
           S == Places(p, kind)
           T == {i \in Places(j, kind) : i > Len(q)}
           f == [i \in S |-> i + Len(q)]
<1>1. /\ j \in Seq(Packets) /\ Len(j) = Len(q) + Len(p) /\ Len(q) \in Nat /\ Len(p) \in Nat
      /\ \A i \in 1 .. Len(q) : j[i] = q[i]
      /\ \A i \in 1 .. Len(j) : i > Len(q) => i - Len(q) \in 1 .. Len(p) /\ j[i] = p[i - Len(q)]
  BY JoinedPackets
<1> HIDE DEF j
<1>2. /\ IsFiniteSet(Q) /\ IsFiniteSet(S)
      /\ Cardinality(Q) \in Nat /\ Cardinality(S) \in Nat
  BY PlacesAreFew DEF HowMany
<1>3. ASSUME NEW i \in S PROVE i + Len(q) \in T /\ i \in Nat
  <2>1. i \in 1 .. Len(p) /\ p[i].kind = kind
    BY DEF Places
  <2>2. /\ i + Len(q) \in 1 .. Len(j) /\ i + Len(q) > Len(q) /\ i \in Nat
        /\ (i + Len(q)) - Len(q) = i
    BY <1>1, <2>1
  <2>3. j[i + Len(q)] = p[i]
    BY <1>1, <2>2
  <2> QED
    BY <2>1, <2>2, <2>3 DEF Places
<1>4. ASSUME NEW i \in T PROVE i - Len(q) \in S /\ (i - Len(q)) + Len(q) = i
  <2>1. i \in 1 .. Len(j) /\ j[i].kind = kind /\ i > Len(q)
    BY DEF Places
  <2>2. i - Len(q) \in 1 .. Len(p) /\ (i - Len(q)) + Len(q) = i /\ j[i] = p[i - Len(q)]
    BY <1>1, <2>1
  <2> QED
    BY <2>1, <2>2 DEF Places
<1>5. Places(j, kind) = Q \cup T /\ Q \cap T = {}
  <2>1. ASSUME NEW i PROVE i \in Places(j, kind) <=> i \in Q \/ i \in T
    <3>1. i \in 1 .. Len(q) <=> i \in 1 .. Len(j) /\ ~ (i > Len(q))
      BY <1>1
    <3> QED
      BY <1>1, <3>1 DEF Places
  <2>2. \A i \in Q : ~ (i > Len(q))
    BY <1>1 DEF Places
  <2> HIDE DEF Q
  <2> QED
    BY <2>1, <2>2
<1> HIDE DEF S, T, Q
<1>6. f \in [S -> T] /\ \A i \in S : f[i] = i + Len(q)
  BY <1>3
<1> HIDE DEF f
<1>7. \A i, k \in S : f[i] = f[k] => i = k
  BY <1>1, <1>3, <1>6
<1>8. \A i \in T : \E k \in S : f[k] = i
  BY <1>4, <1>6
<1>9. f \in Bijection(S, T)
  BY <1>6, <1>7, <1>8 DEF Bijection, Injection, Surjection, IsInjective
<1>10. Cardinality(T) = Cardinality(S) /\ IsFiniteSet(T)
  BY <1>2, <1>9, FS_Bijection DEF ExistsBijection
<1>11. Cardinality(Q \cup T) = Cardinality(Q) + Cardinality(T)
  <2>1. Cardinality(Q \cap T) = 0
    BY <1>5, FS_EmptySet
  <2>2. Cardinality(Q \cup T) = Cardinality(Q) + Cardinality(T) - Cardinality(Q \cap T)
    BY <1>2, <1>10, FS_Union
  <2> QED
    BY <1>2, <1>10, <2>1, <2>2
<1> QED
  BY <1>1, <1>5, <1>10, <1>11 DEF HowMany, j, Q, S

LEMMA NoneOf ==
    ASSUME NEW p \in Seq(Packets), NEW kind, \A i \in 1 .. Len(p) : p[i].kind # kind
    PROVE  HowMany(p, kind) = 0
<1>1. Places(p, kind) = {}
  BY DEF Places
<1> QED
  BY <1>1, FS_EmptySet DEF HowMany

LEMMA OnlyOne ==
    ASSUME NEW x \in Packets
    PROVE  <<x>> \in Seq(Packets) /\ HowMany(<<x>>, x.kind) = 1
<1>1. Places(<<x>>, x.kind) = {1}
  BY DEF Places
<1>2. Cardinality({1}) = 1
  BY FS_Singleton
<1> QED
  BY <1>1, <1>2 DEF HowMany

\* The server takes the first packet.
LEMMA FirstOut ==
    ASSUME NEW q \in Seq(Packets), q # <<>>, NEW kind
    PROVE  /\ Tail(q) \in Seq(Packets) /\ Head(q) \in Packets
           /\ HowMany(q, kind) = HowMany(Tail(q), kind) + (IF Head(q).kind = kind THEN 1 ELSE 0)
<1> DEFINE x == Head(q)
           p == Tail(q)
<1>1. p \in Seq(Packets) /\ x \in Packets /\ q = <<x>> \o p
  OBVIOUS
<1> HIDE DEF x, p
<1>2. <<x>> \in Seq(Packets) /\ HowMany(<<x>>, x.kind) = 1
  BY <1>1, OnlyOne
<1>3. x.kind # kind => HowMany(<<x>>, kind) = 0
  <2>1. \A i \in 1 .. Len(<<x>>) : <<x>>[i] = x
    OBVIOUS
  <2> QED
    BY <1>2, <2>1, NoneOf
<1>4. HowMany(q, kind) = HowMany(<<x>>, kind) + HowMany(p, kind) /\ HowMany(p, kind) \in Nat
  BY ZenonT(60), <1>1, <1>2, HowManyJoined, PlacesAreFew
<1> QED
  BY <1>1, <1>2, <1>3, <1>4 DEF x, p

\* What is sent besides an ACK does not change their number.
LEMMA NoneAdded ==
    ASSUME NEW q \in Seq(Packets), NEW p, NoAcks(p)
    PROVE  q \o p \in Seq(Packets) /\ AcksIn(q \o p) = AcksIn(q)
<1>1. p \in Seq(Packets) /\ HowMany(p, "ack") = 0
  BY NoneOf DEF NoAcks
<1>2. HowMany(q, "ack") \in Nat
  BY PlacesAreFew
<1> QED
  BY <1>1, <1>2, HowManyJoined DEF AcksIn

\* One ACK, and what follows it.
LEMMA OneAdded ==
    ASSUME NEW q \in Seq(Packets), NEW p, NoAcks(p)
    PROVE  LET j == q \o (<<Packet("ack")>> \o p)
           IN  j \in Seq(Packets) /\ AcksIn(j) = AcksIn(q) + 1
<1>1. p \in Seq(Packets) /\ HowMany(p, "ack") = 0
  BY NoneOf DEF NoAcks
<1> DEFINE a == <<Packet("ack")>>
<1>2. a \in Seq(Packets) /\ HowMany(a, "ack") = 1
  <2>1. Packet("ack") \in Packets /\ Packet("ack").kind = "ack"
    BY DEF Packet, Packets, PacketKinds
  <2> QED
    BY <2>1, OnlyOne
<1> HIDE DEF a
<1> DEFINE b == a \o p
<1>3. b \in Seq(Packets) /\ HowMany(b, "ack") = 1
  BY <1>1, <1>2, HowManyJoined
<1> HIDE DEF b
<1>4. q \o b \in Seq(Packets) /\ HowMany(q \o b, "ack") = HowMany(q, "ack") + HowMany(b, "ack")
  BY <1>3, HowManyJoined
<1> QED
  BY <1>3, <1>4 DEF AcksIn, a, b

LEMMA FirstTaken ==
    ASSUME NEW q \in Seq(Packets), q # <<>>
    PROVE  /\ Tail(q) \in Seq(Packets)
           /\ AcksIn(q) = AcksIn(Tail(q)) + (IF Head(q).kind = "ack" THEN 1 ELSE 0)
BY FirstOut DEF AcksIn

LEMMA NothingSent == AcksIn(<<>>) = 0 /\ <<>> \in Seq(Packets)
<1>1. <<>> \in Seq(Packets) /\ 1 .. Len(<<>>) = {}
  OBVIOUS
<1>2. HowMany(<<>>, "ack") = 0
  BY <1>1, NoneOf, Zenon
<1> QED
  BY <1>1, <1>2 DEF AcksIn

LEMMA OnePacket ==
    ASSUME NEW kind \in PacketKinds, kind # "ack", NEW n \in Int
    PROVE  NoAcks(<<[kind |-> kind, n |-> n]>>)
<1> DEFINE x == [kind |-> kind, n |-> n]
<1>1. x \in Packets /\ x.kind # "ack"
  BY DEF Packets
<1> HIDE DEF x
<1>2. NoAcks(<<x>>)
  BY <1>1 DEF NoAcks
<1> QED
  BY <1>2 DEF x

LEMMA BothSent ==
    ASSUME NEW p, NEW q, NoAcks(p), NoAcks(q)
    PROVE  NoAcks(p \o q)
<1> DEFINE j == p \o q
<1>1. /\ p \in Seq(Packets) /\ q \in Seq(Packets)
      /\ \A i \in 1 .. Len(p) : p[i].kind # "ack"
      /\ \A i \in 1 .. Len(q) : q[i].kind # "ack"
  BY DEF NoAcks
<1>2. /\ j \in Seq(Packets) /\ Len(j) = Len(p) + Len(q)
      /\ \A i \in 1 .. Len(p) : j[i] = p[i]
      /\ \A i \in 1 .. Len(j) : i > Len(p) => i - Len(p) \in 1 .. Len(q) /\ j[i] = q[i - Len(p)]
  BY <1>1, JoinedPackets
<1> HIDE DEF j
<1>3. ASSUME NEW i \in 1 .. Len(j) PROVE j[i].kind # "ack"
  <2>1. i \in 1 .. Len(p) \/ i > Len(p)
    BY <1>1
  <2> QED
    BY <1>1, <1>2, <2>1
<1> QED
  BY <1>2, <1>3 DEF NoAcks, j

LEMMA EmptySent == NoAcks(<<>>)
BY NothingSent DEF NoAcks

\* What a handler sends besides an ACK.
LEMMA AnswersAre ==
    ASSUME agent \in Int, NEW c \in Channels, NEW kind
    PROVE  NoAcks(AfterLink(c)) /\ NoAcks(Answer(c, kind)) /\ NoAcks(<<Packet("ticket")>>)
           /\ AgentData[1] \in Int
<1>1. \A k \in PacketKinds : k # "ack" => NoAcks(<<Packet(k)>>)
  BY OnePacket DEF Packet
<1>2. \A k \in PacketKinds, n \in Int : k # "ack" => NoAcks(<<Granted(k, n)>>)
  BY OnePacket DEF Granted
<1>3. Tokens \in Int
  BY SessionAssumption
<1>4. {"ticket", "key", "displayInit", "attachChannels", "agentStart", "agentData", "ackSync", "pong",
       "mouseMode", "tokens"} \subseteq PacketKinds
  BY DEF PacketKinds
<1>5. /\ NoAcks(<<Packet("ticket")>>) /\ NoAcks(<<Packet("key")>>) /\ NoAcks(<<Packet("displayInit")>>)
      /\ NoAcks(<<Packet("attachChannels")>>) /\ NoAcks(<<Packet("agentData")>>)
      /\ NoAcks(<<Packet("ackSync")>>) /\ NoAcks(<<Packet("pong")>>) /\ NoAcks(<<Packet("mouseMode")>>)
      /\ NoAcks(<<Granted("agentStart", agent)>>) /\ NoAcks(<<Granted("tokens", Tokens)>>)
  BY <1>1, <1>2, <1>3, <1>4
<1>6. NoAcks(AfterLink(c))
  <2>1. CASE c = "display"
    BY <1>5, <2>1 DEF AfterLink
  <2>2. CASE c = "main"
    BY <1>5, <2>2 DEF AfterLink
  <2>3. CASE c = "inputs"
    BY <1>5, <2>3 DEF AfterLink
  <2>4. CASE c \notin {"display", "main", "inputs"}
    BY <2>4, EmptySent DEF AfterLink
  <2> QED
    BY <2>1, <2>2, <2>3, <2>4
<1>7. NoAcks(AgentStart)
  <2> DEFINE a == Granted("agentStart", agent)
             b == Packet("agentData")
  <2>1. a \in Packets /\ b \in Packets /\ a.kind # "ack" /\ b.kind # "ack"
    BY <1>4 DEF Granted, Packet, Packets
  <2> HIDE DEF a, b
  <2>2. NoAcks(<<a, b, b>>)
    BY <2>1 DEF NoAcks
  <2> QED
    BY <2>2 DEF AgentStart, a, b
<1>8. NoAcks(AgentData[2]) /\ AgentData[1] \in Int
  <2>1. CASE agent = 1
    BY <1>3, <1>5, <2>1 DEF AgentData
  <2>2. CASE agent # 1
    BY <2>2, EmptySent DEF AgentData
  <2> QED
    BY <2>1, <2>2
<1>9. NoAcks(Answer(c, kind))
  <2>0. NoAcks(AgentStart \o <<Packet("mouseMode")>>)
    BY <1>5, <1>7, BothSent
  <2>1. CASE kind = "setAck"
    BY <1>5, <2>1 DEF Answer, Starts
  <2>2. CASE kind = "ping"
    BY <1>5, <2>2 DEF Answer, Starts
  <2>3. CASE kind \in Starts
    BY <2>0, <2>3 DEF Answer, Starts
  <2>4. CASE kind = "initAlone"
    BY <1>5, <2>4 DEF Answer, Starts
  <2>5. CASE kind = "agent"
    BY <1>8, <2>5 DEF Answer, Starts
  <2>6. CASE kind \notin {"setAck", "ping", "initAlone", "agent"} \cup Starts
    BY <2>6, EmptySent DEF Answer, Starts
  <2> QED
    BY <2>1, <2>2, <2>3, <2>4, <2>5, <2>6
<1> QED
  BY <1>5, <1>6, <1>8, <1>9

WindowSent(W) == \E i \in 1 .. Len(W) : W[i] = "setAck"

\* What the server counts on c, before and after the client knows the window.
Agreed(c) ==
    LET h == Len(handled[c])
        total == Len(wire[c])
    IN  /\ ack[c].window = 0 =>
              /\ AcksIn(up[c]) = 0
              /\ server[c].window # 0 =>
                    \E m \in h + 3 .. total : wire[c][m] = "setAck" /\ server[c].unacked = total - m
        /\ ack[c].window # 0 =>
              server[c].unacked = ack[c].counter + (total - (h + 2)) + Window * AcksIn(up[c])

Acking(c) ==
    LET s == server[c]
        h == Len(handled[c])
        total == Len(wire[c])
    IN  /\ up[c] \in Seq(Packets)
        /\ ack[c] \in [counter : Nat, window : {0, Window}]
        /\ {"state", "window", "unacked"} \subseteq DOMAIN s
        /\ s.window \in {0, Window} /\ s.unacked \in Int
        /\ s.window # 0 <=> WindowSent(wire[c])
        /\ s.state = "closed" => s.window = 0
        /\ ack[c].window # 0 => h + 2 <= total /\ \E i \in 1 .. total : i <= h + 2 /\ wire[c][i] = "setAck"
        /\ sock[c] = "open" => Agreed(c)

Ackings ==
    /\ DOMAIN ack = Channels /\ agent \in Int
    /\ \A c \in Channels : Acking(c)

\* Packets other than ACKs may follow, and the socket may close.
LEMMA AckingSent ==
    ASSUME NEW c, Acking(c), ack'[c] = ack[c], server'[c] = server[c], wire'[c] = wire[c],
           handled'[c] = handled[c], sock'[c] = sock[c] \/ sock'[c] # "open",
           up'[c] = up[c] \/ \E p : NoAcks(p) /\ up'[c] = up[c] \o p
    PROVE  Acking(c)'
<1>1. up'[c] \in Seq(Packets) /\ AcksIn(up'[c]) = AcksIn(up[c])
  <2>1. up[c] \in Seq(Packets)
    BY DEF Acking
  <2>2. ASSUME NEW p, NoAcks(p), up'[c] = up[c] \o p
        PROVE  up'[c] \in Seq(Packets) /\ AcksIn(up'[c]) = AcksIn(up[c])
    BY <2>1, <2>2, NoneAdded
  <2> QED
    BY <2>1, <2>2
<1>2. sock'[c] = "open" => sock[c] = "open"
  OBVIOUS
<1>3. sock'[c] = "open" => Agreed(c)'
  BY <1>1, <1>2 DEF Acking, Agreed
<1> QED
  BY <1>1, <1>3 DEF Acking

LEMMA AckingsSent ==
    ASSUME Ackings, UNCHANGED <<ack, server, wire, handled>>, agent' \in Int,
           \A c \in Channels : /\ sock'[c] = sock[c] \/ sock'[c] # "open"
                               /\ up'[c] = up[c] \/ \E p : NoAcks(p) /\ up'[c] = up[c] \o p
    PROVE  Ackings'
<1>1. ASSUME NEW c \in Channels PROVE Acking(c)'
  BY <1>1, AckingSent DEF Ackings
<1> QED
  BY <1>1 DEF Ackings

\* SET_ACK is sent at most once.
LEMMA SentOnce ==
    ASSUME Inv, \A s \in Scopes : WindowSetOnce(s), NEW c \in Channels, sock[c] # "closed"
    PROVE  LET W == wire[c]
           IN  /\ W \in Seq(Kinds) /\ Len(W) \in Nat
               /\ \A i, j \in 1 .. Len(W) : W[i] = "setAck" /\ W[j] = "setAck" => i = j
<1> DEFINE W == wire[c]
           scripts == scope.scripts[c]
<1>1. W \in Seq(Kinds) /\ Told(W) /\ Sending(server[c], W, scripts) /\ scope \in Scopes
  BY DEF Inv, Served, Placed, Streaming, Framed
<1>2. ASSUME NEW i \in 1 .. Len(W), W[i] = "setAck"
      PROVE  i - 2 \in 1 .. Len(scripts) /\ scripts[i - 2] = "setAck"
  <2>1. i # 1 /\ i # 2 /\ Len(W) \in Nat
    BY <1>1, <1>2 DEF Told
  <2>2. i \in 3 .. Len(W)
    BY <2>1
  <2> QED
    BY <1>1, <1>2, <2>2 DEF Sending
<1>3. \A i, j \in 1 .. Len(scripts) : scripts[i] = "setAck" /\ scripts[j] = "setAck" => i = j
  BY <1>1 DEF WindowSetOnce
<1>4. ASSUME NEW i \in 1 .. Len(W), NEW j \in 1 .. Len(W), W[i] = "setAck", W[j] = "setAck" PROVE i = j
  <2>1. i - 2 = j - 2
    BY <1>2, <1>3, <1>4
  <2>2. i \in Int /\ j \in Int
    OBVIOUS
  <2> QED
    BY <2>1, <2>2
<1> QED
  BY <1>1, <1>4

\* Nothing is handled that was not sent.
LEMMA HandledWasSent ==
    ASSUME NEW r, NEW D, NEW W, NEW h, NEW C, Streaming(r, D, W, h, C), Len(W) >= 2
    PROVE  h + 2 <= Len(W)
<1> DEFINE S == r.unread \o D
           x == NextAt(S, W, 1)
<1>1. /\ r \in Shapes /\ h \in Nat /\ Len(W) \in Nat /\ Flows(S, W) /\ Place(r, x, W, h, C)
  BY DEF Streaming
<1>2. x.n \in 1 .. Len(W) \/ x = At(Len(W) + 1, 1)
  <2>1. CASE 1 \in 1 .. Len(S)
    BY <1>1, <2>1 DEF NextAt, Flows
  <2>2. CASE 1 \notin 1 .. Len(S)
    BY <2>2 DEF NextAt, At
  <2> QED
    BY <2>1, <2>2
<1>3. x.n \in 1 .. Len(W) + 1
  <2>1. At(Len(W) + 1, 1).n = Len(W) + 1
    BY DEF At
  <2> HIDE DEF x
  <2> QED
    BY <1>1, <1>2, <2>1
<1> HIDE DEF x
<1>4. CASE r.phase \in {"reply", "replyBody", "errorCode"}
  <2>1. h = 0
    BY <1>1, <1>4 DEF Place
  <2> QED
    BY <2>1
<1>5. CASE r.phase = "header"
  <2>1. x = At(h + 3, 1) /\ At(h + 3, 1).n = h + 3
    BY <1>1, <1>5 DEF Place, At
  <2> QED
    BY <1>1, <1>3, <2>1
<1>6. CASE r.phase = "body"
  <2>1. h + 3 \in 1 .. Len(W)
    BY <1>1, <1>6 DEF Place
  <2> QED
    BY <1>1, <2>1
<1>7. r.phase \in Phases
  BY <1>1 DEF Shapes
<1> QED
  BY <1>4, <1>5, <1>6, <1>7 DEF Phases

\* The client counts a message, and acknowledges when the window is full.
LEMMA AcksMessage ==
    ASSUME Inv, Orderly, Linkings, Ackings, \A s \in Scopes : WindowSetOnce(s),
           NEW c \in Channels, MessageTaken(c), ~ Garbled', Over'
    PROVE  Ackings'
<1> DEFINE n == Complete(rx[c])
           kind == IF n = 0 THEN "garbled" ELSE KindOf(c, n)
           h == Len(handled[c])
           W == wire[c]
           total == Len(W)
           one == IF Acks(c) THEN 1 ELSE 0
<1>1. /\ Takes(c, 0) /\ rx[c].phase = "body"
      /\ handled' = [handled EXCEPT ![c] = Append(@, n)]
      /\ ack' = [ack EXCEPT ![c] = IF kind = "setAck" THEN SetAck(c) ELSE Counted(c)]
      /\ agent' = IF kind = "agent" THEN AgentData[1] ELSE agent
      /\ \/ up' = [up EXCEPT ![c] = @ \o AckPackets(c)]
         \/ SendAll(c, AckPackets(c) \o Answer(c, kind))
  BY DEF MessageTaken
<1>2. sock[c] = "open" /\ UNCHANGED <<server, wire>>
      /\ n = h + 3 /\ h + 3 \in 1 .. total
  <2>1. /\ sock[c] = "open" /\ UNCHANGED <<server, wire>> /\ Ready(rx[c])
        /\ Streaming(rx[c], down[c], wire[c], Len(handled[c]), CutOf(c))
    BY <1>1, TakesWhat
  <2> QED
    BY <1>1, <2>1, MessageStreams, NotGarbled
<1>3. handled[c] \in Seq(Nat) /\ h \in Nat /\ DOMAIN handled = Channels
  BY DEF Inv, Framed
<1>4. kind = W[h + 3]
  <2>1. n # 0
    BY <1>2, <1>3
  <2> QED
    BY <1>2, <2>1 DEF KindOf
<1>5. /\ W \in Seq(Kinds) /\ total \in Nat
      /\ \A i, j \in 1 .. total : W[i] = "setAck" /\ W[j] = "setAck" => i = j
  BY <1>2, SentOnce
<1>6. \A d \in Channels : sock'[d] = sock[d] \/ (sock[d] = "none" /\ sock'[d] = "connecting")
  BY MessageKeeps
<1>7. NoAcks(Answer(c, kind)) /\ AgentData[1] \in Int /\ agent \in Int
  BY AnswersAre DEF Ackings
<1>8. Acking(c)
  BY DEF Ackings
<1> HIDE DEF n, kind, W, h, total
<1>9. h' = h + 1
  BY <1>1, <1>2, <1>3 DEF h
<1>10. /\ \A d \in Channels : d # c => up'[d] = up[d]
       /\ \E p : NoAcks(p) /\ up'[c] = up[c] \o (AckPackets(c) \o p)
  <2>1. CASE up' = [up EXCEPT ![c] = @ \o AckPackets(c)]
    <3>1. AckPackets(c) \o <<>> = AckPackets(c)
      BY DEF AckPackets
    <3>2. up'[c] = up[c] \o AckPackets(c) /\ \A d \in Channels : d # c => up'[d] = up[d]
      BY <2>1 DEF Linkings
    <3> QED
      BY <3>1, <3>2, EmptySent
  <2>2. CASE SendAll(c, AckPackets(c) \o Answer(c, kind))
    BY <1>2, <1>7, <2>2, HandlerSends
  <2> QED
    BY <1>1, <2>1, <2>2
<1>11. up'[c] \in Seq(Packets) /\ AcksIn(up'[c]) = AcksIn(up[c]) + one /\ AcksIn(up[c]) \in Nat
  <2>1. PICK p : NoAcks(p) /\ up'[c] = up[c] \o (AckPackets(c) \o p)
    BY <1>10
  <2>2. up[c] \in Seq(Packets) /\ AcksIn(up[c]) \in Nat
    BY <1>8, PlacesAreFew DEF Acking, AcksIn
  <2>3. CASE Acks(c)
    <3>1. AckPackets(c) = <<Packet("ack")>>
      BY <2>3 DEF AckPackets
    <3> QED
      BY <2>1, <2>2, <2>3, <3>1, OneAdded
  <2>4. CASE ~ Acks(c)
    <3>1. AckPackets(c) \o p = p
      BY <2>1, <2>4 DEF AckPackets, NoAcks
    <3> QED
      BY <2>1, <2>2, <2>4, <3>1, NoneAdded
  <2> QED
    BY <2>3, <2>4
<1>12. /\ ack'[c] = IF kind = "setAck" THEN SetAck(c) ELSE Counted(c)
       /\ DOMAIN ack' = Channels /\ \A d \in Channels : d # c => ack'[d] = ack[d]
  BY <1>1 DEF Ackings
<1>13. ack[c] \in [counter : Nat, window : {0, Window}] /\ Window \in Nat \ {0}
  BY <1>8, SessionAssumption DEF Acking
<1>14. Acking(c)'
  <2>1. CASE kind = "setAck"
    <3>1. ack'[c] = [counter |-> 0, window |-> Window]
      BY <1>12, <2>1 DEF SetAck
    <3>2. ack[c].window = 0
      <4>1. SUFFICES ASSUME ack[c].window # 0 PROVE FALSE
        OBVIOUS
      <4>2. PICK i \in 1 .. total : i <= h + 2 /\ W[i] = "setAck"
        BY <1>8, <4>1 DEF Acking, W, h, total
      <4>3. i = h + 3
        BY <1>2, <1>4, <1>5, <2>1, <4>2
      <4> QED
        BY <1>3, <4>2, <4>3
    <3>3. AcksIn(up'[c]) = 0 /\ server[c].unacked = total - (h + 3) /\ server[c].window # 0
      <4>1. WindowSent(wire[c])
        BY <1>2, <1>4, <2>1 DEF WindowSent, W, total
      <4>2. PICK m \in h + 3 .. total : W[m] = "setAck" /\ server[c].unacked = total - m
        BY <1>2, <1>8, <3>2, <4>1 DEF Acking, Agreed, W, h, total
      <4>3. m \in 1 .. total
        BY <1>3, <1>5, <4>2
      <4>4. m = h + 3
        BY <1>2, <1>4, <1>5, <2>1, <4>2, <4>3
      <4>5. ~ Acks(c)
        BY <3>2 DEF Acks
      <4>6. AcksIn(up[c]) = 0
        BY <1>2, <1>8, <3>2 DEF Acking, Agreed
      <4> QED
        BY <1>8, <1>11, <4>1, <4>2, <4>4, <4>5, <4>6 DEF Acking
    <3>4. Agreed(c)'
      <4>1. ack'[c].window # 0 /\ ack'[c].counter = 0
        BY <1>13, <3>1
      <4>2. server[c].unacked = 0 + (total - (h + 1 + 2)) + Window * 0
        BY <1>3, <1>5, <1>13, <3>3
      <4> QED
        BY <1>2, <1>9, <3>3, <4>1, <4>2 DEF Agreed, W, h, total
    <3>5. ack'[c] \in [counter : Nat, window : {0, Window}]
      BY <1>13, <3>1
    <3>6. h + 1 + 2 <= total /\ h + 3 <= h + 1 + 2
      BY <1>2, <1>3, <1>5
    <3>7. h' + 2 <= total /\ \E i \in 1 .. total : i <= h' + 2 /\ W[i] = "setAck"
      BY <1>2, <1>4, <1>9, <2>1, <3>6
    <3> QED
      BY <1>2, <1>8, <1>11, <3>4, <3>5, <3>7 DEF Acking, W, h, total
  <2>2. CASE kind # "setAck"
    <3>1. ack'[c] = [ack[c] EXCEPT !.counter = IF Acks(c) THEN 0 ELSE ack[c].counter + 1]
      BY <1>12, <2>2 DEF Counted
    <3>2. /\ ack'[c] \in [counter : Nat, window : {0, Window}] /\ ack'[c].window = ack[c].window
          /\ ack'[c].counter = IF Acks(c) THEN 0 ELSE ack[c].counter + 1
      BY <1>13, <3>1
    <3>3. ASSUME ack[c].window = 0
          PROVE  /\ AcksIn(up'[c]) = 0
                 /\ server[c].window # 0 =>
                       \E m \in h + 1 + 3 .. total : W[m] = "setAck" /\ server[c].unacked = total - m
      <4>1. ~ Acks(c)
        BY <3>3 DEF Acks
      <4>2. AcksIn(up[c]) = 0
        BY <1>2, <1>8, <3>3 DEF Acking, Agreed
      <4>3. ASSUME server[c].window # 0
            PROVE  \E m \in h + 1 + 3 .. total : W[m] = "setAck" /\ server[c].unacked = total - m
        <5>1. PICK m \in h + 3 .. total : W[m] = "setAck" /\ server[c].unacked = total - m
          BY <1>2, <1>8, <3>3, <4>3 DEF Acking, Agreed, W, h, total
        <5>2. m # h + 3
          BY <1>4, <2>2, <5>1
        <5>3. m \in h + 1 + 3 .. total
          BY <1>3, <1>5, <5>1, <5>2
        <5> QED
          BY <5>1, <5>3
      <4> QED
        BY <1>11, <4>1, <4>2, <4>3
    <3>4. ASSUME ack[c].window # 0
          PROVE  server[c].unacked =
                     ack'[c].counter + (total - (h + 1 + 2)) + Window * AcksIn(up'[c])
      <4> DEFINE A == AcksIn(up[c])
                 k == ack[c].counter
      <4>1. server[c].unacked = k + (total - (h + 2)) + Window * A
        BY <1>2, <1>8, <3>4 DEF Acking, Agreed, W, h, total
      <4>2. A \in Nat /\ k \in Nat /\ ack[c].window = Window /\ AcksIn(up'[c]) = A + one
        BY <1>11, <1>13, <3>4
      <4>3. Acks(c) <=> k + 1 = Window
        BY <1>13, <4>2 DEF Acks
      <4> HIDE DEF A, k
      <4>4. Window * (A + 1) = Window * A + Window /\ Window * A \in Int
        BY <1>13, <4>2
      <4>5. CASE Acks(c)
        <5>1. ack'[c].counter = 0 /\ AcksIn(up'[c]) = A + 1 /\ k + 1 = Window
          BY <3>2, <4>2, <4>3, <4>5
        <5>2. k + (total - (h + 2)) + Window * A = 0 + (total - (h + 1 + 2)) + (Window * A + Window)
          BY <1>3, <1>5, <1>13, <4>2, <4>4, <5>1
        <5> QED
          BY <4>1, <4>4, <5>1, <5>2
      <4>6. CASE ~ Acks(c)
        <5>1. ack'[c].counter = k + 1 /\ AcksIn(up'[c]) = A
          BY <3>2, <4>2, <4>6 DEF k
        <5>2. k + (total - (h + 2)) + Window * A = (k + 1) + (total - (h + 1 + 2)) + Window * A
          BY <1>3, <1>5, <4>2, <4>4
        <5> QED
          BY <4>1, <5>1, <5>2
      <4> QED
        BY <4>5, <4>6
    <3>5. Agreed(c)'
      BY <1>2, <1>9, <3>2, <3>3, <3>4 DEF Agreed, W, h, total
    <3>6. ack[c].window # 0 => h + 1 + 2 <= total
              /\ \E i \in 1 .. total : i <= h + 1 + 2 /\ W[i] = "setAck"
      <4>1. SUFFICES ASSUME ack[c].window # 0
                     PROVE  h + 1 + 2 <= total /\ \E i \in 1 .. total : i <= h + 1 + 2 /\ W[i] = "setAck"
        OBVIOUS
      <4>2. PICK i \in 1 .. total : i <= h + 2 /\ W[i] = "setAck"
        BY <1>8, <4>1 DEF Acking, W, h, total
      <4>3. i <= h + 1 + 2 /\ h + 1 + 2 <= total
        BY <1>2, <1>3, <1>5, <4>2
      <4> QED
        BY <4>2, <4>3
    <3> QED
      BY <1>2, <1>8, <1>9, <1>11, <3>2, <3>5, <3>6 DEF Acking, W, h, total
  <2> QED
    BY <2>1, <2>2
<1>15. ASSUME NEW d \in Channels, d # c PROVE Acking(d)'
  <2>1. Acking(d) /\ handled'[d] = handled[d] /\ (sock'[d] = sock[d] \/ sock'[d] # "open")
    BY <1>1, <1>3, <1>6, <1>15 DEF Ackings
  <2> QED
    BY <1>2, <1>10, <1>12, <1>15, <2>1, AckingSent
<1> QED
  BY <1>1, <1>7, <1>12, <1>14, <1>15 DEF Ackings

\* The server reads a packet: what it sends and what it counts.
LEMMA AcksReading ==
    ASSUME Inv, Linkings, Ackings, NEW c \in Channels, ServerReads(c)
    PROVE  Ackings'
<1> DEFINE s == server[c]
           p == Head(up[c])
           W == wire[c]
           Ends(t, kinds) ==
               /\ server' = [server EXCEPT ![c] = t] /\ Sent(c, kinds)
               /\ {"state", "window", "unacked"} \subseteq DOMAIN t /\ t.window = s.window
               /\ \/ /\ s.state \in {"link", "ticket"} /\ t.unacked = s.unacked
                     /\ kinds \in {<<"reply">>, <<"ok">>, <<"denied">>}
                  \/ /\ s.state \notin {"link", "ticket"} /\ kinds = <<>> /\ t.state = s.state
                     /\ t.unacked = IF s.state = "up" /\ p.kind = "ack" THEN s.unacked - s.window
                                    ELSE s.unacked
<1>1. /\ sock[c] = "open" /\ UNCHANGED client /\ up[c] # <<>> /\ up' = [up EXCEPT ![c] = Tail(@)]
  BY DEF ServerReads
<1>2. Acking(c) /\ UNCHANGED <<sock, ack, agent, handled>>
  BY <1>1 DEF Ackings, client
<1>3. {"state", "window", "unacked"} \subseteq DOMAIN s
  BY <1>2 DEF Acking
<1>4. \E t, kinds : Ends(t, kinds)
  <2> DEFINE answers(t, kinds) == server' = [server EXCEPT ![c] = t] /\ Sent(c, kinds)
  <2>1. \/ s.state = "link" /\ answers([s EXCEPT !.state = "ticket"], <<"reply">>)
        \/ s.state = "ticket" /\ answers([s EXCEPT !.state = "up"], <<"ok">>)
        \/ s.state = "ticket" /\ answers([s EXCEPT !.state = "closed"], <<"denied">>)
        \/ s.state = "up" /\ p.kind = "attachChannels" /\ answers([s EXCEPT !.attached = TRUE], <<>>)
        \/ s.state = "up" /\ p.kind = "agentStart"
             /\ answers([s EXCEPT !.tokens = p.n, !.started = TRUE], <<>>)
        \/ s.state = "up" /\ p.kind = "tokens" /\ answers([s EXCEPT !.tokens = s.tokens + p.n], <<>>)
        \/ s.state = "up" /\ p.kind = "ack"
             /\ answers([s EXCEPT !.unacked = s.unacked - s.window], <<>>)
        \/ s.state = "up" /\ p.kind # "ack" /\ answers(s, <<>>)
        \/ s.state = "closed" /\ answers(s, <<>>)
    BY DEF ServerReads
  <2>2. \A t, kinds : answers(t, kinds) /\ {"state", "window", "unacked"} \subseteq DOMAIN t
                      /\ t.window = s.window /\ t.unacked = s.unacked
                      /\ s.state \in {"link", "ticket"} /\ kinds \in {<<"reply">>, <<"ok">>, <<"denied">>}
                        => Ends(t, kinds)
    OBVIOUS
  <2>3. \A t : answers(t, <<>>) /\ {"state", "window", "unacked"} \subseteq DOMAIN t
               /\ t.window = s.window /\ t.state = s.state /\ s.state \in {"up", "closed"}
               /\ t.unacked = (IF s.state = "up" /\ p.kind = "ack" THEN s.unacked - s.window ELSE s.unacked)
                 => Ends(t, <<>>)
    OBVIOUS
  <2> HIDE DEF answers, Ends, s, p
  <2>4. ASSUME NEW x
        PROVE  LET t == [s EXCEPT !.state = x]
               IN  {"state", "window", "unacked"} \subseteq DOMAIN t
                   /\ t.window = s.window /\ t.unacked = s.unacked
    BY <1>3
  <2>5. CASE s.state = "link" /\ answers([s EXCEPT !.state = "ticket"], <<"reply">>)
    BY <2>2, <2>4, <2>5
  <2>6. CASE s.state = "ticket" /\ answers([s EXCEPT !.state = "up"], <<"ok">>)
    BY <2>2, <2>4, <2>6
  <2>7. CASE s.state = "ticket" /\ answers([s EXCEPT !.state = "closed"], <<"denied">>)
    BY <2>2, <2>4, <2>7
  <2>8. CASE s.state = "up" /\ p.kind = "attachChannels" /\ answers([s EXCEPT !.attached = TRUE], <<>>)
    <3> DEFINE t == [s EXCEPT !.attached = TRUE]
    <3>1. {"state", "window", "unacked"} \subseteq DOMAIN t
          /\ t.window = s.window /\ t.state = s.state /\ t.unacked = s.unacked
      BY <1>3
    <3>2. answers(t, <<>>)
      BY <2>8
    <3> HIDE DEF t
    <3> QED
      BY <2>3, <2>8, <3>1, <3>2
  <2>9. CASE s.state = "up" /\ p.kind = "agentStart"
             /\ answers([s EXCEPT !.tokens = p.n, !.started = TRUE], <<>>)
    <3> DEFINE t == [s EXCEPT !.tokens = p.n, !.started = TRUE]
    <3>1. {"state", "window", "unacked"} \subseteq DOMAIN t
          /\ t.window = s.window /\ t.state = s.state /\ t.unacked = s.unacked
      BY <1>3
    <3>2. answers(t, <<>>)
      BY <2>9
    <3> HIDE DEF t
    <3> QED
      BY <2>3, <2>9, <3>1, <3>2
  <2>10. CASE s.state = "up" /\ p.kind = "tokens" /\ answers([s EXCEPT !.tokens = s.tokens + p.n], <<>>)
    <3> DEFINE t == [s EXCEPT !.tokens = s.tokens + p.n]
    <3>1. {"state", "window", "unacked"} \subseteq DOMAIN t
          /\ t.window = s.window /\ t.state = s.state /\ t.unacked = s.unacked
      BY <1>3
    <3>2. answers(t, <<>>)
      BY <2>10
    <3> HIDE DEF t
    <3> QED
      BY <2>3, <2>10, <3>1, <3>2
  <2>11. CASE s.state = "up" /\ p.kind = "ack"
              /\ answers([s EXCEPT !.unacked = s.unacked - s.window], <<>>)
    <3> DEFINE t == [s EXCEPT !.unacked = s.unacked - s.window]
    <3>1. {"state", "window", "unacked"} \subseteq DOMAIN t
          /\ t.window = s.window /\ t.state = s.state /\ t.unacked = s.unacked - s.window
      BY <1>3
    <3>2. answers(t, <<>>)
      BY <2>11
    <3> HIDE DEF t
    <3> QED
      BY <2>3, <2>11, <3>1, <3>2
  <2>12. CASE (s.state = "up" /\ p.kind # "ack" /\ answers(s, <<>>)) \/ (s.state = "closed" /\ answers(s, <<>>))
    BY <1>3, <2>3, <2>12
  <2> QED
    BY <2>1, <2>5, <2>6, <2>7, <2>8, <2>9, <2>10, <2>11, <2>12
<1>5. PICK t, kinds : Ends(t, kinds)
  BY <1>4
<1>6. /\ W \in Seq(Kinds) /\ DOMAIN wire = Channels /\ DOMAIN server = Channels /\ Len(W) \in Nat
  BY DEF Inv, Framed, Served, Sending
<1>7. /\ server'[c] = t /\ wire'[c] = W \o kinds
      /\ \A d \in Channels : d # c => server'[d] = server[d] /\ wire'[d] = wire[d] /\ up'[d] = up[d]
  BY <1>1, <1>5, <1>6 DEF Sent, Linkings
<1>8. /\ up'[c] = Tail(up[c]) /\ up'[c] \in Seq(Packets) /\ AcksIn(up'[c]) \in Nat
      /\ AcksIn(up[c]) = AcksIn(up'[c]) + (IF p.kind = "ack" THEN 1 ELSE 0)
  <2>1. up'[c] = Tail(up[c])
    BY <1>1 DEF Linkings
  <2>2. up[c] \in Seq(Packets)
    BY <1>2 DEF Acking
  <2> QED
    BY <1>1, <2>1, <2>2, FirstTaken, PlacesAreFew DEF AcksIn
<1>9. Acking(c)'
  <2>1. CASE s.state \in {"link", "ticket"}
    <3>1. kinds \in {<<"reply">>, <<"ok">>, <<"denied">>} /\ t.unacked = s.unacked /\ t.window = s.window
      BY <1>5, <2>1
    <3>2. Len(W) \in 0 .. 1 /\ ~ WindowSent(W)
      <4>1. Len(W) \in 0 .. 1 /\ Told(W)
        <5>1. Sending(s, W, scope.scripts[c])
          BY DEF Inv, Served
        <5>2. Len(W) \in 0 .. 1
          BY <2>1, <5>1 DEF Sending
        <5>3. Told(W)
          BY <1>1 DEF Inv, Placed, Streaming
        <5> QED
          BY <5>2, <5>3
      <4>2. \A i \in 1 .. Len(W) : W[i] = "reply"
        BY <4>1 DEF Told
      <4> QED
        BY <4>1, <4>2 DEF WindowSent
    <3>3. /\ ~ WindowSent(wire'[c])
      <4>1. PICK k \in Kinds : kinds = <<k>> /\ k # "setAck"
        BY <3>1 DEF Kinds
      <4>2. wire'[c] = Append(W, k)
        BY <1>6, <1>7, <4>1, OneMore
      <4>3. /\ Len(Append(W, k)) = Len(W) + 1 /\ Append(W, k)[Len(W) + 1] = k
            /\ \A i \in 1 .. Len(W) : Append(W, k)[i] = W[i]
        BY <1>6, OneMore
      <4>4. \A i \in 1 .. Len(W) + 1 : i \in 1 .. Len(W) \/ i = Len(W) + 1
        BY <1>6
      <4> QED
        BY <3>2, <4>1, <4>2, <4>3, <4>4 DEF WindowSent
    <3>4. s.window = 0 /\ ack[c].window = 0
      BY <1>2, <3>2 DEF Acking, WindowSent
    <3>5. AcksIn(up'[c]) = 0
      <4>1. AcksIn(up[c]) = 0
        BY <1>1, <1>2, <3>4 DEF Acking, Agreed
      <4> QED
        BY <1>8, <4>1
    <3>6. Agreed(c)'
      BY <1>2, <1>7, <3>1, <3>4, <3>5 DEF Agreed
    <3>7. {"state", "window", "unacked"} \subseteq DOMAIN t
      BY <1>5
    <3> HIDE DEF Ends
    <3> QED
      BY <1>2, <1>7, <1>8, <3>1, <3>3, <3>4, <3>6, <3>7 DEF Acking
  <2>2. CASE s.state \notin {"link", "ticket"}
    <3>1. /\ kinds = <<>> /\ t.state = s.state /\ t.window = s.window
          /\ t.unacked = IF s.state = "up" /\ p.kind = "ack" THEN s.unacked - s.window ELSE s.unacked
          /\ {"state", "window", "unacked"} \subseteq DOMAIN t
      BY <1>5, <2>2
    <3> HIDE DEF Ends
    <3>2. wire'[c] = W
      BY <1>6, <1>7, <3>1
    <3>3. s.window \in {0, Window} /\ s.unacked \in Int /\ Window \in Nat
      BY <1>2, SessionAssumption DEF Acking
    <3>4. t.unacked \in Int
      BY <3>1, <3>3
    <3>5. s.state \in {"up", "closed"}
      BY <2>2 DEF Linkings, Linking
    <3>6. p.kind = "ack" => s.state = "up" /\ ack[c].window # 0 /\ s.window = Window
      <4>1. SUFFICES ASSUME p.kind = "ack" PROVE s.state = "up" /\ ack[c].window # 0 /\ s.window = Window
        OBVIOUS
      <4>2. AcksIn(up[c]) # 0
        BY <1>8, <4>1
      <4>3. ack[c].window # 0
        BY <1>1, <1>2, <4>2 DEF Acking, Agreed
      <4>4. s.window # 0
        <5>1. WindowSent(W)
          BY <1>2, <4>3 DEF Acking, WindowSent
        <5> QED
          BY <1>2, <5>1 DEF Acking
      <4> QED
        BY <1>2, <3>3, <3>5, <4>3, <4>4 DEF Acking
    <3>7. ASSUME ack[c].window = 0
          PROVE  AcksIn(up'[c]) = 0 /\ t.unacked = s.unacked
      <4>1. AcksIn(up[c]) = 0 /\ p.kind # "ack"
        BY <1>1, <1>2, <3>6, <3>7 DEF Acking, Agreed
      <4> QED
        BY <1>8, <3>1, <4>1
    <3>8. ASSUME ack[c].window # 0
          PROVE  t.unacked = ack[c].counter + (Len(W) - (Len(handled[c]) + 2)) + Window * AcksIn(up'[c])
      <4> DEFINE A == AcksIn(up'[c])
                 before == ack[c].counter + (Len(W) - (Len(handled[c]) + 2))
      <4>1. s.unacked = before + Window * AcksIn(up[c])
        BY <1>1, <1>2, <3>8 DEF Acking, Agreed
      <4>2. before \in Int
        <5>1. Len(handled[c]) \in Nat /\ ack[c].counter \in Nat
          BY <1>2 DEF Acking, Inv, Framed
        <5> QED
          BY <1>6, <5>1
      <4>3. A \in Nat /\ AcksIn(up[c]) = A + (IF p.kind = "ack" THEN 1 ELSE 0)
        BY <1>8
      <4> HIDE DEF A, before
      <4>4. Window * (A + 1) = Window * A + Window /\ Window * A \in Int
        BY <3>3, <4>3
      <4>5. t.unacked = before + Window * A
        <5>1. CASE p.kind = "ack"
          <6>1. s.unacked = before + (Window * A + Window) /\ t.unacked = s.unacked - Window
            BY <3>1, <3>6, <4>1, <4>3, <4>4, <5>1
          <6> QED
            BY <3>3, <4>2, <4>4, <6>1
        <5>2. CASE p.kind # "ack"
          <6>1. AcksIn(up[c]) = A
            BY <4>3, <5>2
          <6> QED
            BY <3>1, <4>1, <5>2, <6>1
        <5> QED
          BY <5>1, <5>2
      <4> QED
        BY <4>5 DEF A, before
    <3>9. Agreed(c)'
      BY <1>1, <1>2, <1>7, <3>1, <3>2, <3>7, <3>8 DEF Acking, Agreed
    <3> QED
      BY <1>2, <1>7, <1>8, <3>1, <3>2, <3>4, <3>9 DEF Acking, WindowSent
  <2> QED
    BY <2>1, <2>2
<1>10. ASSUME NEW d \in Channels, d # c PROVE Acking(d)'
  <2>1. Acking(d) /\ handled'[d] = handled[d] /\ sock'[d] = sock[d] /\ ack'[d] = ack[d]
    BY <1>2 DEF Ackings
  <2> HIDE DEF Ends
  <2> QED
    BY <1>7, <1>10, <2>1, AckingSent
<1> QED
  BY <1>2, <1>9, <1>10 DEF Ackings

\* The server sends a message and counts it.
LEMMA AcksSending ==
    ASSUME Inv, Orderly, Linkings, Ackings, \A s \in Scopes : WindowSetOnce(s),
           NEW c \in Channels, ServerSends(c), Inv'
    PROVE  Ackings'
<1> DEFINE s == server[c]
           W == wire[c]
           total == Len(W)
           h == Len(handled[c])
           kind == Head(s.script)
           counted == [s EXCEPT !.script = Tail(s.script),
                                !.unacked = IF s.window = 0 THEN s.unacked ELSE s.unacked + 1]
           t == CASE kind = "setAck" -> [counted EXCEPT !.window = Window, !.unacked = 0]
                  [] kind = "agent" -> [counted EXCEPT !.tokens = counted.tokens - 1]
                  [] kind = "agentUp" -> [counted EXCEPT !.started = FALSE]
                  [] OTHER -> counted
<1>1. /\ sock[c] = "open" /\ s.state = "up" /\ UNCHANGED <<client, up>>
      /\ server' = [server EXCEPT ![c] = t] /\ Sent(c, <<kind>>)
  BY DEF ServerSends
<1>2. Acking(c) /\ UNCHANGED <<sock, ack, agent, handled>>
  BY <1>1 DEF Ackings, client
<1>3. {"state", "window", "unacked"} \subseteq DOMAIN s
  BY <1>2 DEF Acking
<1> HIDE DEF s, kind
<1>4. /\ {"state", "window", "unacked"} \subseteq DOMAIN counted
      /\ counted.state = s.state /\ counted.window = s.window
      /\ counted.unacked = IF s.window = 0 THEN s.unacked ELSE s.unacked + 1
  BY <1>3
<1> HIDE DEF counted
<1>5. /\ {"state", "window", "unacked"} \subseteq DOMAIN t /\ t.state = "up"
      /\ kind = "setAck" => t.window = Window /\ t.unacked = 0
      /\ kind # "setAck" => t.window = s.window /\ t.unacked = counted.unacked
  <2>1. CASE kind = "setAck"
    <3>1. t = [counted EXCEPT !.window = Window, !.unacked = 0]
      BY <2>1
    <3> HIDE DEF t
    <3> QED
      BY <1>1, <1>4, <2>1, <3>1
  <2>2. CASE kind = "agent"
    <3>1. t = [counted EXCEPT !.tokens = counted.tokens - 1]
      BY <2>2
    <3> HIDE DEF t
    <3> QED
      BY <1>1, <1>4, <2>2, <3>1
  <2>3. CASE kind = "agentUp"
    <3>1. t = [counted EXCEPT !.started = FALSE]
      BY <2>3
    <3> HIDE DEF t
    <3> QED
      BY <1>1, <1>4, <2>3, <3>1
  <2>4. CASE kind \notin {"setAck", "agent", "agentUp"}
    <3>1. t = counted
      BY <2>4
    <3> HIDE DEF t
    <3> QED
      BY <1>1, <1>4, <2>4, <3>1
  <2> QED
    BY <2>1, <2>2, <2>3, <2>4
<1> HIDE DEF t
<1>6. /\ W \in Seq(Kinds) /\ total \in Nat /\ DOMAIN wire = Channels /\ DOMAIN server = Channels
      /\ h \in Nat
  BY DEF Inv, Framed, Served, Sending
<1>7. /\ server'[c] = t /\ wire'[c] = W \o <<kind>>
      /\ \A d \in Channels : d # c => server'[d] = server[d] /\ wire'[d] = wire[d]
  BY <1>1, <1>6 DEF Sent
<1>8. /\ Len(wire'[c]) = total + 1 /\ wire'[c][total + 1] = kind
      /\ \A i \in 1 .. total : wire'[c][i] = W[i]
  BY <1>6, <1>7
<1>9. h + 2 <= total
  <2>1. Streaming(rx[c], down[c], W, h, CutOf(c)) /\ total >= 2
    <3>1. Sending(s, W, scope.scripts[c])
      BY DEF Inv, Served, s
    <3>2. total >= 2
      BY <1>1, <3>1 DEF Sending
    <3> QED
      BY <1>1, <3>2 DEF Inv, Placed
  <2> QED
    BY <2>1, HandledWasSent
<1> HIDE DEF W, total, h
<1>10. up'[c] \in Seq(Packets) /\ up'[c] = up[c]
  BY <1>1, <1>2 DEF Acking
<1>11. s.window \in {0, Window} /\ s.unacked \in Int /\ Window \in Nat \ {0}
  BY <1>2, SessionAssumption DEF Acking, s
<1>12. ack[c] \in [counter : Nat, window : {0, Window}]
  BY <1>2 DEF Acking
<1>13. Acking(c)'
  <2>1. CASE kind = "setAck"
    <3>1. ~ WindowSent(W)
      <4>1. SUFFICES ASSUME NEW i \in 1 .. total, W[i] = "setAck" PROVE FALSE
        BY DEF WindowSent, total
      <4>2. i \in 1 .. total + 1 /\ total + 1 \in 1 .. total + 1 /\ i # total + 1
        BY <1>6
      <4>3. sock'[c] # "closed"
        BY <1>1, <1>2
      <4>4. scope' = scope
        BY DEF ServerSends
      <4>5. /\ Sending(t, wire'[c], scope.scripts[c]) /\ Told(wire'[c])
        BY <1>7, <4>3, <4>4 DEF Inv, Served, Placed, Streaming
      <4>6. i # 1 /\ i # 2 /\ total + 1 # 1 /\ total + 1 # 2
        <5>1. 1 \in 1 .. total + 1 /\ 2 \in 1 .. total + 1
          BY <1>6, <1>9, <2>1 DEF h
        <5>2. wire'[c][1] = "reply" /\ wire'[c][2] \in {"ok", "denied"}
          BY <1>8, <4>5, <5>1 DEF Told
        <5>3. wire'[c][i] = "setAck" /\ wire'[c][total + 1] = "setAck"
          BY <1>8, <2>1, <4>1
        <5> QED
          BY <5>2, <5>3
      <4>7. i \in 3 .. total + 1 /\ total + 1 \in 3 .. total + 1
        BY <1>6, <4>2, <4>6
      <4> DEFINE last == total + 1
      <4>8. /\ i - 2 \in 1 .. Len(scope.scripts[c]) /\ scope.scripts[c][i - 2] = "setAck"
            /\ last - 2 \in 1 .. Len(scope.scripts[c]) /\ scope.scripts[c][last - 2] = "setAck"
        <5>1. \A k \in 3 .. last : /\ k - 2 \in 1 .. Len(scope.scripts[c])
                                   /\ wire'[c][k] = scope.scripts[c][k - 2]
          BY <1>8, <4>5 DEF Sending
        <5>2. wire'[c][i] = "setAck" /\ wire'[c][last] = "setAck"
          BY <1>8, <2>1, <4>1
        <5>3. i \in 3 .. last /\ last \in 3 .. last
          BY <4>7
        <5> HIDE DEF last
        <5> QED
          BY <5>1, <5>2, <5>3
      <4>10. last \in Int /\ i \in Int /\ i # last
        BY <1>6, <4>2
      <4> HIDE DEF last
      <4>9. i - 2 = last - 2
        <5>1. scope \in Scopes
          BY DEF Inv, Framed
        <5> QED
          BY <4>8, <5>1 DEF WindowSetOnce
      <4> QED
        BY <4>9, <4>10
    <3>2. s.window = 0 /\ ack[c].window = 0
      BY <1>2, <3>1 DEF Acking, WindowSent, W, s
    <3>3. AcksIn(up'[c]) = 0
      BY <1>1, <1>2, <1>10, <3>2 DEF Acking, Agreed
    <3>4. total + 1 \in h + 3 .. total + 1 /\ 0 = total + 1 - (total + 1)
      BY <1>6, <1>9
    <3>5. t.window = Window /\ t.unacked = 0 /\ t.window # 0 /\ t.unacked \in Int
      BY <1>5, <1>11, <2>1
    <3>6. Agreed(c)'
      <4>1. \E m \in h + 3 .. Len(wire'[c]) : wire'[c][m] = "setAck" /\ t.unacked = Len(wire'[c]) - m
        BY <1>8, <2>1, <3>4, <3>5
      <4> QED
        BY <1>2, <1>7, <3>2, <3>3, <4>1 DEF Agreed, h
    <3>7. WindowSent(wire'[c])
      <4>1. total + 1 \in 1 .. total + 1
        BY <1>6
      <4> QED
        BY <1>8, <2>1, <4>1 DEF WindowSent
    <3> QED
      BY <1>2, <1>5, <1>7, <1>10, <1>12, <3>2, <3>5, <3>6, <3>7 DEF Acking
  <2>2. CASE kind # "setAck"
    <3>1. /\ t.window = s.window
          /\ t.unacked = IF s.window = 0 THEN s.unacked ELSE s.unacked + 1
      BY <1>4, <1>5, <2>2
    <3>2. t.unacked \in Int
      BY <1>11, <3>1
    <3>3. WindowSent(wire'[c]) <=> WindowSent(W)
      <4>1. \A i : i \in 1 .. total + 1 <=> i \in 1 .. total \/ i = total + 1
        BY <1>6
      <4> QED
        BY <1>8, <2>2, <4>1 DEF WindowSent, total
    <3>4. ASSUME ack[c].window = 0
          PROVE  /\ AcksIn(up'[c]) = 0
                 /\ t.window # 0 => \E m \in h + 3 .. total + 1 :
                       wire'[c][m] = "setAck" /\ t.unacked = total + 1 - m
      <4>1. AcksIn(up'[c]) = 0
        BY <1>1, <1>2, <1>10, <3>4 DEF Acking, Agreed
      <4>2. ASSUME t.window # 0
            PROVE  \E m \in h + 3 .. total + 1 : wire'[c][m] = "setAck" /\ t.unacked = total + 1 - m
        <5>1. PICK m \in h + 3 .. total : W[m] = "setAck" /\ s.unacked = total - m
          BY <1>1, <1>2, <3>1, <3>4, <4>2 DEF Acking, Agreed, W, total, h, s
        <5>2. m \in 1 .. total /\ m \in h + 3 .. total + 1 /\ total - m + 1 = total + 1 - m
          BY <1>6, <5>1
        <5>3. t.unacked = total + 1 - m
          BY <3>1, <4>2, <5>1, <5>2
        <5>4. wire'[c][m] = "setAck"
          BY <1>8, <5>1, <5>2
        <5> QED
          BY <5>2, <5>3, <5>4
      <4> QED
        BY <4>1, <4>2
    <3>5. ASSUME ack[c].window # 0
          PROVE  t.unacked = ack[c].counter + (total + 1 - (h + 2)) + Window * AcksIn(up'[c])
      <4> DEFINE sent == Window * AcksIn(up[c])
                 k == ack[c].counter
      <4>1. s.unacked = k + (total - (h + 2)) + sent
        BY <1>1, <1>2, <3>5 DEF Acking, Agreed, W, total, h, s
      <4>2. s.window # 0
        <5>1. WindowSent(W)
          BY <1>2, <3>5 DEF Acking, WindowSent, W
        <5> QED
          BY <1>2, <5>1 DEF Acking, s, W
      <4>3. sent \in Int /\ k \in Int
        <5>1. AcksIn(up[c]) \in Nat
          BY <1>10, PlacesAreFew DEF AcksIn
        <5> QED
          BY <1>11, <1>12, <5>1
      <4>4. AcksIn(up'[c]) = AcksIn(up[c])
        BY <1>10
      <4> HIDE DEF sent, k
      <4>5. t.unacked = k + (total + 1 - (h + 2)) + sent
        BY <1>6, <3>1, <4>1, <4>2, <4>3
      <4> QED
        BY <4>4, <4>5 DEF sent, k
    <3>6. Agreed(c)'
      <4>1. Len(handled'[c]) = h /\ ack'[c] = ack[c]
        BY <1>2 DEF h
      <4>2. server'[c] = t /\ Len(wire'[c]) = total + 1
        BY <1>7, <1>8
      <4>3. ack'[c].window = 0 =>
              /\ AcksIn(up'[c]) = 0
              /\ server'[c].window # 0 =>
                    \E m \in Len(handled'[c]) + 3 .. Len(wire'[c]) :
                        wire'[c][m] = "setAck" /\ server'[c].unacked = Len(wire'[c]) - m
        <5>1. ack[c].window = 0 => AcksIn(up'[c]) = 0
          BY <3>4
        <5>2. ASSUME ack[c].window = 0, t.window # 0
              PROVE  \E m \in Len(handled'[c]) + 3 .. Len(wire'[c]) :
                        wire'[c][m] = "setAck" /\ t.unacked = Len(wire'[c]) - m
          <6>1. PICK m \in h + 3 .. total + 1 : wire'[c][m] = "setAck" /\ t.unacked = total + 1 - m
            BY <3>4, <5>2
          <6>2. h + 3 .. total + 1 = Len(handled'[c]) + 3 .. Len(wire'[c])
            BY <4>1, <4>2
          <6>3. t.unacked = Len(wire'[c]) - m
            BY <1>6, <4>2, <6>1
          <6> QED
            BY <6>1, <6>2, <6>3
        <5> QED
          BY <4>1, <4>2, <5>1, <5>2
      <4>4. ack'[c].window # 0 =>
              server'[c].unacked = ack'[c].counter + (Len(wire'[c]) - (Len(handled'[c]) + 2))
                                       + Window * AcksIn(up'[c])
        <5>1. total + 1 - (h + 2) = Len(wire'[c]) - (Len(handled'[c]) + 2)
          BY <1>6, <4>1, <4>2
        <5>2. ack[c].window # 0 =>
                t.unacked = ack[c].counter + (total + 1 - (h + 2)) + Window * AcksIn(up'[c])
          BY <3>5
        <5> QED
          BY <4>1, <4>2, <5>1, <5>2
      <4> QED
        BY <4>3, <4>4 DEF Agreed
    <3>7. ack[c].window # 0 => h + 2 <= total + 1
            /\ \E i \in 1 .. total + 1 : i <= h + 2 /\ wire'[c][i] = "setAck"
      <4>1. SUFFICES ASSUME ack[c].window # 0
                     PROVE  h + 2 <= total + 1
                            /\ \E i \in 1 .. total + 1 : i <= h + 2 /\ wire'[c][i] = "setAck"
        OBVIOUS
      <4>2. PICK i \in 1 .. total : i <= h + 2 /\ W[i] = "setAck"
        BY <1>2, <4>1 DEF Acking, W, total, h
      <4>3. i \in 1 .. total + 1 /\ h + 2 <= total + 1
        BY <1>6, <1>9
      <4> QED
        BY <1>8, <4>2, <4>3
    <3>8. s.window # 0 <=> WindowSent(W)
      BY <1>2 DEF Acking, s, W
    <3> QED
      BY <1>2, <1>5, <1>7, <1>8, <1>10, <1>11, <1>12, <3>1, <3>2, <3>3, <3>6, <3>7, <3>8 DEF Acking, h
  <2> QED
    BY <2>1, <2>2
<1>14. ASSUME NEW d \in Channels, d # c PROVE Acking(d)'
  <2>1. Acking(d) /\ handled'[d] = handled[d] /\ sock'[d] = sock[d] /\ ack'[d] = ack[d] /\ up'[d] = up[d]
    BY <1>1, <1>2 DEF Ackings
  <2> QED
    BY <1>7, <1>14, <2>1, AckingSent
<1> QED
  BY <1>2, <1>13, <1>14 DEF Ackings

\* A socket opens: there is only the link, and no window.
LEMMA AcksOpening ==
    ASSUME Inv, Orderly, Linkings, Ackings, NEW c \in Channels, SocketOpens(c), Over'
    PROVE  Ackings'
<1>1. /\ sock[c] = "connecting" /\ up' = [up EXCEPT ![c] = <<Packet("link")>>]
      /\ UNCHANGED <<ack, agent, server, wire, handled>>
  BY DEF SocketOpens
<1>2. /\ up'[c] = <<Packet("link")>> /\ \A d \in Channels : d # c => up'[d] = up[d]
  BY <1>1 DEF Linkings
<1>3. up'[c] \in Seq(Packets) /\ AcksIn(up'[c]) = 0
  <2>1. NoAcks(<<Packet("link")>>)
    BY OnePacket DEF Packet, PacketKinds
  <2>2. <<>> \o <<Packet("link")>> = <<Packet("link")>>
    OBVIOUS
  <2> QED
    BY <1>2, <2>1, <2>2, NoneAdded, NothingSent
<1>4. server[c].state = "link" /\ Acking(c)
  BY <1>1 DEF Linkings, Linking, Ackings
<1>5. ~ WindowSent(wire[c])
  <2>1. Len(wire[c]) = 0
    BY <1>4 DEF Inv, Served, Sending
  <2> QED
    BY <2>1 DEF WindowSent
<1>6. server[c].window = 0 /\ ack[c].window = 0
  BY <1>4, <1>5 DEF Acking, WindowSent
<1>7. Acking(c)'
  <2>1. Agreed(c)'
    BY <1>1, <1>3, <1>6 DEF Agreed
  <2> QED
    BY <1>1, <1>3, <1>4, <2>1 DEF Acking
<1>8. ASSUME NEW d \in Channels, d # c PROVE Acking(d)'
  <2>1. Acking(d) /\ (sock'[d] = sock[d] \/ sock'[d] # "open")
    BY <1>8, OpensKeeps DEF Ackings
  <2> QED
    BY <1>1, <1>2, <1>8, <2>1, AckingSent
<1> QED
  BY <1>1, <1>7, <1>8 DEF Ackings

LEMMA AcksLosing ==
    ASSUME Inv, Linkings, Ackings, NEW c \in Channels, SocketLost(c)
    PROVE  Ackings'
<1>1. /\ sock' = [sock EXCEPT ![c] = "closed"] /\ up' = [up EXCEPT ![c] = <<>>]
      /\ UNCHANGED <<ack, agent, server, wire, handled>>
  BY DEF SocketLost
<1>2. /\ sock'[c] = "closed" /\ up'[c] = <<>>
      /\ \A d \in Channels : d # c => sock'[d] = sock[d] /\ up'[d] = up[d]
  BY <1>1 DEF Inv, Framed, Linkings
<1>3. Acking(c)'
  <2>1. Acking(c)
    BY DEF Ackings
  <2> QED
    BY <1>1, <1>2, <2>1, NothingSent DEF Acking
<1>4. ASSUME NEW d \in Channels, d # c PROVE Acking(d)'
  <2>1. Acking(d)
    BY DEF Ackings
  <2> QED
    BY <1>1, <1>2, <1>4, <2>1, AckingSent
<1> QED
  BY <1>1, <1>3, <1>4 DEF Ackings

LEMMA AckingsInit ==
    ASSUME Init
    PROVE  Ackings
<1>1. /\ ack = [c \in Channels |-> [counter |-> 0, window |-> 0]] /\ agent = Tokens
      /\ sock = [c \in Channels |-> IF c = "main" THEN "connecting" ELSE "none"]
      /\ up = [c \in Channels |-> <<>>] /\ wire = [c \in Channels |-> <<>>]
  BY DEF Init
<1>2. agent \in Int /\ 0 \in {0, Window}
  BY <1>1, SessionAssumption
<1>3. ASSUME NEW c \in Channels PROVE Acking(c)
  <2>1. /\ {"state", "window", "unacked"} \subseteq DOMAIN server[c]
        /\ server[c].window = 0 /\ server[c].unacked = 0 /\ server[c].state = "link"
    BY DEF Init
  <2>2. up[c] = <<>> /\ wire[c] = <<>> /\ ack[c] = [counter |-> 0, window |-> 0] /\ sock[c] # "open"
    BY <1>1
  <2>3. ~ WindowSent(wire[c])
    BY <2>2 DEF WindowSent
  <2> QED
    BY <1>2, <2>1, <2>2, <2>3, NothingSent DEF Acking
<1> QED
  BY <1>1, <1>2, <1>3 DEF Ackings

\* What the link handlers and the user send.
LEMMA AcksTaking ==
    ASSUME Inv, Linkings, Ackings, NEW c \in Channels,
           HeaderTaken(c) \/ ReplyTaken(c) \/ ErrorCodeTaken(c)
    PROVE  Ackings'
<1>1. /\ \E size : Takes(c, size)
      /\ UNCHANGED <<ack, agent, handled>>
      /\ \/ UNCHANGED <<sock, up>>
         \/ SendAll(c, <<Packet("ticket")>>)
         \/ SendAll(c, AfterLink(c))
  BY DEF HeaderTaken, ReplyTaken, ErrorCodeTaken
<1>2. sock[c] = "open" /\ UNCHANGED <<server, wire>>
  BY <1>1, TakesWhat
<1>3. NoAcks(<<Packet("ticket")>>) /\ NoAcks(AfterLink(c)) /\ agent \in Int
  BY AnswersAre DEF Ackings
<1>4. \A d \in Channels : /\ sock'[d] = sock[d]
                          /\ up'[d] = up[d] \/ \E p : NoAcks(p) /\ up'[d] = up[d] \o p
  <2>1. ASSUME NEW p, NoAcks(p), SendAll(c, p)
        PROVE  \A d \in Channels : /\ sock'[d] = sock[d]
                                   /\ up'[d] = up[d] \/ \E q : NoAcks(q) /\ up'[d] = up[d] \o q
    BY <1>2, <2>1, HandlerSends
  <2> QED
    BY <1>1, <1>3, <2>1
<1> QED
  BY <1>1, <1>2, <1>3, <1>4, AckingsSent

LEMMA AcksUser ==
    ASSUME Inv, Linkings, Ackings, NEW c \in Channels, NEW kind \in PacketKinds, kind # "ack",
           UserSends(c, kind)
    PROVE  Ackings'
<1>1. /\ UNCHANGED <<ack, agent, server, wire, handled>> /\ SendAll(c, <<Packet(kind)>>)
  BY DEF UserSends
<1>2. NoAcks(<<Packet(kind)>>) /\ agent \in Int
  BY OnePacket DEF Packet, Ackings
<1>3. \A d \in Channels : sock'[d] = sock[d] \/ sock'[d] # "open"
  <2>1. \A d \in Channels : sock'[d] = sock[d] \/ (sock[d] # "none" /\ sock'[d] = "closed")
    BY <1>1, SendsAll DEF Inv, Framed
  <2> QED
    BY <2>1
<1>4. \A d \in Channels : up'[d] = up[d] \/ up'[d] = up[d] \o <<Packet(kind)>>
  BY <1>1 DEF SendAll, Linkings
<1> QED
  BY <1>1, <1>2, <1>3, <1>4, AckingsSent

LEMMA AckingsKept ==
    ASSUME Orderly, \A s \in Scopes : WindowSetOnce(s), Inv, Linkings, Ackings, [Next]_vars, ~ Garbled'
    PROVE  Ackings'
<1>1. Over' /\ Inv'
  BY OverKept, InvKept DEF Inv
<1>2. CASE UNCHANGED vars
  <2>1. UNCHANGED <<ack, agent, server, wire, handled, sock, up>>
    BY <1>2 DEF vars, client
  <2> QED
    BY <2>1, AckingsSent DEF Ackings
<1>3. ASSUME Disconnect PROVE Ackings'
  <2>1. UNCHANGED <<ack, agent, server, wire, handled, up>> /\ sock' = [c \in Channels |-> "closed"]
    BY <1>3 DEF Disconnect
  <2> QED
    BY <2>1, AckingsSent DEF Ackings
<1>4. ASSUME NEW c \in Channels, NEW k \in 1 .. Len(down[c]), Receives(c, k) PROVE Ackings'
  <2>1. UNCHANGED <<ack, agent, server, wire, handled, sock, up>>
    BY <1>4 DEF Receives
  <2> QED
    BY <2>1, AckingsSent DEF Ackings
<1>5. ASSUME Types \/ Resizes PROVE Ackings'
  <2>1. {"inputs", "main"} \subseteq Channels /\ {"key", "agentData"} \subseteq PacketKinds
    BY SessionAssumption DEF PacketKinds
  <2> QED
    BY <1>5, <2>1, AcksUser DEF Types, Resizes
<1>6. ASSUME NEW c \in Channels, Handles(c) PROVE Ackings'
  BY <1>1, <1>6, AcksTaking, AcksMessage DEF Handles
<1>7. ASSUME NEW c \in Channels, SocketCloses(c) \/ SocketFails(c) PROVE Ackings'
  BY <1>7, AcksLosing DEF SocketCloses, SocketFails
<1> QED
  BY <1>1, <1>2, <1>3, <1>4, <1>5, <1>6, <1>7, AcksOpening, AcksReading, AcksSending DEF Next, Protocol

\* The ACKs of spicechannel.js (getRawSpiceMessage, the handler of SET_ACK in
\* mainprocess.js) never leave the server with a wrong count: what it counts as
\* not acknowledged is what the client has counted, what is on its way and what
\* the ACKs on their way acknowledge, whatever the window and the messages, for
\* a server that sets it once, until a message is garbled.
THEOREM AcksAreCounted ==
    ASSUME Orderly, \A s \in Scopes : WindowSetOnce(s)
    PROVE  Spec => []AcksAgree
<1>1. Init => Inv /\ Linkings /\ Ackings
  BY InvInit, LinkingsInit, AckingsInit
<1>2. Inv /\ Linkings /\ (Garbled \/ Ackings) /\ [Next]_vars => (Inv /\ Linkings /\ (Garbled \/ Ackings))'
  BY InvKept, LinkingsKept, AckingsKept, GarbledStays
<1>3. Inv /\ (Garbled \/ Ackings) => AcksAgree
  <2>1. SUFFICES ASSUME Inv, Ackings, ~ Garbled, NEW c \in Channels, ack[c].window # 0, sock[c] = "open"
                 PROVE  server[c].unacked = ack[c].counter + Cardinality(OnTheWay(c))
                                                + Window * Count("ack", c)
    BY DEF AcksAgree
  <2> DEFINE h == Len(handled[c])
             total == Len(wire[c])
  <2>2. /\ server[c].unacked = ack[c].counter + (total - (h + 2)) + Window * AcksIn(up[c])
        /\ h + 2 <= total /\ h \in Nat /\ total \in Nat
    BY <2>1 DEF Ackings, Acking, Agreed, Inv, Framed, Served, Sending
  <2>3. Cardinality(OnTheWay(c)) = total - (h + 2)
    <3>1. OnTheWay(c) = h + 3 .. total
      BY <2>2 DEF OnTheWay, LinkAnswers
    <3>2. Cardinality(h + 3 .. total) = IF h + 3 > total THEN 0 ELSE total - (h + 3) + 1
      <4>1. h + 3 \in Int /\ total \in Int
        BY <2>2
      <4> HIDE DEF h, total
      <4> QED
        BY <4>1, FS_Interval
    <3> HIDE DEF h, total
    <3> QED
      BY <2>2, <3>1, <3>2
  <2>4. Count("ack", c) = AcksIn(up[c])
    BY DEF Count, AcksIn, HowMany, Places
  <2> QED
    BY <2>2, <2>3, <2>4
<1> QED
  BY <1>1, <1>2, <1>3, PTL DEF Spec
-----------------------------------------------------------------------------
(* The tokens of the agent.  The messages that start it are few: no other   *)
(* one is sent before the client's answer to the last has been read and the *)
(* agent heard.                                                             *)

\* The last word of the server on its agent is the start at m.
LastWord(W, m) == W[m] \in Starts /\ \A n \in m + 1 .. Len(W) : W[n] \notin Starts \cup {"agent"}

\* What the agent says and the client has not handled.
Spoken(W, h) == {n \in h + 3 .. Len(W) : W[n] = "agent"}

TokensAre(q) == \A i \in 1 .. Len(q) : q[i].kind = "tokens" => q[i].n = Tokens

\* A start that the client has handled is not read yet: what it says still holds.
StartsToRead(a, s, q, W, h) ==
    \A i \in 1 .. Len(q) : q[i].kind = "agentStart" =>
        /\ q[i].n = a /\ ~ s.started
        /\ \A j \in i + 1 .. Len(q) : q[j].kind \notin {"agentStart", "tokens"}
        /\ \E m \in 1 .. Len(W) : m <= h + 2 /\ LastWord(W, m)

\* A start is on its way to the client.
StartsToHandle(s, q, W, h) ==
    \A m \in h + 3 .. Len(W) : W[m] \in Starts =>
        /\ LastWord(W, m) /\ ~ s.started
        /\ \A i \in 1 .. Len(q) : q[i].kind # "agentStart"

Balanced(a, s, q, W, h) ==
    s.started => /\ \E m \in 1 .. Len(W) : W[m] \in Starts
                 /\ s.tokens + Tokens * HowMany(q, "tokens") + Cardinality(Spoken(W, h)) = a

Talk(a, s, q, W, h) ==
    /\ TokensAre(q)
    /\ StartsToRead(a, s, q, W, h)
    /\ StartsToHandle(s, q, W, h)
    /\ Balanced(a, s, q, W, h)

LEMMA SpokenFew ==
    ASSUME NEW W \in Seq(Kinds), NEW h \in Nat
    PROVE  IsFiniteSet(Spoken(W, h)) /\ Cardinality(Spoken(W, h)) \in Nat
<1>1. IsFiniteSet(h + 3 .. Len(W))
  BY FS_Interval
<1>2. Spoken(W, h) \subseteq h + 3 .. Len(W)
  BY DEF Spoken
<1> QED
  BY <1>1, <1>2, FS_Subset, FS_CardinalityType

\* Packets that are not about the agent's tokens may follow.
LEMMA TalkSent ==
    ASSUME NEW q \in Seq(Packets), NEW p \in Seq(Packets), NEW W \in Seq(Kinds), NEW h \in Nat,
           NEW a, NEW s, Talk(a, s, q, W, h),
           \A i \in 1 .. Len(p) : p[i].kind \notin {"agentStart", "tokens"}
    PROVE  Talk(a, s, q \o p, W, h)
<1> DEFINE j == q \o p
<1>1. /\ j \in Seq(Packets) /\ Len(j) = Len(q) + Len(p) /\ Len(q) \in Nat /\ Len(p) \in Nat
      /\ \A i \in 1 .. Len(q) : j[i] = q[i]
      /\ \A i \in 1 .. Len(j) : i > Len(q) => i - Len(q) \in 1 .. Len(p) /\ j[i] = p[i - Len(q)]
  BY JoinedPackets
<1>2. HowMany(j, "tokens") = HowMany(q, "tokens")
  <2>1. HowMany(p, "tokens") = 0 /\ HowMany(q, "tokens") \in Nat
    BY NoneOf, PlacesAreFew
  <2> QED
    BY <2>1, HowManyJoined
<1> HIDE DEF j
<1>3. ASSUME NEW i \in 1 .. Len(j), j[i].kind \in {"agentStart", "tokens"}
      PROVE  i \in 1 .. Len(q) /\ j[i] = q[i]
  <2>1. ~ (i > Len(q))
    BY <1>1, <1>3
  <2>2. i \in 1 .. Len(q)
    BY <1>1, <2>1
  <2> QED
    BY <1>1, <2>2
<1>4. TokensAre(j)
  BY <1>3 DEF Talk, TokensAre
<1>5. StartsToRead(a, s, j, W, h)
  <2>1. SUFFICES ASSUME NEW i \in 1 .. Len(j), j[i].kind = "agentStart"
                 PROVE  /\ j[i].n = a /\ ~ s.started
                        /\ \A k \in i + 1 .. Len(j) : j[k].kind \notin {"agentStart", "tokens"}
                        /\ \E m \in 1 .. Len(W) : m <= h + 2 /\ LastWord(W, m)
    BY DEF StartsToRead
  <2>2. i \in 1 .. Len(q) /\ j[i] = q[i]
    BY <1>3, <2>1
  <2>3. /\ q[i].n = a /\ ~ s.started
        /\ \A k \in i + 1 .. Len(q) : q[k].kind \notin {"agentStart", "tokens"}
        /\ \E m \in 1 .. Len(W) : m <= h + 2 /\ LastWord(W, m)
    BY <2>1, <2>2 DEF Talk, StartsToRead
  <2>4. ASSUME NEW k \in i + 1 .. Len(j) PROVE j[k].kind \notin {"agentStart", "tokens"}
    <3>1. SUFFICES ASSUME j[k].kind \in {"agentStart", "tokens"} PROVE FALSE
      OBVIOUS
    <3>2. k \in 1 .. Len(j)
      BY <1>1
    <3>3. k \in 1 .. Len(q) /\ j[k] = q[k]
      BY <1>3, <3>1, <3>2
    <3>4. k \in i + 1 .. Len(q)
      BY <1>1, <3>3
    <3> QED
      BY <2>3, <3>1, <3>3, <3>4
  <2> QED
    BY <2>2, <2>3, <2>4
<1>6. StartsToHandle(s, j, W, h)
  BY <1>3 DEF Talk, StartsToHandle
<1>7. Balanced(a, s, j, W, h)
  BY <1>2 DEF Talk, Balanced
<1> QED
  BY <1>4, <1>5, <1>6, <1>7 DEF Talk, j

\* The client handles a message that is not about the agent.
LEMMA TalkGoesOn ==
    ASSUME NEW q \in Seq(Packets), NEW W \in Seq(Kinds), NEW h \in Nat,
           NEW a, NEW s, Talk(a, s, q, W, h), W[h + 3] # "agent", W[h + 3] \notin Starts
    PROVE  Talk(a, s, q, W, h + 1)
<1>1. \A m \in h + 1 + 3 .. Len(W) : m \in h + 3 .. Len(W)
  OBVIOUS
<1>2. Spoken(W, h + 1) = Spoken(W, h)
  <2>1. \A m \in h + 3 .. Len(W) : m = h + 3 \/ m \in h + 1 + 3 .. Len(W)
    OBVIOUS
  <2> QED
    BY <1>1, <2>1 DEF Spoken
<1>3. StartsToRead(a, s, q, W, h + 1)
  <2>1. \A m \in 1 .. Len(W) : m <= h + 2 => m <= h + 1 + 2
    OBVIOUS
  <2> QED
    BY <2>1 DEF Talk, StartsToRead
<1>4. StartsToHandle(s, q, W, h + 1)
  BY <1>1 DEF Talk, StartsToHandle
<1> QED
  BY <1>2, <1>3, <1>4 DEF Talk, Balanced

\* The client handles a start and says how many tokens the server has.
LEMMA TalkAnswers ==
    ASSUME NEW q \in Seq(Packets), NEW W \in Seq(Kinds), NEW h \in Nat,
           NEW a \in Int, NEW s, Talk(a, s, q, W, h), h + 3 \in 1 .. Len(W), W[h + 3] \in Starts
    PROVE  Talk(a, s, Append(q, Granted("agentStart", a)), W, h + 1)
<1> DEFINE j == Append(q, Granted("agentStart", a))
<1>1. h + 3 \in h + 3 .. Len(W)
  OBVIOUS
<1>2. /\ LastWord(W, h + 3) /\ ~ s.started
      /\ \A i \in 1 .. Len(q) : q[i].kind # "agentStart"
  BY <1>1 DEF Talk, StartsToHandle
<1>3. /\ Len(j) = Len(q) + 1 /\ Len(q) \in Nat
      /\ j[Len(q) + 1].kind = "agentStart" /\ j[Len(q) + 1].n = a
      /\ \A i \in 1 .. Len(q) : j[i] = q[i]
      /\ \A i \in 1 .. Len(j) : i \in 1 .. Len(q) \/ i = Len(q) + 1
  BY DEF Granted
<1> HIDE DEF j
<1>4. TokensAre(j)
  BY <1>3 DEF Talk, TokensAre
<1>5. StartsToRead(a, s, j, W, h + 1)
  <2>1. SUFFICES ASSUME NEW i \in 1 .. Len(j), j[i].kind = "agentStart"
                 PROVE  /\ j[i].n = a
                        /\ \A k \in i + 1 .. Len(j) : j[k].kind \notin {"agentStart", "tokens"}
                        /\ \E m \in 1 .. Len(W) : m <= h + 1 + 2 /\ LastWord(W, m)
    BY <1>2 DEF StartsToRead
  <2>2. i = Len(q) + 1
    BY <1>2, <1>3, <2>1
  <2>3. i + 1 .. Len(j) = {}
    BY <1>3, <2>2
  <2>4. h + 3 <= h + 1 + 2
    OBVIOUS
  <2> QED
    BY <1>2, <1>3, <2>2, <2>3, <2>4
<1>6. StartsToHandle(s, j, W, h + 1)
  <2>1. \A m \in h + 1 + 3 .. Len(W) : m \in h + 3 + 1 .. Len(W)
    OBVIOUS
  <2>2. \A m \in h + 1 + 3 .. Len(W) : W[m] \notin Starts
    BY <1>2, <2>1 DEF LastWord
  <2> QED
    BY <2>2 DEF StartsToHandle
<1> QED
  BY <1>2, <1>4, <1>5, <1>6 DEF Talk, Balanced, j

\* The client handles what the agent says, and grants tokens at the last one.
LEMMA TalkHandled ==
    ASSUME NEW q \in Seq(Packets), NEW W \in Seq(Kinds), NEW h \in Nat,
           NEW a \in Int, NEW s, s.tokens \in Int, Talk(a, s, q, W, h),
           h + 3 \in 1 .. Len(W), W[h + 3] = "agent"
    PROVE  /\ Talk(a - 1, s, q, W, h + 1)
           /\ a = 1 => Talk(Tokens, s, Append(q, Granted("tokens", Tokens)), W, h + 1)
<1> DEFINE grant == Granted("tokens", Tokens)
           j == Append(q, grant)
<1>0. Tokens \in Nat \ {0} /\ "agent" \notin Starts
  BY SessionAssumption DEF Starts
<1>1. \A i \in 1 .. Len(q) : q[i].kind # "agentStart"
  <2>1. SUFFICES ASSUME NEW i \in 1 .. Len(q), q[i].kind = "agentStart" PROVE FALSE
    OBVIOUS
  <2>2. PICK m \in 1 .. Len(W) : m <= h + 2 /\ LastWord(W, m)
    BY <2>1 DEF Talk, StartsToRead
  <2>3. h + 3 \in m + 1 .. Len(W)
    BY <2>2
  <2> QED
    BY <2>2, <2>3 DEF LastWord
<1>2. Spoken(W, h) = Spoken(W, h + 1) \cup {h + 3} /\ h + 3 \notin Spoken(W, h + 1)
  <2>1. \A m : m \in h + 3 .. Len(W) <=> m = h + 3 \/ m \in h + 1 + 3 .. Len(W)
    OBVIOUS
  <2>2. h + 3 \notin h + 1 + 3 .. Len(W)
    OBVIOUS
  <2> QED
    BY <2>1, <2>2 DEF Spoken
<1>3. /\ Cardinality(Spoken(W, h)) = Cardinality(Spoken(W, h + 1)) + 1
      /\ Cardinality(Spoken(W, h + 1)) \in Nat
  <2>1. IsFiniteSet(Spoken(W, h + 1)) /\ Cardinality(Spoken(W, h + 1)) \in Nat
    <3>1. h + 1 \in Nat
      OBVIOUS
    <3> QED
      BY <3>1, SpokenFew
  <2> QED
    BY <1>2, <2>1, FS_AddElement
<1>4. HowMany(q, "tokens") \in Nat
  BY PlacesAreFew
<1>5. grant \in Packets /\ grant.kind = "tokens" /\ grant.n = Tokens
  BY <1>0 DEF Granted, Packets, PacketKinds
<1> HIDE DEF grant
<1>6. HowMany(j, "tokens") = HowMany(q, "tokens") + 1
  <2> DEFINE g == <<grant>>
  <2>1. j = q \o g
    BY <1>5
  <2>2. g \in Seq(Packets) /\ HowMany(g, "tokens") = 1
    BY <1>5, OnlyOne
  <2> HIDE DEF g, j
  <2>3. HowMany(q \o g, "tokens") = HowMany(q, "tokens") + HowMany(g, "tokens")
    BY <2>2, HowManyJoined
  <2> QED
    BY <2>1, <2>2, <2>3
<1>7. /\ Len(j) = Len(q) + 1 /\ Len(q) \in Nat /\ j[Len(q) + 1] = grant
      /\ \A i \in 1 .. Len(q) : j[i] = q[i]
      /\ \A i \in 1 .. Len(j) : i \in 1 .. Len(q) \/ i = Len(q) + 1
  BY <1>5
<1> HIDE DEF j
<1>8. \A i \in 1 .. Len(j) : j[i].kind # "agentStart"
  BY <1>1, <1>5, <1>7
<1>9. TokensAre(q) /\ TokensAre(j)
  BY <1>5, <1>7 DEF Talk, TokensAre
<1>10. \A x : StartsToRead(x, s, q, W, h + 1) /\ StartsToRead(x, s, j, W, h + 1)
  BY <1>1, <1>8 DEF StartsToRead
<1>11. StartsToHandle(s, q, W, h + 1) /\ StartsToHandle(s, j, W, h + 1)
  <2>1. \A m \in h + 1 + 3 .. Len(W) : m \in h + 3 .. Len(W)
    OBVIOUS
  <2> QED
    BY <1>1, <1>8, <2>1 DEF Talk, StartsToHandle
<1>12. s.started =>
         /\ \E m \in 1 .. Len(W) : W[m] \in Starts
         /\ s.tokens + Tokens * HowMany(q, "tokens") + Cardinality(Spoken(W, h)) = a
  BY DEF Talk, Balanced
<1> DEFINE k == HowMany(q, "tokens")
           left == Cardinality(Spoken(W, h + 1))
<1>13. Tokens * (k + 1) = Tokens * k + Tokens /\ Tokens * k \in Int
  BY <1>0, <1>4
<1>14. s.started => s.tokens + Tokens * k + left = a - 1
  <2>1. s.started => s.tokens + Tokens * k + (left + 1) = a
    BY <1>3, <1>12
  <2>2. left \in Nat
    BY <1>3
  <2> HIDE DEF left, k
  <2> QED
    BY SMTT(30), <1>13, <2>1, <2>2
<1>15. Balanced(a - 1, s, q, W, h + 1)
  BY <1>12, <1>14 DEF Balanced
<1>16. a = 1 => Balanced(Tokens, s, j, W, h + 1)
  <2>1. a = 1 /\ s.started => s.tokens + Tokens * HowMany(j, "tokens") + left = Tokens
    <3>1. left \in Nat /\ HowMany(j, "tokens") = k + 1
      BY <1>3, <1>6
    <3> HIDE DEF left, k
    <3> QED
      BY <1>0, <1>13, <1>14, <3>1
  <2> QED
    BY <1>12, <2>1 DEF Balanced
<1> QED
  BY <1>9, <1>10, <1>11, <1>15, <1>16 DEF Talk, j, grant

\* The server reads a packet: a start, a grant, or another.
LEMMA TalkRead ==
    ASSUME NEW q \in Seq(Packets), q # <<>>, NEW W \in Seq(Kinds), NEW h \in Nat,
           NEW a \in Int, NEW s, NEW t, s.tokens \in Int, Talk(a, s, q, W, h),
           \/ /\ Head(q).kind = "agentStart" /\ t.tokens = Head(q).n
           \/ /\ Head(q).kind = "tokens" /\ t.tokens = s.tokens + Head(q).n
              /\ t.started = s.started
           \/ /\ s.started => Head(q).kind # "tokens"
              /\ t.tokens = s.tokens /\ t.started = s.started
    PROVE  Talk(a, t, Tail(q), W, h)
<1> DEFINE x == Head(q)
           p == Tail(q)
<1>1. /\ p \in Seq(Packets) /\ x = q[1] /\ Len(p) = Len(q) - 1 /\ Len(q) \in Nat \ {0}
      /\ \A i \in 1 .. Len(p) : i + 1 \in 1 .. Len(q) /\ p[i] = q[i + 1]
      /\ 1 \in 1 .. Len(q)
  OBVIOUS
<1>2. /\ HowMany(q, "tokens") = HowMany(p, "tokens") + (IF x.kind = "tokens" THEN 1 ELSE 0)
      /\ HowMany(p, "tokens") \in Nat
  BY <1>1, FirstOut, PlacesAreFew
<1> HIDE DEF x, p
<1>3. TokensAre(p) /\ (x.kind = "tokens" => x.n = Tokens)
  BY <1>1 DEF Talk, TokensAre
<1>4. CASE x.kind = "agentStart"
  <2>1. /\ x.n = a /\ ~ s.started
        /\ \A j \in 1 + 1 .. Len(q) : q[j].kind \notin {"agentStart", "tokens"}
        /\ \E m \in 1 .. Len(W) : m <= h + 2 /\ LastWord(W, m)
    BY <1>1, <1>4 DEF Talk, StartsToRead
  <2>2. \A i \in 1 .. Len(p) : p[i].kind \notin {"agentStart", "tokens"}
    <3>1. \A i \in 1 .. Len(p) : i + 1 \in 1 + 1 .. Len(q)
      BY <1>1
    <3> QED
      BY <1>1, <2>1, <3>1
  <2>3. PICK m \in 1 .. Len(W) : m <= h + 2 /\ LastWord(W, m)
    BY <2>1
  <2>4. \A k \in h + 3 .. Len(W) : W[k] \notin Starts \cup {"agent"}
    <3>1. \A k \in h + 3 .. Len(W) : k \in m + 1 .. Len(W)
      BY <2>3
    <3> QED
      BY <2>3, <3>1 DEF LastWord
  <2>5. StartsToRead(a, t, p, W, h)
    BY <2>2 DEF StartsToRead
  <2>6. StartsToHandle(t, p, W, h)
    BY <2>4 DEF StartsToHandle
  <2>7. Cardinality(Spoken(W, h)) = 0
    <3>1. Spoken(W, h) = {}
      BY <2>4 DEF Spoken
    <3> QED
      BY <3>1, FS_EmptySet
  <2>8. HowMany(p, "tokens") = 0
    BY <1>1, <2>2, NoneOf
  <2>9. Balanced(a, t, p, W, h)
    <3>1. t.tokens = a \/ (t.started = s.started)
      BY <1>4, <2>1 DEF x
    <3>2. \E k \in 1 .. Len(W) : W[k] \in Starts
      BY <2>3 DEF LastWord
    <3>3. t.tokens = a => t.tokens + Tokens * 0 + 0 = a
      BY SessionAssumption
    <3> QED
      BY <2>1, <2>7, <2>8, <3>1, <3>2, <3>3 DEF Balanced
  <2> QED
    BY <1>3, <2>5, <2>6, <2>9 DEF Talk, p
<1>5. CASE x.kind # "agentStart"
  <2>1. t.started = s.started
    BY <1>5 DEF x
  <2>2. StartsToRead(a, t, p, W, h)
    <3>1. SUFFICES ASSUME NEW i \in 1 .. Len(p), p[i].kind = "agentStart"
                   PROVE  /\ p[i].n = a /\ ~ t.started
                          /\ \A j \in i + 1 .. Len(p) : p[j].kind \notin {"agentStart", "tokens"}
                          /\ \E m \in 1 .. Len(W) : m <= h + 2 /\ LastWord(W, m)
      BY DEF StartsToRead
    <3>2. i + 1 \in 1 .. Len(q) /\ p[i] = q[i + 1]
      BY <1>1
    <3>3. /\ q[i + 1].n = a /\ ~ s.started
          /\ \A j \in (i + 1) + 1 .. Len(q) : q[j].kind \notin {"agentStart", "tokens"}
          /\ \E m \in 1 .. Len(W) : m <= h + 2 /\ LastWord(W, m)
      BY <3>1, <3>2 DEF Talk, StartsToRead
    <3>4. \A j \in i + 1 .. Len(p) : j + 1 \in (i + 1) + 1 .. Len(q) /\ j \in 1 .. Len(p)
      BY <1>1
    <3>5. \A j \in i + 1 .. Len(p) : p[j].kind \notin {"agentStart", "tokens"}
      BY <1>1, <3>3, <3>4
    <3> QED
      BY <2>1, <3>2, <3>3, <3>5
  <2>3. StartsToHandle(t, p, W, h)
    <3>1. \A i \in 1 .. Len(p) : p[i] = q[i + 1] /\ i + 1 \in 1 .. Len(q)
      BY <1>1
    <3> QED
      BY <2>1, <3>1 DEF Talk, StartsToHandle
  <2>4. Balanced(a, t, p, W, h)
    <3> DEFINE k == HowMany(p, "tokens")
               left == Cardinality(Spoken(W, h))
    <3>1. SUFFICES ASSUME s.started PROVE /\ \E m \in 1 .. Len(W) : W[m] \in Starts
                                          /\ t.tokens + Tokens * k + left = a
      BY <2>1 DEF Balanced
    <3>2. /\ \E m \in 1 .. Len(W) : W[m] \in Starts
          /\ s.tokens + Tokens * HowMany(q, "tokens") + left = a
      BY <3>1 DEF Talk, Balanced
    <3>3. k \in Nat /\ left \in Nat /\ Tokens \in Nat
      BY <1>2, SpokenFew, SessionAssumption
    <3>4. CASE x.kind = "tokens"
      <4>1. t.tokens = s.tokens + Tokens
        BY <1>3, <3>1, <3>4 DEF x
      <4>2. HowMany(q, "tokens") = k + 1
        BY <1>2, <3>4
      <4>3. s.tokens + Tokens * (k + 1) + left = a
        BY <3>2, <4>2
      <4> HIDE DEF k, left
      <4>4. Tokens * (k + 1) = Tokens * k + Tokens /\ Tokens * k \in Int
        BY <3>3
      <4>5. t.tokens + Tokens * k + left = a
        BY <3>3, <4>1, <4>3, <4>4
      <4> QED
        BY <3>2, <4>5
    <3>5. CASE x.kind # "tokens"
      <4>1. t.tokens = s.tokens
        BY <1>5, <3>5 DEF x
      <4>2. HowMany(q, "tokens") = k
        BY <1>2, <3>5
      <4> QED
        BY <3>2, <4>1, <4>2
    <3> QED
      BY <3>4, <3>5
  <2> QED
    BY <1>3, <2>2, <2>3, <2>4 DEF Talk, p
<1> QED
  BY <1>4, <1>5

\* The server sends a message that is not about the agent.
LEMMA TalkGrows ==
    ASSUME NEW q, NEW W \in Seq(Kinds), NEW h \in Nat, NEW a, NEW s, Talk(a, s, q, W, h),
           NEW kind \in Kinds, kind # "agent", kind \notin Starts, NEW t,
           t.tokens = s.tokens, t.started = s.started
    PROVE  Talk(a, t, q, Append(W, kind), h)
<1> DEFINE V == Append(W, kind)
<1>1. /\ Len(V) = Len(W) + 1 /\ Len(W) \in Nat /\ V[Len(W) + 1] = kind
      /\ \A i \in 1 .. Len(W) : V[i] = W[i]
      /\ \A i \in 1 .. Len(V) : i \in 1 .. Len(W) \/ i = Len(W) + 1
      /\ \A i \in 1 .. Len(W) : i \in 1 .. Len(V)
  OBVIOUS
<1> HIDE DEF V
<1>2. ASSUME NEW m \in 1 .. Len(W), LastWord(W, m) PROVE LastWord(V, m)
  <2>1. ASSUME NEW n \in m + 1 .. Len(V) PROVE V[n] \notin Starts \cup {"agent"}
    <3>1. CASE n = Len(W) + 1
      BY <1>1, <3>1
    <3>2. CASE n # Len(W) + 1
      <4>1. n \in m + 1 .. Len(W) /\ n \in 1 .. Len(W)
        BY <1>1, <3>2
      <4> QED
        BY <1>1, <1>2, <4>1 DEF LastWord
    <3> QED
      BY <3>1, <3>2
  <2> QED
    BY <1>1, <1>2, <2>1 DEF LastWord
<1>3. ASSUME NEW m \in h + 3 .. Len(V), V[m] \in Starts \cup {"agent"}
      PROVE  m \in 1 .. Len(W) /\ m \in h + 3 .. Len(W) /\ V[m] = W[m]
  <2>1. m # Len(W) + 1
    BY <1>1, <1>3
  <2>2. m \in 1 .. Len(W) /\ m \in h + 3 .. Len(W)
    BY <1>1, <2>1
  <2> QED
    BY <1>1, <2>2
<1>4. \A m \in h + 3 .. Len(W) : m \in h + 3 .. Len(V) /\ m \in 1 .. Len(W)
  BY <1>1
<1>5. Spoken(V, h) = Spoken(W, h)
  BY <1>1, <1>3, <1>4 DEF Spoken
<1>6. StartsToRead(a, t, q, V, h)
  <2>1. \A m \in 1 .. Len(W) : LastWord(W, m) => m \in 1 .. Len(V) /\ LastWord(V, m)
    BY <1>1, <1>2
  <2> QED
    BY <2>1 DEF Talk, StartsToRead
<1>7. StartsToHandle(t, q, V, h)
  <2>1. ASSUME NEW m \in h + 3 .. Len(V), V[m] \in Starts
        PROVE  LastWord(V, m) /\ ~ s.started /\ \A i \in 1 .. Len(q) : q[i].kind # "agentStart"
    BY <1>2, <1>3, <2>1 DEF Talk, StartsToHandle
  <2> QED
    BY <2>1 DEF StartsToHandle
<1>8. Balanced(a, t, q, V, h)
  <2>1. (\E m \in 1 .. Len(W) : W[m] \in Starts) => \E m \in 1 .. Len(V) : V[m] \in Starts
    BY <1>1
  <2> QED
    BY <1>5, <2>1 DEF Talk, Balanced
<1> QED
  BY <1>6, <1>7, <1>8 DEF Talk, V

\* The server sends what the agent says, at the price of a token.
LEMMA TalkSpeaks ==
    ASSUME NEW q, NEW W \in Seq(Kinds), NEW h \in Nat, NEW a, NEW s, Talk(a, s, q, W, h),
           s.tokens \in Int, a \in Int, h + 2 <= Len(W), q \in Seq(Packets),
           NEW t, t.tokens = s.tokens - 1
    PROVE  s.started => Talk(a, t, q, Append(W, "agent"), h)
<1> DEFINE V == Append(W, "agent")
<1>a. SUFFICES ASSUME s.started PROVE Talk(a, t, q, V, h)
  OBVIOUS
<1>0. "agent" \notin Starts
  BY DEF Starts
<1>1. /\ Len(V) = Len(W) + 1 /\ Len(W) \in Nat /\ V[Len(W) + 1] = "agent"
      /\ \A i \in 1 .. Len(W) : V[i] = W[i]
      /\ \A i \in 1 .. Len(W) : i \in 1 .. Len(V)
  OBVIOUS
<1> HIDE DEF V
<1>2. \A i \in 1 .. Len(q) : q[i].kind # "agentStart"
  BY <1>a DEF Talk, StartsToRead
<1>3. \A m \in h + 3 .. Len(W) : W[m] \notin Starts
  BY <1>a DEF Talk, StartsToHandle
<1>4. ASSUME NEW m PROVE m \in h + 3 .. Len(V) <=> m \in h + 3 .. Len(W) \/ m = Len(W) + 1
  <2>1. Len(V) = Len(W) + 1 /\ Len(W) \in Nat /\ h + 2 <= Len(W)
    BY <1>1
  <2>2. h + 3 .. Len(W) + 1 = (h + 3 .. Len(W)) \cup {Len(W) + 1}
    BY SMTT(30), <2>1
  <2> QED
    BY <2>1, <2>2
<1>5. \A m \in h + 3 .. Len(W) : m \in 1 .. Len(W)
  BY <1>1
<1>6. StartsToRead(a, t, q, V, h)
  BY <1>2 DEF StartsToRead
<1>7. StartsToHandle(t, q, V, h)
  <2>1. \A m \in h + 3 .. Len(V) : V[m] \notin Starts
    BY <1>0, <1>1, <1>3, <1>4, <1>5
  <2> QED
    BY <2>1 DEF StartsToHandle
<1>8. Cardinality(Spoken(V, h)) = Cardinality(Spoken(W, h)) + 1 /\ Cardinality(Spoken(W, h)) \in Nat
  <2>1. Spoken(V, h) = Spoken(W, h) \cup {Len(W) + 1}
    BY <1>1, <1>4, <1>5 DEF Spoken
  <2>2. Len(W) + 1 \notin Spoken(W, h)
    BY <1>1 DEF Spoken
  <2>3. IsFiniteSet(Spoken(W, h)) /\ Cardinality(Spoken(W, h)) \in Nat
    BY SpokenFew
  <2> QED
    BY <2>1, <2>2, <2>3, FS_AddElement
<1>9. Balanced(a, t, q, V, h)
  <2> DEFINE k == Tokens * HowMany(q, "tokens")
             left == Cardinality(Spoken(W, h))
  <2>1. k \in Int
    BY PlacesAreFew, SessionAssumption
  <2>2. (\E m \in 1 .. Len(W) : W[m] \in Starts) /\ s.tokens + k + left = a
    BY <1>a DEF Talk, Balanced
  <2>3. \E m \in 1 .. Len(V) : V[m] \in Starts
    BY <1>1, <2>2
  <2>4. t.tokens + k + Cardinality(Spoken(V, h)) = a
    <3>1. left \in Nat /\ Cardinality(Spoken(V, h)) = left + 1
      BY <1>8
    <3>2. s.tokens + k + left = a /\ t.tokens = s.tokens - 1 /\ s.tokens \in Int
      BY <2>2
    <3> HIDE DEF left, k
    <3>3. \A x, y \in Int, z \in Nat : x + y + z = a => (x - 1) + y + (z + 1) = a
      OBVIOUS
    <3>4. (s.tokens - 1) + k + (left + 1) = a
      BY <2>1, <3>1, <3>2, <3>3
    <3> QED
      BY <3>1, <3>2, <3>4
  <2> QED
    BY <2>3, <2>4 DEF Balanced
<1> QED
  BY <1>6, <1>7, <1>9 DEF Talk, V

\* The server starts its agent: it was quiet, or the last one has been heard.
LEMMA TalkStarts ==
    ASSUME NEW q, NEW W \in Seq(Kinds), NEW h \in Nat, NEW a, NEW s, Talk(a, s, q, W, h),
           NEW kind \in Starts,
           \A m \in 1 .. Len(W) : W[m] \in Starts =>
               kind = "agentUp" /\ \E n \in m + 1 .. Len(W) : W[n] = "agent",
           NEW t, IF kind = "agentUp" THEN ~ t.started ELSE t.started = s.started
    PROVE  Talk(a, t, q, Append(W, kind), h)
<1> DEFINE V == Append(W, kind)
<1>0. kind \in Kinds /\ kind \in {"init", "agentUp"}
  BY DEF Starts, Kinds
<1>1. /\ Len(V) = Len(W) + 1 /\ Len(W) \in Nat /\ V[Len(W) + 1] = kind
      /\ \A i \in 1 .. Len(W) : V[i] = W[i]
  BY <1>0
<1> HIDE DEF V
<1>2. \A m \in 1 .. Len(W) : ~ LastWord(W, m)
  BY DEF LastWord
<1>3. \A i \in 1 .. Len(q) : q[i].kind # "agentStart"
  BY <1>2 DEF Talk, StartsToRead
<1>4. \A m \in h + 3 .. Len(W) : m \in 1 .. Len(W)
  BY <1>1
<1>5. \A m \in h + 3 .. Len(W) : W[m] \notin Starts
  BY <1>2, <1>4 DEF Talk, StartsToHandle
<1>6. ~ t.started
  <2>1. CASE kind = "agentUp"
    BY <2>1
  <2>2. CASE kind # "agentUp"
    <3>1. ~ \E m \in 1 .. Len(W) : W[m] \in Starts
      BY <2>2
    <3>2. ~ s.started
      BY <3>1 DEF Talk, Balanced
    <3> QED
      BY <2>2, <3>2
  <2> QED
    BY <2>1, <2>2
<1>7. LastWord(V, Len(W) + 1)
  <2>1. Len(W) + 1 + 1 .. Len(V) = {}
    BY <1>1
  <2> QED
    BY <1>1, <2>1 DEF LastWord
<1>8. StartsToRead(a, t, q, V, h)
  BY <1>3 DEF StartsToRead
<1>9. StartsToHandle(t, q, V, h)
  <2>1. ASSUME NEW m \in h + 3 .. Len(V), V[m] \in Starts PROVE m = Len(W) + 1
    <3>1. SUFFICES ASSUME m # Len(W) + 1 PROVE FALSE
      OBVIOUS
    <3>2. m \in h + 3 .. Len(W)
      BY <1>1, <3>1
    <3> QED
      BY <1>1, <1>4, <1>5, <2>1, <3>2
  <2> QED
    BY <1>3, <1>6, <1>7, <2>1 DEF StartsToHandle
<1> QED
  BY <1>6, <1>8, <1>9 DEF Talk, Balanced, V

\* What is sent that is not about the agent's tokens.
Plain(p) == p \in Seq(Packets) /\ \A i \in 1 .. Len(p) : p[i].kind \notin {"agentStart", "tokens"}

LEMMA PlainOnes ==
    /\ Plain(<<>>)
    /\ \A kind \in PacketKinds \ {"agentStart", "tokens"} : Plain(<<Packet(kind)>>)
<1>1. Plain(<<>>)
  BY DEF Plain
<1>2. ASSUME NEW kind \in PacketKinds \ {"agentStart", "tokens"} PROVE Plain(<<Packet(kind)>>)
  <2> DEFINE x == Packet(kind)
  <2>1. x \in Packets /\ x.kind \notin {"agentStart", "tokens"}
    BY DEF Packet, Packets
  <2> HIDE DEF x
  <2>2. Plain(<<x>>)
    BY <2>1 DEF Plain
  <2> QED
    BY <2>2 DEF x
<1> QED
  BY <1>1, <1>2

LEMMA PlainBoth ==
    ASSUME NEW p, NEW q, Plain(p), Plain(q)
    PROVE  Plain(p \o q)
<1> DEFINE j == p \o q
<1>1. /\ p \in Seq(Packets) /\ q \in Seq(Packets)
      /\ \A i \in 1 .. Len(p) : p[i].kind \notin {"agentStart", "tokens"}
      /\ \A i \in 1 .. Len(q) : q[i].kind \notin {"agentStart", "tokens"}
  BY DEF Plain
<1>2. /\ j \in Seq(Packets) /\ Len(j) = Len(p) + Len(q)
      /\ \A i \in 1 .. Len(p) : j[i] = p[i]
      /\ \A i \in 1 .. Len(j) : i > Len(p) => i - Len(p) \in 1 .. Len(q) /\ j[i] = q[i - Len(p)]
  BY <1>1, JoinedPackets
<1> HIDE DEF j
<1>3. ASSUME NEW i \in 1 .. Len(j) PROVE j[i].kind \notin {"agentStart", "tokens"}
  <2>1. i \in 1 .. Len(p) \/ i > Len(p)
    BY <1>1
  <2> QED
    BY <1>1, <1>2, <2>1
<1> QED
  BY <1>2, <1>3 DEF Plain, j

\* Most of what a handler sends.
LEMMA PlainAnswers ==
    ASSUME NEW c \in Channels, NEW kind, kind \notin Starts, kind # "agent"
    PROVE  Plain(AfterLink(c)) /\ Plain(AckPackets(c)) /\ Plain(Answer(c, kind))
<1>1. \A k \in {"key", "displayInit", "attachChannels", "ackSync", "pong", "mouseMode", "ack"} :
         Plain(<<Packet(k)>>)
  BY PlainOnes DEF PacketKinds
<1>2. Plain(<<>>)
  BY PlainOnes
<1>3. Plain(AfterLink(c))
  <2>1. CASE c = "display"
    BY <1>1, <2>1 DEF AfterLink
  <2>2. CASE c = "main"
    BY <1>1, <2>2 DEF AfterLink
  <2>3. CASE c = "inputs"
    BY <1>1, <2>3 DEF AfterLink
  <2>4. CASE c \notin {"display", "main", "inputs"}
    BY <1>2, <2>4 DEF AfterLink
  <2> QED
    BY <2>1, <2>2, <2>3, <2>4
<1>4. Plain(AckPackets(c))
  BY <1>1, <1>2 DEF AckPackets
<1>5. Plain(Answer(c, kind))
  <2>1. CASE kind = "setAck"
    BY <1>1, <2>1 DEF Answer, Starts
  <2>2. CASE kind = "ping"
    BY <1>1, <2>2 DEF Answer, Starts
  <2>3. CASE kind = "initAlone"
    BY <1>1, <2>3 DEF Answer, Starts
  <2>4. CASE kind \notin {"setAck", "ping", "initAlone"}
    BY <1>2, <2>4 DEF Answer
  <2> QED
    BY <2>1, <2>2, <2>3, <2>4
<1> QED
  BY <1>3, <1>4, <1>5

Talking ==
    LET s == server["main"]
    IN  /\ {"state", "tokens", "started"} \subseteq DOMAIN s
        /\ s.tokens \in Int /\ agent \in 1 .. Tokens
        /\ s.started => s.state = "up"
        /\ up["main"] \in Seq(Packets)
        /\ sock["main"] = "open" =>
              Talk(agent, s, up["main"], wire["main"], Len(handled["main"]))

LEMMA MainIs ==
    ASSUME Inv, Talking
    PROVE  /\ "main" \in Channels /\ Tokens \in Nat \ {0}
           /\ up["main"] \in Seq(Packets) /\ wire["main"] \in Seq(Kinds)
           /\ Len(handled["main"]) \in Nat /\ handled["main"] \in Seq(Nat)
           /\ Sending(server["main"], wire["main"], scope.scripts["main"]) /\ scope \in Scopes
<1>1. "main" \in Channels /\ Tokens \in Nat \ {0}
  BY SessionAssumption
<1>2. handled["main"] \in Seq(Nat)
  BY <1>1 DEF Inv, Framed
<1> QED
  BY <1>1, <1>2 DEF Inv, Framed, Served, Sending, Talking

\* Plain packets may follow on the main channel, and its socket may close.
LEMMA TalkingSent ==
    ASSUME Inv, Talking, agent' = agent, server'["main"] = server["main"],
           wire'["main"] = wire["main"], handled'["main"] = handled["main"],
           sock'["main"] = sock["main"] \/ sock'["main"] # "open",
           up'["main"] = up["main"] \/ \E p : Plain(p) /\ up'["main"] = up["main"] \o p
    PROVE  Talking'
<1> DEFINE says(q) == Talk(agent, server["main"], q, wire["main"], Len(handled["main"]))
<1>1. ASSUME NEW p, Plain(p), says(up["main"]) PROVE says(up["main"] \o p)
  <2>1. p \in Seq(Packets) /\ \A i \in 1 .. Len(p) : p[i].kind \notin {"agentStart", "tokens"}
    BY <1>1 DEF Plain
  <2> QED
    BY <1>1, <2>1, MainIs, TalkSent
<1>2. sock'["main"] = "open" => says(up'["main"])
  <2>1. sock'["main"] = "open" => says(up["main"])
    BY DEF Talking
  <2> HIDE DEF says
  <2> QED
    BY <1>1, <2>1
<1>3. up'["main"] \in Seq(Packets)
  <2>1. up["main"] \in Seq(Packets)
    BY DEF Talking
  <2>2. ASSUME NEW p, Plain(p) PROVE up["main"] \o p \in Seq(Packets)
    BY <2>1, <2>2 DEF Plain
  <2> QED
    BY <2>1, <2>2
<1> QED
  BY <1>2, <1>3 DEF Talking

\* The agent is not spoken of on the other channels.
LEMMA OtherKinds ==
    ASSUME Inv, \A s \in Scopes : AgentHeard(s), NEW c \in Channels, c # "main",
           NEW i \in 3 .. Len(wire[c])
    PROVE  wire[c][i] # "agent" /\ wire[c][i] \notin Starts
<1>1. Sending(server[c], wire[c], scope.scripts[c]) /\ scope \in Scopes
  BY DEF Inv, Framed, Served
<1>2. i - 2 \in 1 .. Len(scope.scripts[c]) /\ wire[c][i] = scope.scripts[c][i - 2]
  BY <1>1 DEF Sending
<1> QED
  BY <1>1, <1>2 DEF AgentHeard

\* A message on another channel is not about the agent.
LEMMA TalkingElsewhere ==
    ASSUME Inv, Orderly, Linkings, Talking, \A s \in Scopes : AgentHeard(s),
           NEW c \in Channels, c # "main", MessageTaken(c), ~ Garbled', Over'
    PROVE  Talking'
<1> DEFINE n == Complete(rx[c])
           kind == IF n = 0 THEN "garbled" ELSE KindOf(c, n)
<1>1. /\ Takes(c, 0) /\ rx[c].phase = "body"
      /\ handled' = [handled EXCEPT ![c] = Append(@, n)]
      /\ agent' = IF kind = "agent" THEN AgentData[1] ELSE agent
      /\ \/ up' = [up EXCEPT ![c] = @ \o AckPackets(c)]
         \/ SendAll(c, AckPackets(c) \o Answer(c, kind))
  BY DEF MessageTaken
<1>2. /\ sock[c] = "open" /\ UNCHANGED <<server, wire>>
      /\ n = Len(handled[c]) + 3 /\ n \in 1 .. Len(wire[c]) /\ Len(handled[c]) \in Nat
  <2>1. /\ sock[c] = "open" /\ UNCHANGED <<server, wire>> /\ Ready(rx[c])
        /\ Streaming(rx[c], down[c], wire[c], Len(handled[c]), CutOf(c))
    BY <1>1, TakesWhat
  <2>2. n = Len(handled[c]) + 3 /\ Len(handled[c]) + 3 \in 1 .. Len(wire[c])
    BY <1>1, <2>1, MessageStreams, NotGarbled
  <2>3. Len(handled[c]) \in Nat
    BY <2>1 DEF Streaming
  <2> QED
    BY <2>1, <2>2, <2>3
<1>3. kind # "agent"
  <2>1. n # 0 /\ n \in 3 .. Len(wire[c])
    BY <1>2
  <2> HIDE DEF n
  <2> QED
    BY <2>1, OtherKinds DEF KindOf
<1> HIDE DEF n, kind
<1>4. up'["main"] = up["main"] /\ handled'["main"] = handled["main"]
  BY <1>1, <1>2, SessionAssumption, HandlerSends DEF Linkings, Inv, Framed
<1>5. sock'["main"] = sock["main"] \/ sock'["main"] # "open"
  <2>1. \A d \in Channels : sock'[d] = sock[d] \/ (sock[d] = "none" /\ sock'[d] = "connecting")
    BY MessageKeeps
  <2> QED
    BY <2>1, SessionAssumption
<1> QED
  BY <1>1, <1>2, <1>3, <1>4, <1>5, TalkingSent

\* A message on the main channel.
LEMMA TalkingMessage ==
    ASSUME Inv, Orderly, Linkings, Talking, MessageTaken("main"), ~ Garbled', Over'
    PROVE  Talking'
<1> DEFINE n == Complete(rx["main"])
           kind == IF n = 0 THEN "garbled" ELSE KindOf("main", n)
           h == Len(handled["main"])
           W == wire["main"]
           q == up["main"]
           s == server["main"]
           acks == AckPackets("main")
<1>0. "main" \in Channels /\ Tokens \in Nat \ {0} /\ q \in Seq(Packets) /\ W \in Seq(Kinds)
      /\ h \in Nat /\ handled["main"] \in Seq(Nat)
  BY MainIs
<1>1. /\ Takes("main", 0) /\ rx["main"].phase = "body"
      /\ handled' = [handled EXCEPT !["main"] = Append(@, n)]
      /\ agent' = IF kind = "agent" THEN AgentData[1] ELSE agent
      /\ \/ kind = "list" /\ up' = [up EXCEPT !["main"] = @ \o acks]
         \/ SendAll("main", acks \o Answer("main", kind))
  BY DEF MessageTaken
<1>2. /\ sock["main"] = "open" /\ UNCHANGED <<server, wire>>
      /\ n = h + 3 /\ h + 3 \in 1 .. Len(W)
  <2>1. /\ sock["main"] = "open" /\ UNCHANGED <<server, wire>> /\ Ready(rx["main"])
        /\ Streaming(rx["main"], down["main"], W, h, CutOf("main"))
    BY <1>0, <1>1, TakesWhat
  <2>2. n # 0
    BY <1>0, NotGarbled
  <2> QED
    BY <1>1, <2>1, <2>2, MessageStreams
<1>3. kind = W[h + 3]
  <2>1. n # 0
    BY <1>0, <1>2
  <2> QED
    BY <1>2, <2>1 DEF KindOf
<1>4. /\ {"state", "tokens", "started"} \subseteq DOMAIN s /\ s.tokens \in Int
      /\ agent \in 1 .. Tokens /\ agent \in Int /\ (s.started => s.state = "up")
      /\ Talk(agent, s, q, W, h)
  BY <1>2 DEF Talking
<1> HIDE DEF n, kind, s, W, q
<1>5. Len(handled'["main"]) = h + 1
  BY <1>0, <1>1, <1>2 DEF Inv, Framed
<1>6. \/ kind = "list" /\ up'["main"] = q \o acks
      \/ up'["main"] = q \o (acks \o Answer("main", kind))
  BY <1>0, <1>1, <1>2, HandlerSends DEF Linkings, q
<1> HIDE DEF h, acks
<1>7. Plain(acks) /\ acks \in Seq(Packets)
  <2>1. "ping" \notin Starts
    BY DEF Starts
  <2>2. Plain(acks)
    BY <1>0, <2>1, PlainAnswers DEF acks
  <2> QED
    BY <2>2 DEF Plain
<1>8. q \o acks \in Seq(Packets) /\ Talk(agent, s, q \o acks, W, h)
  <2>1. \A i \in 1 .. Len(acks) : acks[i].kind \notin {"agentStart", "tokens"}
    BY <1>7 DEF Plain
  <2>2. q \o acks \in Seq(Packets)
    BY <1>0, <1>7
  <2> QED
    BY <1>0, <1>4, <1>7, <2>1, <2>2, TalkSent
<1> DEFINE j == q \o acks
<1>9. agent' \in 1 .. Tokens /\ up'["main"] \in Seq(Packets) /\ Talk(agent', s, up'["main"], W, h + 1)
  <2>1. CASE kind \in Starts
    <3> DEFINE start == Granted("agentStart", agent)
               d == Packet("agentData")
               m == Packet("mouseMode")
    <3>1. start \in Packets /\ d \in Packets /\ m \in Packets
          /\ d.kind = "agentData" /\ m.kind = "mouseMode"
      BY <1>4 DEF Granted, Packet, Packets, PacketKinds
    <3>2. kind # "list" /\ kind # "agent" /\ kind # "setAck" /\ kind # "ping"
      BY <2>1 DEF Starts
    <3> DEFINE one == <<start>>
               both == <<d, d>>
               rest == both \o <<m>>
    <3>3. Answer("main", kind) = <<start, d, d>> \o <<m>>
      BY <2>1, <3>2 DEF Answer, AgentStart, Starts
    <3> HIDE DEF start, d, m
    <3>4. <<start, d, d>> = one \o both /\ one \in Seq(Packets) /\ both \in Seq(Packets)
          /\ <<m>> \in Seq(Packets) /\ Append(j, start) = j \o one
      BY <1>8, <3>1
    <3>5. Plain(both) /\ Plain(<<m>>)
      BY <3>1 DEF Plain
    <3>6. rest \in Seq(Packets) /\ \A i \in 1 .. Len(rest) : rest[i].kind \notin {"agentStart", "tokens"}
      BY <3>5, PlainBoth DEF Plain
    <3> HIDE DEF one, both
    <3>7. (one \o both) \o <<m>> = one \o rest
      BY <3>4, ConcatAssociative
    <3> HIDE DEF rest
    <3>8. up'["main"] = Append(j, start) \o rest
      <4>1. up'["main"] = q \o (acks \o (one \o rest))
        BY <1>6, <3>2, <3>3, <3>4, <3>7
      <4> DEFINE r == one \o rest
      <4>2. r \in Seq(Packets)
        BY <3>4, <3>6
      <4>3. (j \o one) \o rest = j \o r
        <5>1. j \in Seq(Packets) /\ one \in Seq(Packets) /\ rest \in Seq(Packets)
          BY <1>8, <3>4, <3>6
        <5> HIDE DEF j
        <5> QED
          BY <5>1, ConcatAssociative
      <4> HIDE DEF r
      <4>4. (q \o acks) \o r = q \o (acks \o r)
        BY SMTT(30), <1>0, <1>7, <4>2, ConcatAssociative
      <4>5. up'["main"] = q \o (acks \o r)
        BY <4>1 DEF r
      <4> QED
        BY <3>4, <4>3, <4>4, <4>5
    <3>9. Append(j, start) \in Seq(Packets) /\ Talk(agent, s, Append(j, start), W, h + 1)
      <4>1. Talk(agent, s, Append(j, Granted("agentStart", agent)), W, h + 1)
        BY <1>0, <1>2, <1>3, <1>4, <1>8, <2>1, TalkAnswers DEF h
      <4>2. Append(j, start) \in Seq(Packets)
        BY <1>8, <3>1
      <4> QED
        BY <4>1, <4>2 DEF start
    <3>10. h + 1 \in Nat
      BY <1>0 DEF h
    <3>11. Talk(agent, s, Append(j, start) \o rest, W, h + 1)
      <4> HIDE DEF j
      <4> QED
        BY <1>0, <3>6, <3>9, <3>10, TalkSent
    <3>12. Append(j, start) \o rest \in Seq(Packets)
      <4> HIDE DEF j
      <4> QED
        BY <3>6, <3>9
    <3> QED
      BY <1>1, <1>4, <3>2, <3>8, <3>11, <3>12
  <2>2. CASE kind = "agent"
    <3>1. kind # "list" /\ kind \notin Starts
      BY <2>2 DEF Starts
    <3>2. Answer("main", kind) = AgentData[2] /\ agent' = AgentData[1]
      BY <1>1, <2>2, <3>1 DEF Answer
    <3>3. up'["main"] = q \o (acks \o AgentData[2])
      BY <1>6, <3>1, <3>2
    <3>4. /\ Talk(agent - 1, s, j, W, h + 1)
          /\ agent = 1 => Talk(Tokens, s, Append(j, Granted("tokens", Tokens)), W, h + 1)
      BY <1>0, <1>2, <1>3, <1>4, <1>8, <2>2, TalkHandled DEF h
    <3>5. CASE agent = 1
      <4> DEFINE grant == Granted("tokens", Tokens)
                 one == <<grant>>
      <4>1. AgentData = <<Tokens, one>>
        BY <3>5 DEF AgentData
      <4>2. grant \in Packets
        BY <1>0 DEF Granted, Packets, PacketKinds
      <4> HIDE DEF grant
      <4>3. one \in Seq(Packets) /\ Append(j, grant) = j \o one
        BY <1>8, <4>2
      <4> HIDE DEF one
      <4>4. q \o (acks \o one) = j \o one
        BY SMTT(30), <1>0, <1>7, <4>3, ConcatAssociative
      <4>5. up'["main"] = Append(j, grant) /\ agent' = Tokens
        BY <3>2, <3>3, <4>1, <4>3, <4>4
      <4>6. Append(j, grant) \in Seq(Packets)
        BY <1>8, <4>2
      <4> QED
        BY <1>0, <3>4, <3>5, <4>5, <4>6 DEF grant
    <3>6. CASE agent # 1
      <4>1. AgentData = <<agent - 1, <<>>>>
        BY <3>6 DEF AgentData
      <4>2. acks \o <<>> = acks
        BY <1>7
      <4>3. up'["main"] = j /\ agent' = agent - 1
        BY <3>2, <3>3, <4>1, <4>2
      <4>4. agent - 1 \in 1 .. Tokens
        BY <1>0, <1>4, <3>6
      <4> QED
        BY <1>8, <3>4, <4>3, <4>4
    <3> QED
      BY <3>5, <3>6
  <2>3. CASE kind \notin Starts /\ kind # "agent"
    <3>1. \E p : Plain(p) /\ up'["main"] = q \o p
      <4>1. Plain(acks \o Answer("main", kind))
        BY <1>0, <1>7, <2>3, PlainAnswers, PlainBoth
      <4> QED
        BY <1>6, <1>7, <4>1
    <3>2. PICK p : Plain(p) /\ up'["main"] = q \o p
      BY <3>1
    <3>3. p \in Seq(Packets) /\ \A i \in 1 .. Len(p) : p[i].kind \notin {"agentStart", "tokens"}
      BY <3>2 DEF Plain
    <3>4. Talk(agent, s, q, W, h + 1)
      BY <1>0, <1>3, <1>4, <2>3, TalkGoesOn DEF h
    <3>5. h + 1 \in Nat
      BY <1>0 DEF h
    <3>6. Talk(agent, s, q \o p, W, h + 1)
      BY <1>0, <3>3, <3>4, <3>5, TalkSent
    <3>7. q \o p \in Seq(Packets)
      BY <1>0, <3>3
    <3> QED
      BY <1>1, <1>4, <2>3, <3>2, <3>6, <3>7
  <2> QED
    BY <2>1, <2>2, <2>3
<1>10. server'["main"] = s /\ wire'["main"] = W
  BY <1>2 DEF s, W
<1> QED
  BY <1>4, <1>5, <1>9, <1>10 DEF Talking

\* The server reads a packet of the main channel.
LEMMA TalkingRead ==
    ASSUME Inv, Linkings, Talking, NEW c \in Channels, ServerReads(c)
    PROVE  Talking'
<1> DEFINE s == server["main"]
           q == up["main"]
           p == Head(q)
           W == wire["main"]
           h == Len(handled["main"])
           answered(t, kinds) == server' = [server EXCEPT !["main"] = t] /\ Sent("main", kinds)
           Quiet(t) == t.tokens = s.tokens /\ t.started = s.started
           Ends(t, kinds) ==
               /\ server' = [server EXCEPT !["main"] = t] /\ Sent("main", kinds)
               /\ {"state", "tokens", "started"} \subseteq DOMAIN t
               /\ t.started => t.state = "up"
               /\ \/ /\ kinds \in {<<"reply">>, <<"ok">>, <<"denied">>}
                     /\ ~ s.started /\ t.tokens = s.tokens /\ t.started = s.started
                  \/ /\ kinds = <<>>
                     /\ \/ p.kind = "agentStart" /\ t.tokens = p.n
                        \/ p.kind = "tokens" /\ t.tokens = s.tokens + p.n /\ t.started = s.started
                        \/ /\ s.started => p.kind # "tokens"
                           /\ t.tokens = s.tokens /\ t.started = s.started
<1>1. /\ UNCHANGED client /\ sock[c] = "open" /\ up[c] # <<>> /\ up' = [up EXCEPT ![c] = Tail(@)]
  BY DEF ServerReads
<1>2. UNCHANGED <<sock, ack, agent, handled>>
  BY <1>1 DEF client
<1>3. "main" \in Channels /\ q \in Seq(Packets) /\ W \in Seq(Kinds) /\ h \in Nat
  BY MainIs
<1>4. CASE c # "main"
  <2>1. server'["main"] = s /\ wire'["main"] = W
    BY <1>3, <1>4 DEF ServerReads, Sent, Inv, Framed
  <2>2. up'["main"] = q
    BY <1>1, <1>3, <1>4 DEF Linkings
  <2> QED
    BY <1>2, <2>1, <2>2, TalkingSent
<1>5. CASE c = "main"
  <2>1. {"state", "tokens", "started"} \subseteq DOMAIN s /\ s.tokens \in Int
        /\ (s.started => s.state = "up")
        /\ s.state \in {"link", "ticket", "up", "closed"}
    BY <1>3 DEF Talking, Linkings, Linking
  <2>2. \/ s.state = "link" /\ answered([s EXCEPT !.state = "ticket"], <<"reply">>)
        \/ s.state = "ticket" /\ answered([s EXCEPT !.state = "up"], <<"ok">>)
        \/ s.state = "ticket" /\ answered([s EXCEPT !.state = "closed"], <<"denied">>)
        \/ s.state = "up" /\ p.kind = "attachChannels" /\ answered([s EXCEPT !.attached = TRUE], <<>>)
        \/ s.state = "up" /\ p.kind = "agentStart"
             /\ answered([s EXCEPT !.tokens = p.n, !.started = TRUE], <<>>)
        \/ s.state = "up" /\ p.kind = "tokens" /\ answered([s EXCEPT !.tokens = s.tokens + p.n], <<>>)
        \/ s.state = "up" /\ p.kind = "ack"
             /\ answered([s EXCEPT !.unacked = s.unacked - s.window], <<>>)
        \/ s.state = "up" /\ p.kind # "tokens" /\ answered(s, <<>>)
        \/ s.state = "closed" /\ answered(s, <<>>)
    BY <1>5 DEF ServerReads
  <2>3. ASSUME NEW t, NEW kinds, answered(t, kinds), kinds \in {<<"reply">>, <<"ok">>, <<"denied">>},
               ~ s.started, {"state", "tokens", "started"} \subseteq DOMAIN t, Quiet(t)
        PROVE  Ends(t, kinds)
    BY <2>3
  <2>4. ASSUME NEW t, answered(t, <<>>), {"state", "tokens", "started"} \subseteq DOMAIN t,
               t.started => t.state = "up",
               \/ p.kind = "agentStart" /\ t.tokens = p.n
               \/ p.kind = "tokens" /\ t.tokens = s.tokens + p.n /\ t.started = s.started
               \/ (s.started => p.kind # "tokens") /\ Quiet(t)
        PROVE  Ends(t, <<>>)
    BY <2>4
  <2> HIDE DEF answered, Ends, s, p
  <2>5. ASSUME NEW x
        PROVE  LET t == [s EXCEPT !.state = x]
               IN  {"state", "tokens", "started"} \subseteq DOMAIN t /\ Quiet(t)
    BY <2>1
  <2>6. \E t, kinds : Ends(t, kinds)
    <3>1. CASE s.state = "link" /\ answered([s EXCEPT !.state = "ticket"], <<"reply">>)
      BY <2>1, <2>3, <2>5, <3>1
    <3>2. CASE s.state = "ticket" /\ answered([s EXCEPT !.state = "up"], <<"ok">>)
      BY <2>1, <2>3, <2>5, <3>2
    <3>3. CASE s.state = "ticket" /\ answered([s EXCEPT !.state = "closed"], <<"denied">>)
      BY <2>1, <2>3, <2>5, <3>3
    <3>4. CASE s.state = "up" /\ p.kind = "attachChannels" /\ answered([s EXCEPT !.attached = TRUE], <<>>)
      <4> DEFINE t == [s EXCEPT !.attached = TRUE]
      <4>1. {"state", "tokens", "started"} \subseteq DOMAIN t /\ Quiet(t) /\ t.state = s.state
        BY <2>1
      <4>2. answered(t, <<>>)
        BY <3>4
      <4> HIDE DEF t
      <4> QED
        BY <2>4, <3>4, <4>1, <4>2
    <3>5. CASE s.state = "up" /\ p.kind = "agentStart"
               /\ answered([s EXCEPT !.tokens = p.n, !.started = TRUE], <<>>)
      <4> DEFINE t == [s EXCEPT !.tokens = p.n, !.started = TRUE]
      <4>1. {"state", "tokens", "started"} \subseteq DOMAIN t /\ t.tokens = p.n /\ t.state = s.state
        BY <2>1
      <4>2. answered(t, <<>>)
        BY <3>5
      <4> HIDE DEF t
      <4> QED
        BY <2>4, <3>5, <4>1, <4>2
    <3>6. CASE s.state = "up" /\ p.kind = "tokens" /\ answered([s EXCEPT !.tokens = s.tokens + p.n], <<>>)
      <4> DEFINE t == [s EXCEPT !.tokens = s.tokens + p.n]
      <4>1. {"state", "tokens", "started"} \subseteq DOMAIN t /\ t.tokens = s.tokens + p.n
            /\ t.started = s.started /\ t.state = s.state
        BY <2>1
      <4>2. answered(t, <<>>)
        BY <3>6
      <4> HIDE DEF t
      <4> QED
        BY <2>4, <3>6, <4>1, <4>2
    <3>7. CASE s.state = "up" /\ p.kind = "ack"
               /\ answered([s EXCEPT !.unacked = s.unacked - s.window], <<>>)
      <4> DEFINE t == [s EXCEPT !.unacked = s.unacked - s.window]
      <4>1. {"state", "tokens", "started"} \subseteq DOMAIN t /\ Quiet(t) /\ t.state = s.state
        BY <2>1
      <4>2. answered(t, <<>>)
        BY <3>7
      <4> HIDE DEF t
      <4> QED
        BY <2>4, <3>7, <4>1, <4>2
    <3>8. CASE \/ s.state = "up" /\ p.kind # "tokens" /\ answered(s, <<>>)
               \/ s.state = "closed" /\ answered(s, <<>>)
      BY <2>1, <2>4, <3>8
    <3> QED
      BY <2>2, <3>1, <3>2, <3>3, <3>4, <3>5, <3>6, <3>7, <3>8
  <2>7. PICK t, kinds : Ends(t, kinds)
    BY <2>6
  <2>8. /\ server'["main"] = t /\ wire'["main"] = W \o kinds
        /\ {"state", "tokens", "started"} \subseteq DOMAIN t /\ (t.started => t.state = "up")
    BY <1>3, <2>7 DEF Ends, Sent, Inv, Framed
  <2>9. /\ \/ /\ kinds \in {<<"reply">>, <<"ok">>, <<"denied">>}
              /\ ~ s.started /\ t.tokens = s.tokens /\ t.started = s.started
           \/ /\ kinds = <<>>
              /\ \/ p.kind = "agentStart" /\ t.tokens = p.n
                 \/ p.kind = "tokens" /\ t.tokens = s.tokens + p.n /\ t.started = s.started
                 \/ /\ s.started => p.kind # "tokens"
                    /\ t.tokens = s.tokens /\ t.started = s.started
    BY <2>7 DEF Ends
  <2>10. /\ up'["main"] = Tail(q) /\ q # <<>> /\ Tail(q) \in Seq(Packets) /\ p \in Packets
    BY <1>1, <1>3, <1>5, FirstOut DEF Linkings, p
  <2>11. t.tokens \in Int
    <3>1. p.n \in Int
      BY <2>10 DEF Packets
    <3> QED
      BY <2>1, <2>9, <3>1
  <2>12. agent \in 1 .. Tokens /\ agent \in Int /\ Talk(agent, s, q, W, h)
    BY <1>1, <1>5 DEF Talking, s
  <2> HIDE DEF q, W, h
  <2>13. Talk(agent, t, Tail(q), wire'["main"], h)
    <3>1. CASE kinds = <<>>
      <4>1. wire'["main"] = W
        BY <1>3, <2>8, <3>1
      <4>2. \/ p.kind = "agentStart" /\ t.tokens = p.n
            \/ p.kind = "tokens" /\ t.tokens = s.tokens + p.n /\ t.started = s.started
            \/ /\ s.started => p.kind # "tokens"
               /\ t.tokens = s.tokens /\ t.started = s.started
        BY <2>9, <3>1
      <4>3. Talk(agent, t, Tail(q), W, h)
        BY <1>3, <2>1, <2>10, <2>12, <4>2, TalkRead DEF p
      <4> QED
        BY <4>1, <4>3
    <3>2. CASE kinds # <<>>
      <4>1. /\ kinds \in {<<"reply">>, <<"ok">>, <<"denied">>}
            /\ ~ s.started /\ t.tokens = s.tokens /\ t.started = s.started
        BY <2>9, <3>2
      <4>2. Talk(agent, t, Tail(q), W, h)
        BY <1>3, <2>1, <2>10, <2>12, <4>1, TalkRead DEF p
      <4>3. PICK k \in {"reply", "ok", "denied"} : kinds = <<k>>
        BY <4>1
      <4>4. k \in Kinds /\ k # "agent" /\ k \notin Starts
        BY DEF Kinds, Starts
      <4>5. wire'["main"] = Append(W, k)
        BY <1>3, <2>8, <4>3, <4>4
      <4>6. Talk(agent, t, Tail(q), Append(W, k), h)
        BY <1>3, <4>2, <4>4, TalkGrows
      <4> QED
        BY <4>5, <4>6
    <3> QED
      BY <3>1, <3>2
  <2> QED
    BY <1>2, <2>8, <2>10, <2>11, <2>12, <2>13 DEF Talking, h
<1> QED
  BY <1>4, <1>5

\* The server sends a message on the main channel.
LEMMA TalkingSends ==
    ASSUME Inv, Linkings, Talking, \A s \in Scopes : AgentHeard(s),
           NEW c \in Channels, ServerSends(c), Inv'
    PROVE  Talking'
<1> DEFINE s == server["main"]
           q == up["main"]
           W == wire["main"]
           h == Len(handled["main"])
           total == Len(W)
           kind == Head(s.script)
           counted == [s EXCEPT !.script = Tail(s.script),
                                !.unacked = IF s.window = 0 THEN s.unacked ELSE s.unacked + 1]
           t == CASE kind = "setAck" -> [counted EXCEPT !.window = Window, !.unacked = 0]
                  [] kind = "agent" -> [counted EXCEPT !.tokens = counted.tokens - 1]
                  [] kind = "agentUp" -> [counted EXCEPT !.started = FALSE]
                  [] OTHER -> counted
<1>1. UNCHANGED <<client, up, scope>> /\ sock[c] = "open"
  BY DEF ServerSends
<1>2. UNCHANGED <<sock, ack, agent, handled>>
  BY <1>1 DEF client
<1>3. "main" \in Channels /\ q \in Seq(Packets) /\ W \in Seq(Kinds) /\ h \in Nat
      /\ Sending(s, W, scope.scripts["main"]) /\ scope \in Scopes
  BY MainIs
<1>4. CASE c # "main"
  <2>1. server'["main"] = s /\ wire'["main"] = W
    BY <1>3, <1>4 DEF ServerSends, Sent, Inv, Framed
  <2> QED
    BY <1>1, <1>2, <2>1, TalkingSent
<1>5. CASE c = "main"
  <2>1. /\ sock["main"] = "open" /\ s.state = "up"
        /\ kind = "agent" => s.started /\ s.tokens > 0
        /\ server' = [server EXCEPT !["main"] = t] /\ Sent("main", <<kind>>)
    BY <1>5 DEF ServerSends
  <2>2. {"state", "tokens", "started"} \subseteq DOMAIN s /\ s.tokens \in Int
        /\ agent \in 1 .. Tokens /\ agent \in Int /\ Talk(agent, s, q, W, h)
    BY <2>1 DEF Talking
  <2>3. h + 2 <= total /\ total >= 2 /\ total \in Nat
    <3>1. total >= 2 /\ total \in Nat
      BY <1>3, <2>1 DEF Sending
    <3>2. Streaming(rx["main"], down["main"], W, h, CutOf("main"))
      BY <1>3, <2>1 DEF Inv, Placed
    <3> QED
      BY <3>1, <3>2, HandledWasSent
  <2> HIDE DEF s, kind
  <2>4. /\ {"state", "tokens", "started"} \subseteq DOMAIN counted
        /\ counted.state = s.state /\ counted.tokens = s.tokens /\ counted.started = s.started
    BY <2>2
  <2> HIDE DEF counted
  <2>5. /\ {"state", "tokens", "started"} \subseteq DOMAIN t /\ t.state = "up"
        /\ t.tokens = (IF kind = "agent" THEN s.tokens - 1 ELSE s.tokens)
        /\ IF kind = "agentUp" THEN ~ t.started ELSE t.started = s.started
    <3>1. CASE kind = "setAck"
      <4>1. t = [counted EXCEPT !.window = Window, !.unacked = 0]
        BY <3>1
      <4> HIDE DEF t
      <4> QED
        BY <2>1, <2>4, <3>1, <4>1
    <3>2. CASE kind = "agent"
      <4>1. t = [counted EXCEPT !.tokens = counted.tokens - 1]
        BY <3>2
      <4> HIDE DEF t
      <4> QED
        BY <2>1, <2>4, <3>2, <4>1
    <3>3. CASE kind = "agentUp"
      <4>1. t = [counted EXCEPT !.started = FALSE]
        BY <3>3
      <4> HIDE DEF t
      <4> QED
        BY <2>1, <2>4, <3>3, <4>1
    <3>4. CASE kind \notin {"setAck", "agent", "agentUp"}
      <4>1. t = counted
        BY <3>4
      <4> HIDE DEF t
      <4> QED
        BY <2>1, <2>4, <3>4, <4>1
    <3> QED
      BY <3>1, <3>2, <3>3, <3>4
  <2> HIDE DEF t
  <2>6. server'["main"] = t /\ wire'["main"] = W \o <<kind>>
    BY <1>3, <2>1 DEF Sent, Inv, Framed
  <2>7. Sending(t, wire'["main"], scope.scripts["main"]) /\ wire'["main"] \in Seq(Kinds)
    <3>1. scope' = scope
      BY <1>1
    <3> QED
      BY <1>3, <2>6, <3>1 DEF Inv, Served, Sending
  <2>8. /\ Len(wire'["main"]) = total + 1 /\ wire'["main"][total + 1] = kind
        /\ \A i \in 1 .. total : wire'["main"][i] = W[i]
    BY <1>3, <2>6
  <2>9. kind \in Kinds /\ wire'["main"] = Append(W, kind)
    <3>1. total + 1 \in 1 .. Len(wire'["main"])
      BY <2>3, <2>8
    <3>2. kind \in Kinds
      BY <2>7, <2>8, <3>1
    <3> QED
      BY <1>3, <2>6, <3>2
  <2> HIDE DEF W, q, h, total
  <2>10. Talk(agent, t, q, Append(W, kind), h)
    <3>1. CASE kind = "agent"
      <4>1. s.started => Talk(agent, t, q, Append(W, "agent"), h)
        BY <1>3, <2>2, <2>3, <2>5, <3>1, TalkSpeaks DEF total
      <4> QED
        BY <2>1, <3>1, <4>1
    <3>2. CASE kind \in Starts
      <4>1. ASSUME NEW m \in 1 .. Len(W), W[m] \in Starts
            PROVE  kind = "agentUp" /\ \E n \in m + 1 .. Len(W) : W[n] = "agent"
        <5> DEFINE script == scope.scripts["main"]
                   last == total + 1
                   V == wire'["main"]
        <5>1. /\ \A i \in 3 .. last : i - 2 \in 1 .. Len(script) /\ V[i] = script[i - 2]
          BY <2>7, <2>8 DEF Sending
        <5>2. m \in 3 .. last /\ last \in 3 .. last /\ m < last /\ V[m] = W[m] /\ V[last] = kind
          <6>1. m # 1 /\ m # 2
            <7>1. Told(W) /\ Len(W) >= 2
              BY <1>3, <2>1, <2>3 DEF Inv, Placed, Streaming, W, total
            <7>2. "reply" \notin Starts /\ "ok" \notin Starts /\ "denied" \notin Starts
              BY DEF Starts
            <7> QED
              BY <4>1, <7>1, <7>2 DEF Told
          <6>2. m \in 1 .. total /\ Len(W) = total
            BY DEF total
          <6> QED
            BY <2>3, <2>8, <6>1, <6>2
        <5> HIDE DEF V
        <5>3. /\ m - 2 \in 1 .. Len(script) /\ script[m - 2] \in Starts
              /\ last - 2 \in 1 .. Len(script) /\ script[last - 2] = kind
          BY <4>1, <5>1, <5>2
        <5>4. m - 2 < last - 2
          BY <2>3, <5>2
        <5>5. AgentHeard(scope)
          BY <1>3
        <5>6. kind = "agentUp" /\ \E k \in (m - 2) + 1 .. (last - 2) - 1 : script[k] = "agent"
          BY <3>2, <5>3, <5>4, <5>5 DEF AgentHeard
        <5>7. PICK k \in (m - 2) + 1 .. (last - 2) - 1 : script[k] = "agent"
          BY <5>6
        <5>8. /\ k + 2 \in m + 1 .. total /\ k + 2 \in 1 .. total /\ k + 2 \in 3 .. last
              /\ (k + 2) - 2 = k
          BY SMTT(30), <2>3, <5>2, <5>7
        <5>9. W[k + 2] = "agent"
          BY <2>8, <5>1, <5>7, <5>8 DEF V
        <5> QED
          BY <5>6, <5>8, <5>9 DEF total
      <4>2. kind # "agent"
        BY <3>2 DEF Starts
      <4> QED
        BY <1>3, <2>2, <2>5, <3>2, <4>1, TalkStarts
    <3>3. CASE kind # "agent" /\ kind \notin Starts
      <4>1. t.tokens = s.tokens /\ t.started = s.started
        BY <2>5, <3>3 DEF Starts
      <4> QED
        BY <1>3, <2>2, <2>9, <3>3, <4>1, TalkGrows
    <3> QED
      BY <3>1, <3>2, <3>3
  <2>11. t.tokens \in Int
    BY <2>2, <2>5
  <2> QED
    BY <1>1, <1>2, <2>2, <2>5, <2>6, <2>9, <2>10, <2>11 DEF Talking, q, h
<1> QED
  BY <1>4, <1>5

\* The socket of the main channel opens: the agent is not spoken of yet.
LEMMA TalkingOpens ==
    ASSUME Inv, Orderly, Linkings, Talking, NEW c \in Channels, SocketOpens(c), Over'
    PROVE  Talking'
<1>1. /\ sock[c] = "connecting" /\ up' = [up EXCEPT ![c] = <<Packet("link")>>]
      /\ UNCHANGED <<agent, server, wire, handled>>
  BY DEF SocketOpens
<1>2. "main" \in Channels
  BY SessionAssumption
<1>3. CASE c # "main"
  <2>1. sock'["main"] = sock["main"] \/ sock'["main"] # "open"
    BY <1>2, <1>3, OpensKeeps
  <2>2. up'["main"] = up["main"]
    BY <1>1, <1>2, <1>3 DEF Linkings
  <2> QED
    BY <1>1, <2>1, <2>2, TalkingSent
<1>4. CASE c = "main"
  <2>1. up'["main"] = <<Packet("link")>>
    BY <1>1, <1>2, <1>4 DEF Linkings
  <2>2. Plain(<<Packet("link")>>)
    BY PlainOnes DEF PacketKinds
  <2>3. server["main"].state = "link" /\ ~ server["main"].started
    <3>1. server["main"].state = "link"
      BY <1>1, <1>2, <1>4 DEF Linkings, Linking
    <3> QED
      BY <3>1 DEF Talking
  <2>4. Len(wire["main"]) = 0
    BY <1>2, <2>3 DEF Inv, Served, Sending
  <2>5. Len(handled["main"]) \in Nat
    BY MainIs
  <2> DEFINE q == <<Packet("link")>>
             W == wire["main"]
             h == Len(handled["main"])
  <2>6. h + 3 .. Len(W) = {}
    BY <2>4, <2>5
  <2>7. \A i \in 1 .. Len(q) : q[i].kind \notin {"agentStart", "tokens"}
    BY <2>2 DEF Plain
  <2> HIDE DEF q, W, h
  <2>8. Talk(agent, server["main"], q, W, h)
    BY <2>3, <2>6, <2>7 DEF Talk, TokensAre, StartsToRead, StartsToHandle, Balanced
  <2>9. q \in Seq(Packets)
    BY <2>2 DEF Plain, q
  <2> QED
    BY <1>1, <2>1, <2>8, <2>9 DEF Talking, q, W, h
<1> QED
  BY <1>3, <1>4

LEMMA TalkingLost ==
    ASSUME Inv, Linkings, Talking, NEW c \in Channels, SocketLost(c)
    PROVE  Talking'
<1>1. /\ sock' = [sock EXCEPT ![c] = "closed"] /\ up' = [up EXCEPT ![c] = <<>>]
      /\ UNCHANGED <<agent, server, wire, handled>>
  BY DEF SocketLost
<1>2. "main" \in Channels
  BY SessionAssumption
<1>3. CASE c # "main"
  <2>1. sock'["main"] = sock["main"] /\ up'["main"] = up["main"]
    BY <1>1, <1>2, <1>3 DEF Inv, Framed, Linkings
  <2> QED
    BY <1>1, <2>1, TalkingSent
<1>4. CASE c = "main"
  <2>1. sock'["main"] = "closed" /\ up'["main"] = <<>> /\ <<>> \in Seq(Packets)
    BY <1>1, <1>2, <1>4 DEF Inv, Framed, Linkings
  <2> QED
    BY <1>1, <2>1 DEF Talking
<1> QED
  BY <1>3, <1>4

\* What the link handlers send.
LEMMA TalkingLinks ==
    ASSUME Inv, Linkings, Talking, NEW c \in Channels,
           HeaderTaken(c) \/ ReplyTaken(c) \/ ErrorCodeTaken(c)
    PROVE  Talking'
<1>1. /\ \E size : Takes(c, size)
      /\ UNCHANGED <<agent, handled>>
      /\ \/ UNCHANGED <<sock, up>>
         \/ SendAll(c, <<Packet("ticket")>>)
         \/ SendAll(c, AfterLink(c))
  BY DEF HeaderTaken, ReplyTaken, ErrorCodeTaken
<1>2. sock[c] = "open" /\ UNCHANGED <<server, wire>>
  BY <1>1, TakesWhat
<1>3. Plain(<<Packet("ticket")>>) /\ Plain(AfterLink(c))
  <2>1. "ping" \notin Starts
    BY DEF Starts
  <2> QED
    BY <2>1, PlainOnes, PlainAnswers DEF PacketKinds
<1>4. /\ sock'["main"] = sock["main"]
      /\ up'["main"] = up["main"] \/ \E p : Plain(p) /\ up'["main"] = up["main"] \o p
  <2>1. ASSUME NEW p, Plain(p), SendAll(c, p)
        PROVE  /\ sock'["main"] = sock["main"]
               /\ up'["main"] = up["main"] \/ \E r : Plain(r) /\ up'["main"] = up["main"] \o r
    <3>1. "main" \in Channels
      BY SessionAssumption
    <3> QED
      BY <1>2, <2>1, <3>1, HandlerSends
  <2> QED
    BY <1>1, <1>3, <2>1
<1> QED
  BY <1>1, <1>2, <1>4, TalkingSent

LEMMA TalkingUser ==
    ASSUME Inv, Linkings, Talking, NEW c \in Channels,
           NEW kind \in PacketKinds \ {"agentStart", "tokens"}, UserSends(c, kind)
    PROVE  Talking'
<1>1. /\ UNCHANGED <<agent, server, wire, handled>> /\ SendAll(c, <<Packet(kind)>>)
  BY DEF UserSends
<1>2. "main" \in Channels /\ Plain(<<Packet(kind)>>)
  BY SessionAssumption, PlainOnes
<1>3. sock'["main"] = sock["main"] \/ sock'["main"] # "open"
  <2>1. \A d \in Channels : sock'[d] = sock[d] \/ (sock[d] # "none" /\ sock'[d] = "closed")
    BY <1>1, SendsAll DEF Inv, Framed
  <2> QED
    BY <1>2, <2>1
<1>4. up'["main"] = up["main"] \/ up'["main"] = up["main"] \o <<Packet(kind)>>
  BY <1>1, <1>2 DEF SendAll, Linkings
<1> QED
  BY <1>1, <1>2, <1>3, <1>4, TalkingSent

LEMMA TalkingInit ==
    ASSUME Init
    PROVE  Talking
<1>1. "main" \in Channels /\ Tokens \in Nat \ {0}
  BY SessionAssumption
<1>2. /\ agent = Tokens /\ up["main"] = <<>> /\ sock["main"] = "connecting"
      /\ {"state", "tokens", "started"} \subseteq DOMAIN server["main"]
      /\ server["main"].tokens = 0 /\ ~ server["main"].started
  BY <1>1 DEF Init
<1> QED
  BY <1>1, <1>2 DEF Talking

LEMMA TalkingKept ==
    ASSUME Orderly, \A s \in Scopes : AgentHeard(s), Inv, Linkings, Talking, [Next]_vars, ~ Garbled'
    PROVE  Talking'
<1>1. Over' /\ Inv'
  BY OverKept, InvKept DEF Inv
<1>2. CASE UNCHANGED vars
  <2>1. UNCHANGED <<agent, server, wire, handled, sock, up>>
    BY <1>2 DEF vars, client
  <2> QED
    BY <2>1, TalkingSent
<1>3. ASSUME Disconnect PROVE Talking'
  <2>1. UNCHANGED <<agent, server, wire, handled, up>> /\ sock' = [c \in Channels |-> "closed"]
    BY <1>3 DEF Disconnect
  <2>2. sock'["main"] = "closed"
    BY <2>1, SessionAssumption
  <2> QED
    BY <2>1, <2>2, TalkingSent
<1>4. ASSUME NEW c \in Channels, NEW k \in 1 .. Len(down[c]), Receives(c, k) PROVE Talking'
  <2>1. UNCHANGED <<agent, server, wire, handled, sock, up>>
    BY <1>4 DEF Receives
  <2> QED
    BY <2>1, TalkingSent
<1>5. ASSUME Types \/ Resizes PROVE Talking'
  <2>1. {"inputs", "main"} \subseteq Channels
        /\ {"key", "agentData"} \subseteq PacketKinds \ {"agentStart", "tokens"}
    BY SessionAssumption DEF PacketKinds
  <2> QED
    BY <1>5, <2>1, TalkingUser DEF Types, Resizes
<1>6. ASSUME NEW c \in Channels, Handles(c) PROVE Talking'
  <2>1. ASSUME MessageTaken(c) PROVE Talking'
    <3>1. CASE c = "main"
      BY <1>1, <2>1, <3>1, TalkingMessage
    <3>2. CASE c # "main"
      BY <1>1, <2>1, <3>2, TalkingElsewhere
    <3> QED
      BY <3>1, <3>2
  <2> QED
    BY <1>6, <2>1, TalkingLinks DEF Handles
<1>7. ASSUME NEW c \in Channels, SocketCloses(c) \/ SocketFails(c) PROVE Talking'
  BY <1>7, TalkingLost DEF SocketCloses, SocketFails
<1> QED
  BY <1>1, <1>2, <1>3, <1>4, <1>5, <1>6, <1>7, TalkingOpens, TalkingRead, TalkingSends DEF Next, Protocol

\* The tokens of the agent (onAgentData of agent.js, sendInitMessage): when the
\* server has read the client's last start, the tokens that it has, those on
\* their way and the agent's messages on their way are the ones the client
\* counts, however often the agent goes and comes back, if each time it has
\* spoken since it was last started, and until a message is garbled.
THEOREM TokensAreCounted ==
    ASSUME Orderly, \A s \in Scopes : AgentHeard(s)
    PROVE  Spec => []TokensAgree
<1>1. Init => Inv /\ Linkings /\ Talking
  BY InvInit, LinkingsInit, TalkingInit
<1>2. Inv /\ Linkings /\ (Garbled \/ Talking) /\ [Next]_vars => (Inv /\ Linkings /\ (Garbled \/ Talking))'
  BY InvKept, LinkingsKept, TalkingKept, GarbledStays
<1>3. Inv /\ (Garbled \/ Talking) => TokensAgree
  <2>1. SUFFICES ASSUME Inv, Talking, sock["main"] = "open", server["main"].started
                 PROVE  server["main"].tokens + Tokens * Count("tokens", "main")
                          + Cardinality({n \in OnTheWay("main") : KindOf("main", n) = "agent"}) = agent
    BY DEF TokensAgree
  <2> DEFINE W == wire["main"]
             h == Len(handled["main"])
  <2>2. server["main"].tokens + Tokens * HowMany(up["main"], "tokens") + Cardinality(Spoken(W, h)) = agent
    BY <2>1 DEF Talking, Talk, Balanced
  <2>3. Count("tokens", "main") = HowMany(up["main"], "tokens")
    BY DEF Count, HowMany, Places
  <2>4. {n \in OnTheWay("main") : KindOf("main", n) = "agent"} = Spoken(W, h)
    <3>1. h + 2 + 1 .. Len(W) = h + 3 .. Len(W)
      <4>1. h \in Nat
        BY MainIs
      <4> QED
        BY <4>1
    <3> QED
      BY <3>1 DEF OnTheWay, LinkAnswers, KindOf, Spoken
  <2> QED
    BY <2>2, <2>3, <2>4
<1> QED
  BY <1>1, <1>2, <1>3, PTL DEF Spec
-----------------------------------------------------------------------------
(* The types, of any scopes at all: what a receiver holds, and the server's *)
(* side, come with them.                                                    *)

Shaped(r) ==
    /\ r \in Receivers
    /\ Len(r.unread) <= r.w
    /\ r.phase = "header" => r.need = HeaderSize
    /\ r.phase = "body" => Len(r.header) = HeaderSize

LEMMA PushShaped ==
    ASSUME NEW r, Shaped(r), NEW chunk \in Seq(Units)
    PROVE  Shaped(Push(r, chunk))
<1> DEFINE e == Push(r, chunk)
           over == Overwritten(r, chunk)
<1>1. /\ r.unread \in Seq(Units) /\ r.w \in Nat /\ r.phase \in Phases /\ r.need \in Nat
      /\ r.header \in Seq(Units) /\ r.at \in Nat /\ Len(r.unread) <= r.w
  BY DEF Shaped, Receivers
<1>2. over \in Seq(Units) /\ Len(over) = Len(r.header)
  <2>1. ASSUME NEW i \in 1 .. Len(r.header)
        PROVE  (LET j == r.at + i - r.w
                IN  IF j \in 1 .. Len(chunk) THEN chunk[j] ELSE r.header[i]) \in Units
    BY <1>1
  <2>2. Len(r.header) \in Nat
    BY <1>1
  <2>3. over \in [1 .. Len(r.header) -> Units]
    BY <2>1 DEF Overwritten
  <2> HIDE DEF over
  <2> QED
    BY <2>2, <2>3
<1> HIDE DEF over
<1>3. e = [r EXCEPT !.unread = r.unread \o chunk, !.w = r.w + Len(chunk), !.header = over]
  BY DEF Push, over
<1>4. r.unread \o chunk \in Seq(Units) /\ Len(r.unread \o chunk) = Len(r.unread) + Len(chunk)
      /\ Len(chunk) \in Nat /\ Len(r.unread) \in Nat
  BY <1>1
<1>5. r \in Receivers
  BY DEF Shaped
<1>6. /\ e \in Receivers /\ e.unread = r.unread \o chunk /\ e.w = r.w + Len(chunk)
      /\ e.header = over /\ e.phase = r.phase /\ e.need = r.need
  <2> DEFINE u == r.unread \o chunk
             w == r.w + Len(chunk)
  <2>1. u \in Seq(Units) /\ w \in Nat
    BY <1>1, <1>4
  <2> HIDE DEF u, w, e
  <2>2. e = [unread |-> u, w |-> w, phase |-> r.phase, need |-> r.need, header |-> over, at |-> r.at]
    BY <1>3, <1>5 DEF Receivers, u, w
  <2>3. e \in Receivers
    BY <1>1, <1>2, <2>1, <2>2 DEF Receivers
  <2> QED
    BY <2>2, <2>3 DEF u, w
<1> HIDE DEF e
<1>7. Len(e.unread) <= e.w
  BY <1>1, <1>4, <1>6
<1> QED
  BY <1>2, <1>6, <1>7 DEF Shaped, e

LEMMA TakeShaped ==
    ASSUME NEW r, Shaped(r), Ready(r), NEW size \in Nat
    PROVE  Shaped(TakeNext(r, size))
<1> DEFINE rest == SubSeq(r.unread, r.need + 1, Len(r.unread))
           u == Taken(r)
           s == Shift(r)
           headed == [s EXCEPT !.header = u, !.at = r.w - Len(r.unread), !.need = size]
<1>1. /\ r \in Receivers
      /\ r.unread \in Seq(Units) /\ r.w \in Nat /\ r.phase \in Phases /\ r.need \in Nat
      /\ r.header \in Seq(Units) /\ r.at \in Nat /\ Len(r.unread) <= r.w
      /\ Len(r.unread) \in Nat /\ r.need <= Len(r.unread)
  BY DEF Shaped, Receivers, Ready
<1>2. rest \in Seq(Units) /\ Len(rest) = Len(r.unread) - r.need
  <2>1. r.need \in 0 .. Len(r.unread)
    BY <1>1
  <2> QED
    BY <1>1, <2>1, Drop
<1>3. u \in Seq(Units) /\ Len(u) = r.need
  <2>1. /\ u = SubSeq(r.unread, 1, r.need)
        /\ \A i \in 1 .. r.need : r.unread[i] \in Units
    BY <1>1 DEF Taken
  <2> QED
    BY <1>1, <2>1, SubSeqProperties
<1> HIDE DEF rest, u
<1>4. s = [r EXCEPT !.unread = rest, !.w = IF rest = <<>> /\ r.need > 0 THEN 0 ELSE r.w]
  BY DEF Shift, rest
<1> HIDE DEF s
<1>5. /\ s \in Receivers /\ s.unread = rest /\ s.phase = r.phase /\ s.need = r.need
      /\ s.w = (IF rest = <<>> /\ r.need > 0 THEN 0 ELSE r.w)
  BY <1>1, <1>2, <1>4 DEF Receivers
<1>6. Len(s.unread) <= s.w
  <2>1. CASE rest = <<>> /\ r.need > 0
    BY <1>5, <2>1
  <2>2. CASE ~ (rest = <<>> /\ r.need > 0)
    BY <1>1, <1>2, <1>5, <2>2
  <2> QED
    BY <2>1, <2>2
<1>7. r.w - Len(r.unread) \in Nat
  BY <1>1
<1>8. /\ headed \in Receivers /\ headed.unread = s.unread /\ headed.w = s.w
      /\ headed.header = u /\ headed.need = size
  BY <1>3, <1>5, <1>7 DEF Receivers
<1> HIDE DEF headed
<1> DEFINE e == TakeNext(r, size)
<1>9. /\ r.phase = "reply" => e = [headed EXCEPT !.phase = "replyBody"]
      /\ r.phase = "replyBody" => e = [s EXCEPT !.phase = "errorCode", !.need = 1]
      /\ r.phase = "header" => e = [headed EXCEPT !.phase = "body"]
      /\ r.phase \in {"errorCode", "body"} =>
            e = [s EXCEPT !.phase = "header", !.need = HeaderSize, !.header = <<>>]
  BY DEF TakeNext, headed, s, u
<1> HIDE DEF e
<1>10. CASE r.phase = "reply"
  <2>1. e \in Receivers /\ e.unread = s.unread /\ e.w = s.w /\ e.phase = "replyBody"
    BY <1>8, <1>9, <1>10 DEF Receivers, Phases
  <2> QED
    BY <1>6, <2>1 DEF Shaped, e
<1>11. CASE r.phase = "replyBody"
  <2>0. e = [unread |-> s.unread, w |-> s.w, phase |-> "errorCode", need |-> 1,
             header |-> s.header, at |-> s.at]
    BY <1>5, <1>9, <1>11 DEF Receivers
  <2>1. e \in Receivers /\ e.unread = s.unread /\ e.w = s.w /\ e.phase = "errorCode"
    BY <1>5, <2>0 DEF Receivers, Phases
  <2> QED
    BY <1>6, <2>1 DEF Shaped, e
<1>12. CASE r.phase = "header"
  <2>1. /\ e \in Receivers /\ e.unread = s.unread /\ e.w = s.w /\ e.phase = "body" /\ e.header = u
    BY <1>8, <1>9, <1>12 DEF Receivers, Phases
  <2>2. Len(u) = HeaderSize
    BY <1>3, <1>12 DEF Shaped
  <2> QED
    BY <1>6, <2>1, <2>2 DEF Shaped, e
<1>13. CASE r.phase \in {"errorCode", "body"}
  <2>1. /\ e \in Receivers /\ e.unread = s.unread /\ e.w = s.w /\ e.phase = "header"
        /\ e.need = HeaderSize
    <3>1. e = [unread |-> s.unread, w |-> s.w, phase |-> "header", need |-> HeaderSize,
               header |-> <<>>, at |-> s.at]
      BY <1>5, <1>9, <1>13 DEF Receivers
    <3>2. <<>> \in Seq(Units) /\ HeaderSize \in Nat
      BY DEF HeaderSize
    <3> QED
      BY <1>5, <3>1, <3>2 DEF Receivers, Phases
  <2> QED
    BY <1>6, <2>1 DEF Shaped, e
<1> QED
  BY <1>1, <1>10, <1>11, <1>12, <1>13 DEF Phases

Typed ==
    /\ TypeOK
    /\ \A c \in Channels : Shaped(rx[c])
    /\ turn # None => Ready(rx[turn])
    /\ down \in [Channels -> Seq(Units)]
    /\ DOMAIN server = Channels
    /\ \A c \in Channels : "script" \in DOMAIN server[c] /\ server[c].script \in Seq(Messages)

LEMMA ScopeTyped ==
    ASSUME Typed
    PROVE  scope.listed \in Seq(Channels) /\ scope.scripts \in [Channels -> Seq(Messages)]
BY SessionAssumption DEF Typed, TypeOK, ScopeSet

\* What a handler does to the sockets keeps the types.
LEMMA SendTyped ==
    ASSUME TypeOK, NEW c \in Channels, NEW packets, SendAll(c, packets)
    PROVE  sock' \in [Channels -> {"none", "connecting", "open", "closed"}] /\ told' \in BOOLEAN
BY DEF TypeOK, SendAll

LEMMA RunTyped ==
    ASSUME NEW socks \in [Channels -> {"none", "connecting", "open", "closed"}],
           NEW q \in Seq(Channels), RunNext(socks, q)
    PROVE  /\ sock' \in [Channels -> {"none", "connecting", "open", "closed"}]
           /\ runQ' \in Seq(Channels) /\ proxy' \in Channels \cup {None}
<1>1. CASE q = <<>>
  BY <1>1 DEF RunNext
<1>2. CASE q # <<>>
  <2>1. Head(q) \in Channels /\ Tail(q) \in Seq(Channels)
    BY <1>2
  <2> QED
    BY <1>2, <2>1 DEF RunNext
<1> QED
  BY <1>1, <1>2

\* A step that leaves the receivers and the server alone.
LEMMA SocketsTyped ==
    ASSUME Typed, UNCHANGED <<scope, rx, ack, linked, agent, turn, handled, cut, server, wire>>,
           sock' \in [Channels -> {"none", "connecting", "open", "closed"}],
           runQ' \in Seq(Channels), proxy' \in Channels \cup {None},
           down' \in [Channels -> Seq(Units)], {told', gone', early'} \subseteq BOOLEAN
    PROVE  Typed'
<1>1. TypeOK'
  BY DEF Typed, TypeOK
<1> QED
  BY <1>1 DEF Typed

LEMMA OpensTyped ==
    ASSUME Typed, NEW c \in Channels, SocketOpens(c)
    PROVE  Typed'
<1> DEFINE opened == [sock EXCEPT ![c] = "open"]
<1>1. /\ UNCHANGED <<scope, rx, ack, linked, agent, turn, handled, cut, server, wire, down, told, gone, early>>
      /\ IF proxy = c THEN RunNext(opened, runQ) ELSE sock' = opened /\ UNCHANGED <<runQ, proxy>>
  BY DEF SocketOpens
<1>2. /\ opened \in [Channels -> {"none", "connecting", "open", "closed"}]
      /\ runQ \in Seq(Channels) /\ proxy \in Channels \cup {None}
      /\ down \in [Channels -> Seq(Units)] /\ {told, gone, early} \subseteq BOOLEAN
  BY DEF Typed, TypeOK
<1> HIDE DEF opened
<1>3. /\ sock' \in [Channels -> {"none", "connecting", "open", "closed"}]
      /\ runQ' \in Seq(Channels) /\ proxy' \in Channels \cup {None}
  BY <1>1, <1>2, RunTyped
<1> QED
  BY <1>1, <1>2, <1>3, SocketsTyped

LEMMA LostTyped ==
    ASSUME Typed, NEW c \in Channels, SocketLost(c)
    PROVE  Typed'
<1>1. /\ UNCHANGED <<scope, rx, ack, linked, agent, turn, handled, cut, server, wire, runQ, proxy, gone, early>>
      /\ sock' = [sock EXCEPT ![c] = "closed"] /\ told' = TRUE /\ down' = [down EXCEPT ![c] = <<>>]
  BY DEF SocketLost
<1>2. /\ sock' \in [Channels -> {"none", "connecting", "open", "closed"}]
      /\ runQ \in Seq(Channels) /\ proxy \in Channels \cup {None}
      /\ down' \in [Channels -> Seq(Units)] /\ {told', gone, early} \subseteq BOOLEAN
  BY <1>1 DEF Typed, TypeOK
<1> QED
  BY <1>1, <1>2, SocketsTyped

LEMMA UserTyped ==
    ASSUME Typed, NEW c \in Channels, NEW kind, UserSends(c, kind)
    PROVE  Typed'
<1>1. /\ UNCHANGED <<scope, rx, ack, linked, agent, turn, handled, cut, server, wire, runQ, proxy, gone, down>>
      /\ SendAll(c, <<Packet(kind)>>) /\ early' = (early \/ c \notin linked)
  BY DEF UserSends
<1>2. /\ sock' \in [Channels -> {"none", "connecting", "open", "closed"}] /\ told' \in BOOLEAN
  BY <1>1, SendTyped DEF Typed
<1>3. /\ runQ \in Seq(Channels) /\ proxy \in Channels \cup {None}
      /\ down \in [Channels -> Seq(Units)] /\ {told', gone, early'} \subseteq BOOLEAN
  BY <1>1, <1>2 DEF Typed, TypeOK
<1> QED
  BY <1>1, <1>2, <1>3, SocketsTyped

LEMMA LeavesTyped ==
    ASSUME Typed, Disconnect
    PROVE  Typed'
<1>1. /\ UNCHANGED <<scope, rx, ack, linked, agent, turn, handled, cut, server, wire, runQ, proxy, told, early, down>>
      /\ sock' = [c \in Channels |-> "closed"] /\ gone' = TRUE
  BY DEF Disconnect
<1>2. /\ sock' \in [Channels -> {"none", "connecting", "open", "closed"}]
      /\ runQ \in Seq(Channels) /\ proxy \in Channels \cup {None}
      /\ down \in [Channels -> Seq(Units)] /\ {told, gone', early} \subseteq BOOLEAN
  BY <1>1 DEF Typed, TypeOK
<1> QED
  BY <1>1, <1>2, SocketsTyped

LEMMA ReceivesTyped ==
    ASSUME Typed, NEW c \in Channels, NEW k \in 1 .. Len(down[c]), Receives(c, k)
    PROVE  Typed'
<1> DEFINE chunk == SubSeq(down[c], 1, k)
           r == Push(rx[c], chunk)
<1>1. /\ UNCHANGED <<scope, sock, ack, linked, runQ, proxy, agent, told, gone, handled, early, server, wire>>
      /\ down' = [down EXCEPT ![c] = SubSeq(@, k + 1, Len(@))]
      /\ rx' = [rx EXCEPT ![c] = r] /\ turn' = IF Ready(r) THEN c ELSE None
  BY DEF Receives
<1>2. down[c] \in Seq(Units) /\ Shaped(rx[c]) /\ rx \in [Channels -> Receivers]
  BY DEF Typed, TypeOK
<1>3. chunk \in Seq(Units) /\ SubSeq(down[c], k + 1, Len(down[c])) \in Seq(Units)
  <2>1. k \in 0 .. Len(down[c]) /\ k \in Nat
    BY <1>2
  <2>2. chunk \in Seq(Units)
    <3>1. \A i \in 1 .. k : down[c][i] \in Units
      BY <1>2
    <3> QED
      BY <2>1, <3>1, SubSeqProperties
  <2> QED
    BY <1>2, <2>1, <2>2, Drop
<1>4. Shaped(r)
  BY <1>2, <1>3, PushShaped
<1> HIDE DEF r, chunk
<1>5. r \in Receivers
  BY <1>4 DEF Shaped
<1>6. down' \in [Channels -> Seq(Units)] /\ rx' \in [Channels -> Receivers]
      /\ turn' \in Channels \cup {None}
  BY <1>1, <1>2, <1>3, <1>5 DEF Typed
<1>7. /\ rx'[c] = r /\ \A d \in Channels : d # c => rx'[d] = rx[d]
      /\ turn' # None => turn' = c /\ Ready(r)
  BY <1>1, <1>2
<1>10. cut' \subseteq Channels \X Nat
  <2> DEFINE D == down[c]
  <2>1. D \in Seq(Units) /\ k \in 1 .. Len(D)
    BY <1>2
  <2> HIDE DEF D
  <2>5. D[k] \in Units
    BY <2>1
  <2>6. D[k].n \in Nat
    BY <2>5 DEF Units
  <2>2. down[c][k].n \in Nat
    BY <2>6 DEF D
  <2>3. cut \subseteq Channels \X Nat
    BY DEF Typed, TypeOK
  <2>4. cut' \subseteq cut \cup {<<c, down[c][k].n>>}
    BY DEF Receives
  <2> QED
    BY <2>2, <2>3, <2>4
<1>8. TypeOK'
  BY <1>1, <1>6, <1>10 DEF Typed, TypeOK
<1>9. \A d \in Channels : Shaped(rx'[d])
  BY <1>4, <1>7 DEF Typed
<1> QED
  BY <1>1, <1>6, <1>7, <1>8, <1>9 DEF Typed

LEMMA TakesTyped ==
    ASSUME Typed, NEW c \in Channels, NEW size \in Nat, Takes(c, size)
    PROVE  /\ rx' \in [Channels -> Receivers] /\ turn' \in Channels \cup {None}
           /\ \A d \in Channels : Shaped(rx'[d])
           /\ turn' # None => Ready(rx'[turn'])
           /\ UNCHANGED <<scope, gone, cut, early, down, server, wire>>
<1> DEFINE r == TakeNext(rx[c], size)
<1>1. /\ turn = c /\ rx' = [rx EXCEPT ![c] = r] /\ turn' = IF Ready(r) THEN c ELSE None
      /\ UNCHANGED <<scope, gone, cut, early, down, server, wire>>
  BY DEF Takes
<1>2. Shaped(rx[c]) /\ Ready(rx[c]) /\ rx \in [Channels -> Receivers]
  <2>1. c # None
    BY SessionAssumption
  <2> QED
    BY <1>1, <2>1 DEF Typed, TypeOK
<1>3. Shaped(r)
  BY <1>2, TakeShaped
<1> HIDE DEF r
<1>4. r \in Receivers
  BY <1>3 DEF Shaped
<1>5. rx'[c] = r /\ \A d \in Channels : d # c => rx'[d] = rx[d]
  BY <1>1, <1>2
<1> QED
  BY <1>1, <1>2, <1>3, <1>4, <1>5 DEF Typed

LEMMA HandlesTyped ==
    ASSUME Typed, NEW c \in Channels, Handles(c)
    PROVE  Typed'
<1>1. \A kind : BodySize(kind) \in Nat
  BY Sizes
<1>2. ASSUME HeaderTaken(c) PROVE Typed'
  <2>1. \E size \in Nat : Takes(c, size)
    BY <1>1, <1>2 DEF HeaderTaken
  <2>2. PICK size \in Nat : Takes(c, size)
    BY <2>1
  <2>3. UNCHANGED <<sock, ack, linked, runQ, proxy, agent, told, handled>>
    BY <1>2 DEF HeaderTaken
  <2>4. /\ rx' \in [Channels -> Receivers] /\ turn' \in Channels \cup {None}
        /\ \A d \in Channels : Shaped(rx'[d])
        /\ turn' # None => Ready(rx'[turn'])
        /\ UNCHANGED <<scope, gone, cut, early, down, server, wire>>
    BY <2>2, TakesTyped
  <2>5. TypeOK'
    BY <2>3, <2>4 DEF Typed, TypeOK
  <2> QED
    BY <2>4, <2>5 DEF Typed
<1>3. ASSUME ReplyTaken(c) \/ ErrorCodeTaken(c) PROVE Typed'
  <2>1. /\ Takes(c, 0) /\ UNCHANGED <<ack, runQ, proxy, agent, handled>>
        /\ linked' \in {linked, linked \cup {c}}
        /\ UNCHANGED <<sock, told>> \/ \E packets : SendAll(c, packets)
    BY <1>3 DEF ReplyTaken, ErrorCodeTaken
  <2>2. /\ rx' \in [Channels -> Receivers] /\ turn' \in Channels \cup {None}
        /\ \A d \in Channels : Shaped(rx'[d])
        /\ turn' # None => Ready(rx'[turn'])
        /\ UNCHANGED <<scope, gone, cut, early, down, server, wire>>
    BY <2>1, TakesTyped
  <2>3. sock' \in [Channels -> {"none", "connecting", "open", "closed"}] /\ told' \in BOOLEAN
    <3>1. TypeOK
      BY DEF Typed
    <3> QED
      BY <2>1, <3>1, SendTyped DEF TypeOK
  <2>4. linked' \subseteq Channels
    BY <2>1 DEF Typed, TypeOK
  <2>5. TypeOK'
    BY <2>1, <2>2, <2>3, <2>4 DEF Typed, TypeOK
  <2> QED
    BY <2>2, <2>5 DEF Typed
<1>4. ASSUME MessageTaken(c) PROVE Typed'
  <2> DEFINE n == Complete(rx[c])
             kind == IF n = 0 THEN "garbled" ELSE KindOf(c, n)
  <2>1. /\ rx[c].phase = "body" /\ Takes(c, 0) /\ linked' = linked
        /\ handled' = [handled EXCEPT ![c] = Append(@, n)]
        /\ ack' = [ack EXCEPT ![c] = IF kind = "setAck" THEN SetAck(c) ELSE Counted(c)]
        /\ agent' = IF kind = "agent" THEN AgentData[1] ELSE agent
        /\ \/ RunNext(sock, runQ \o scope.listed) /\ UNCHANGED told
           \/ (\E packets : SendAll(c, packets)) /\ runQ' \in {runQ, runQ \o scope.listed} /\ UNCHANGED proxy
    BY <1>4 DEF MessageTaken
  <2>2. /\ rx' \in [Channels -> Receivers] /\ turn' \in Channels \cup {None}
        /\ \A d \in Channels : Shaped(rx'[d])
        /\ turn' # None => Ready(rx'[turn'])
        /\ UNCHANGED <<scope, gone, cut, early, down, server, wire>>
    BY <2>1, TakesTyped
  <2>3. n \in Nat
    <3>1. rx[c].header \in Seq(Units) /\ Len(rx[c].header) = 2
      BY <2>1 DEF Typed, Shaped, Receivers, HeaderSize
    <3>2. rx[c].header[1] \in Units
      BY <3>1
    <3> QED
      BY <3>2 DEF Complete, Units
  <2> HIDE DEF n, kind
  <2>4. handled' \in [Channels -> Seq(Nat)]
    BY <2>1, <2>3 DEF Typed, TypeOK
  <2>5. ack' \in [Channels -> [counter : Nat, window : {0, Window}]]
    <3>1. ack[c] \in [counter : Nat, window : {0, Window}] /\ DOMAIN ack = Channels
      BY DEF Typed, TypeOK
    <3>2. SetAck(c) \in [counter : Nat, window : {0, Window}]
      BY DEF SetAck
    <3>3. Counted(c) \in [counter : Nat, window : {0, Window}]
      BY <3>1 DEF Counted
    <3> QED
      BY <2>1, <3>2, <3>3 DEF Typed, TypeOK
  <2>6. agent' \in 1 .. Tokens
    <3>1. Tokens \in Nat \ {0} /\ agent \in 1 .. Tokens
      BY SessionAssumption DEF Typed, TypeOK
    <3>2. AgentData[1] = IF agent = 1 THEN Tokens ELSE agent - 1
      BY DEF AgentData
    <3> QED
      BY <2>1, <3>1, <3>2
  <2>7. /\ sock' \in [Channels -> {"none", "connecting", "open", "closed"}] /\ told' \in BOOLEAN
        /\ runQ' \in Seq(Channels) /\ proxy' \in Channels \cup {None}
    <3>1. TypeOK /\ scope.listed \in Seq(Channels)
      BY ScopeTyped DEF Typed
    <3>2. /\ sock \in [Channels -> {"none", "connecting", "open", "closed"}] /\ told \in BOOLEAN
          /\ runQ \in Seq(Channels) /\ proxy \in Channels \cup {None}
      BY <3>1 DEF TypeOK
    <3>3. runQ \o scope.listed \in Seq(Channels)
      BY <3>1, <3>2
    <3> QED
      BY <2>1, <3>1, <3>2, <3>3, SendTyped, RunTyped
  <2>8. TypeOK'
    BY <2>1, <2>2, <2>4, <2>5, <2>6, <2>7 DEF Typed, TypeOK
  <2> QED
    BY <2>2, <2>8 DEF Typed
<1> QED
  BY <1>2, <1>3, <1>4 DEF Handles

\* The server sends: the messages it sends are of some kind.
LEMMA SentTyped ==
    ASSUME Typed, NEW c \in Channels, NEW kinds, Sent(c, kinds),
           kinds = <<>> \/ \E kind \in Kinds : kinds = <<kind>>,
           NEW t, server' = [server EXCEPT ![c] = t],
           "script" \in DOMAIN t, t.script \in Seq(Messages),
           UNCHANGED <<scope, sock, rx, ack, linked, runQ, proxy, agent, told, gone, turn, handled, cut, early>>
    PROVE  Typed'
<1>1. /\ wire \in [Channels -> Seq(Kinds)] /\ down \in [Channels -> Seq(Units)]
      /\ DOMAIN server = Channels
  BY DEF Typed, TypeOK
<1>2. wire' \in [Channels -> Seq(Kinds)]
  <2>1. wire[c] \o kinds \in Seq(Kinds)
    <3>1. wire[c] \in Seq(Kinds)
      BY <1>1
    <3>2. CASE kinds = <<>>
      BY <3>1, <3>2
    <3>3. ASSUME NEW kind \in Kinds, kinds = <<kind>>
          PROVE  kinds \in Seq(Kinds)
      BY <3>3
    <3>4. CASE kinds # <<>>
      <4>1. kinds \in Seq(Kinds)
        BY <3>3, <3>4
      <4> QED
        BY <3>1, <4>1
    <3> QED
      BY <3>2, <3>4
  <2> QED
    BY <1>1, <2>1 DEF Sent
<1>3. down' \in [Channels -> Seq(Units)]
  <2>1. CASE kinds = <<>>
    BY <1>1, <2>1 DEF Sent
  <2>2. CASE kinds # <<>>
    <3>1. Len(wire[c]) + 1 \in Nat
      BY <1>1
    <3>2. UnitsSent(Len(wire[c]) + 1, kinds[1]) \in Seq(Units)
      BY <3>1, UnitsAre
    <3>3. down[c] \o UnitsSent(Len(wire[c]) + 1, kinds[1]) \in Seq(Units)
      BY <1>1, <3>2
    <3> QED
      BY <1>1, <2>2, <3>3 DEF Sent
  <2> QED
    BY <2>1, <2>2
<1>4. /\ DOMAIN server' = Channels
      /\ \A d \in Channels : server'[d] = IF d = c THEN t ELSE server[d]
  BY <1>1
<1>5. \A d \in Channels : "script" \in DOMAIN server'[d] /\ server'[d].script \in Seq(Messages)
  BY <1>4 DEF Typed
<1>6. TypeOK'
  BY <1>2 DEF Typed, TypeOK
<1> QED
  BY <1>3, <1>4, <1>5, <1>6 DEF Typed

LEMMA ReadsTyped ==
    ASSUME Typed, NEW c \in Channels, ServerReads(c)
    PROVE  Typed'
<1> DEFINE s == server[c]
           p == Head(up[c])
           answered(t, kinds) ==
               server' = [server EXCEPT ![c] = t] /\ Sent(c, kinds)
<1>1. "script" \in DOMAIN s /\ s.script \in Seq(Messages)
  BY DEF Typed
<1>2. UNCHANGED <<scope, sock, rx, ack, linked, runQ, proxy, agent, told, gone, turn, handled, cut, early>>
  BY DEF ServerReads, client
<1>3. \/ answered([s EXCEPT !.state = "ticket"], <<"reply">>)
      \/ answered([s EXCEPT !.state = "up"], <<"ok">>)
      \/ answered([s EXCEPT !.state = "closed"], <<"denied">>)
      \/ answered([s EXCEPT !.attached = TRUE], <<>>)
      \/ answered([s EXCEPT !.tokens = p.n, !.started = TRUE], <<>>)
      \/ answered([s EXCEPT !.tokens = s.tokens + p.n], <<>>)
      \/ answered([s EXCEPT !.unacked = s.unacked - s.window], <<>>)
      \/ answered(s, <<>>)
  BY DEF ServerReads
<1>4. {"reply", "ok", "denied"} \subseteq Kinds
  BY DEF Kinds
<1>5. ASSUME NEW t, NEW kinds, answered(t, kinds), "script" \in DOMAIN t, t.script = s.script,
             kinds = <<>> \/ \E kind \in Kinds : kinds = <<kind>>
      PROVE  Typed'
  BY <1>1, <1>2, <1>5, SentTyped
<1> HIDE DEF answered, s, p
<1>6. ASSUME NEW x
      PROVE  /\ LET t == [s EXCEPT !.state = x] IN "script" \in DOMAIN t /\ t.script = s.script
             /\ LET t == [s EXCEPT !.attached = x] IN "script" \in DOMAIN t /\ t.script = s.script
             /\ LET t == [s EXCEPT !.tokens = x, !.started = TRUE]
                IN  "script" \in DOMAIN t /\ t.script = s.script
             /\ LET t == [s EXCEPT !.tokens = x] IN "script" \in DOMAIN t /\ t.script = s.script
             /\ LET t == [s EXCEPT !.unacked = x] IN "script" \in DOMAIN t /\ t.script = s.script
  BY <1>1
<1>7. CASE answered([s EXCEPT !.state = "ticket"], <<"reply">>)
  BY <1>4, <1>5, <1>6, <1>7
<1>8. CASE answered([s EXCEPT !.state = "up"], <<"ok">>)
  BY <1>4, <1>5, <1>6, <1>8
<1>9. CASE answered([s EXCEPT !.state = "closed"], <<"denied">>)
  BY <1>4, <1>5, <1>6, <1>9
<1>10. CASE answered([s EXCEPT !.attached = TRUE], <<>>)
  BY <1>5, <1>6, <1>10
<1>11. CASE answered([s EXCEPT !.tokens = p.n, !.started = TRUE], <<>>)
  BY <1>5, <1>6, <1>11
<1>12. CASE answered([s EXCEPT !.tokens = s.tokens + p.n], <<>>)
  BY <1>5, <1>6, <1>12
<1>13. CASE answered([s EXCEPT !.unacked = s.unacked - s.window], <<>>)
  BY <1>5, <1>6, <1>13
<1>14. CASE answered(s, <<>>)
  BY <1>1, <1>5, <1>14
<1> QED
  BY <1>3, <1>7, <1>8, <1>9, <1>10, <1>11, <1>12, <1>13, <1>14

LEMMA SendsTyped ==
    ASSUME Typed, NEW c \in Channels, ServerSends(c)
    PROVE  Typed'
<1> DEFINE s == server[c]
           kind == Head(s.script)
           counted == [s EXCEPT !.script = Tail(s.script),
                                !.unacked = IF s.window = 0 THEN s.unacked ELSE s.unacked + 1]
           t == CASE kind = "setAck" -> [counted EXCEPT !.window = Window, !.unacked = 0]
                  [] kind = "agent" -> [counted EXCEPT !.tokens = counted.tokens - 1]
                  [] kind = "agentUp" -> [counted EXCEPT !.started = FALSE]
                  [] OTHER -> counted
<1>1. "script" \in DOMAIN s /\ s.script \in Seq(Messages)
  BY DEF Typed
<1>2. UNCHANGED <<scope, sock, rx, ack, linked, runQ, proxy, agent, told, gone, turn, handled, cut, early>>
  BY DEF ServerSends, client
<1>3. s.script # <<>> /\ server' = [server EXCEPT ![c] = t] /\ Sent(c, <<kind>>)
  BY DEF ServerSends
<1>4. kind \in Kinds /\ Tail(s.script) \in Seq(Messages)
  BY <1>1, <1>3 DEF Messages
<1> HIDE DEF s, kind
<1>5. "script" \in DOMAIN counted /\ counted.script = Tail(s.script)
  BY <1>1
<1> HIDE DEF counted
<1>6. "script" \in DOMAIN t /\ t.script = Tail(s.script)
  <2>1. CASE kind = "setAck"
    <3>1. t = [counted EXCEPT !.window = Window, !.unacked = 0]
      BY <2>1
    <3> HIDE DEF t
    <3> QED
      BY <1>5, <3>1
  <2>2. CASE kind = "agent"
    <3>1. t = [counted EXCEPT !.tokens = counted.tokens - 1]
      BY <2>2
    <3> HIDE DEF t
    <3> QED
      BY <1>5, <3>1
  <2>3. CASE kind = "agentUp"
    <3>1. t = [counted EXCEPT !.started = FALSE]
      BY <2>3
    <3> HIDE DEF t
    <3> QED
      BY <1>5, <3>1
  <2>4. CASE kind \notin {"setAck", "agent", "agentUp"}
    <3>1. t = counted
      BY <2>4
    <3> HIDE DEF t
    <3> QED
      BY <1>5, <3>1
  <2> QED
    BY <2>1, <2>2, <2>3, <2>4
<1> HIDE DEF t
<1> QED
  BY <1>2, <1>3, <1>4, <1>6, SentTyped

LEMMA TypedInit ==
    ASSUME Init
    PROVE  Typed
<1>1. /\ scope \in Scopes /\ "main" \in Channels /\ Tokens \in Nat \ {0}
      /\ scope.scripts \in [Channels -> Seq(Messages)]
  BY SessionAssumption DEF Init, ScopeSet
<1>2. Shaped(NewReceiver)
  <2> DEFINE r == NewReceiver
  <2>1. /\ r \in Receivers /\ r.unread = <<>> /\ r.w = 0 /\ r.phase = "reply"
    BY DEF NewReceiver, Receivers, Phases, HeaderSize
  <2> HIDE DEF r
  <2> QED
    BY <2>1 DEF Shaped, r
<1>3. NewReceiver \in Receivers
  BY <1>2 DEF Shaped
<1>4. /\ sock = [c \in Channels |-> IF c = "main" THEN "connecting" ELSE "none"]
      /\ rx = [c \in Channels |-> NewReceiver]
      /\ ack = [c \in Channels |-> [counter |-> 0, window |-> 0]]
      /\ linked = {} /\ runQ = <<>> /\ proxy = None /\ agent = Tokens
      /\ told = FALSE /\ gone = FALSE /\ early = FALSE /\ cut = {} /\ turn = None
      /\ down = [c \in Channels |-> <<>>] /\ wire = [c \in Channels |-> <<>>]
      /\ handled = [c \in Channels |-> <<>>]
  BY DEF Init
<1>5. TypeOK
  <2>1. /\ sock \in [Channels -> {"none", "connecting", "open", "closed"}]
        /\ rx \in [Channels -> Receivers]
    BY <1>3, <1>4
  <2>2. ack \in [Channels -> [counter : Nat, window : {0, Window}]]
    BY <1>4
  <2>3. /\ linked \subseteq Channels /\ runQ \in Seq(Channels)
        /\ proxy \in Channels \cup {None} /\ turn \in Channels \cup {None}
        /\ agent \in 1 .. Tokens /\ {told, gone, early} \subseteq BOOLEAN
    <3>1. linked \subseteq Channels /\ runQ \in Seq(Channels)
      BY <1>4
    <3>2. proxy \in Channels \cup {None} /\ turn \in Channels \cup {None}
      BY <1>4
    <3>3. agent \in 1 .. Tokens
      BY <1>1, <1>4
    <3>4. {told, gone, early} \subseteq BOOLEAN
      BY <1>4
    <3> QED
      BY <3>1, <3>2, <3>3, <3>4
  <2>4. /\ wire \in [Channels -> Seq(Kinds)] /\ handled \in [Channels -> Seq(Nat)]
        /\ cut \subseteq Channels \X Nat
    BY <1>4
  <2> QED
    BY <1>1, <2>1, <2>2, <2>3, <2>4 DEF TypeOK
<1>6. /\ DOMAIN server = Channels
      /\ \A c \in Channels : "script" \in DOMAIN server[c] /\ server[c].script = scope.scripts[c]
  BY DEF Init
<1>7. \A c \in Channels : Shaped(rx[c])
  BY <1>2, <1>4
<1>8. down \in [Channels -> Seq(Units)]
  BY <1>4
<1> QED
  BY <1>1, <1>4, <1>5, <1>6, <1>7, <1>8 DEF Typed

LEMMA TypedKept == Typed /\ [Next]_vars => Typed'
<1> SUFFICES ASSUME Typed, [Next]_vars PROVE Typed'
  OBVIOUS
<1>1. CASE UNCHANGED vars
  BY <1>1 DEF Typed, TypeOK, vars, client
<1>2. ASSUME Types \/ Resizes PROVE Typed'
  <2>1. {"inputs", "main"} \subseteq Channels
    BY SessionAssumption
  <2> QED
    BY <1>2, <2>1, UserTyped DEF Types, Resizes
<1>3. ASSUME NEW c \in Channels, SocketCloses(c) \/ SocketFails(c) PROVE Typed'
  BY <1>3, LostTyped DEF SocketCloses, SocketFails
<1> QED
  BY <1>1, <1>2, <1>3, OpensTyped, LeavesTyped, ReceivesTyped, HandlesTyped, ReadsTyped, SendsTyped
     DEF Next, Protocol

\* The types of the session, whatever the scopes: the client's count of the
\* agent's tokens stays between one and what is granted, and no receiver takes
\* more from its queue (PacketReassembler, SizeDefiner) than is there.
THEOREM SessionIsTyped == Spec => []TypeOK
<1>1. Typed => TypeOK
  BY DEF Typed
<1> QED
  BY <1>1, TypedInit, TypedKept, PTL DEF Spec
=============================================================================
