-------------------------- MODULE DesktopFeedProofs --------------------------
(***************************************************************************)
(* Theorems about the feeds and the stores of the browser, for any         *)
(* desktops, deployments, tags and situations.                             *)
(*                                                                         *)
(*   Basic            types; who is listening; which rows are inserted     *)
(*   LinesRight       of what is queued, held and on the wire about a      *)
(*   DepLinesRight    desktop, a deployment or its summary, the last one   *)
(*   SumsRight        tells what the tables say now                        *)
(*   DesktopsRight    a list that missed nothing is right about all that   *)
(*   DeploymentsRight nothing more is to come about                        *)
(*   PageRight                                                             *)
(*                                                                         *)
(* "The last one" is Settled: what is queued of a kind is right unless     *)
(* something comes after it.  A line is a wire, a thread's hand and its    *)
(* queue, in this order (Right, Clear).  The first lemmas say what adding, *)
(* taking, holding and telling do to a line; then there is a lemma per     *)
(* action for the types, the lines and the lists.                          *)
(***************************************************************************)
EXTENDS DesktopFeed, SequenceLemmas, SequenceTheorems

-----------------------------------------------------------------------------
(* Queues. *)

\* Nothing of T is in the queue.
Free(q, T) == \A i \in 1 .. Len(q) : q[i] \notin T

\* What is of A is of G, unless something of U comes after it.
Settled(q, A, U, G) ==
    \A i \in 1 .. Len(q) :
        q[i] \in A /\ (\A j \in 1 .. Len(q) : j > i => q[j] \notin U) => q[i] \in G

\* What a thread's queues hold: events on the wire, what it holds, what it has not taken.
Clear(w, h, c, T) == Free(w, T.wire) /\ Free(h, T.held) /\ Free(c, T.queue)
Right(w, h, c, A, U, G) ==
    /\ Settled(c, A.queue, U.queue, G.queue)
    /\ Free(c, U.queue) => Settled(h, A.held, U.held, G.held)
    /\ Free(c, U.queue) /\ Free(h, U.held) => Settled(w, A.wire, U.wire, G.wire)

\* Joined queues are free of T when both are.
LEMMA FreeConcat ==
    ASSUME NEW S, NEW a \in Seq(S), NEW b \in Seq(S), NEW T
    PROVE  Free(a \o b, T) <=> Free(a, T) /\ Free(b, T)
<1> DEFINE q == a \o b
<1>1. /\ Len(a) \in Nat /\ Len(b) \in Nat /\ Len(q) = Len(a) + Len(b)
      /\ \A i \in 1 .. Len(a) : q[i] = a[i]
      /\ \A i \in 1 .. Len(b) : q[Len(a) + i] = b[i]
  BY ConcatProperties
<1> HIDE DEF q
<1>2. ASSUME Free(q, T) PROVE Free(a, T)
  <2>1. \A i \in 1 .. Len(a) : i \in 1 .. Len(q)
    BY <1>1
  <2> QED
    BY <1>1, <1>2, <2>1 DEF Free
<1>3. ASSUME Free(q, T) PROVE Free(b, T)
  <2>1. \A i \in 1 .. Len(b) : Len(a) + i \in 1 .. Len(q)
    BY <1>1
  <2> QED
    BY <1>1, <1>3, <2>1 DEF Free
<1>4. ASSUME Free(a, T), Free(b, T) PROVE Free(q, T)
  <2>1. ASSUME NEW i \in 1 .. Len(q) PROVE q[i] \notin T
    <3>1. CASE i <= Len(a)
      BY <1>1, <1>4, <3>1 DEF Free
    <3>2. CASE i > Len(a)
      <4>1. i - Len(a) \in 1 .. Len(b) /\ Len(a) + (i - Len(a)) = i
        BY <1>1, <3>2
      <4>2. q[i] = b[i - Len(a)]
        BY <1>1, <4>1
      <4> QED
        BY <1>4, <4>1, <4>2 DEF Free
    <3> QED
      BY <1>1, <3>1, <3>2
  <2> QED
    BY <2>1 DEF Free
<1> QED
  BY <1>2, <1>3, <1>4 DEF q

\* Joined queues: what is in the first one may be covered by what is in the second.
LEMMA SettledConcat ==
    ASSUME NEW S, NEW a \in Seq(S), NEW b \in Seq(S), NEW A, NEW U, NEW G
    PROVE  Settled(a \o b, A, U, G) <=>
               Settled(b, A, U, G) /\ (Free(b, U) => Settled(a, A, U, G))
<1> DEFINE q == a \o b
<1>1. /\ Len(a) \in Nat /\ Len(b) \in Nat /\ Len(q) = Len(a) + Len(b)
      /\ \A i \in 1 .. Len(a) : q[i] = a[i]
      /\ \A i \in 1 .. Len(b) : q[Len(a) + i] = b[i]
  BY ConcatProperties
<1> HIDE DEF q
<1>0. \A j \in 1 .. Len(q) : j > Len(a) =>
          j - Len(a) \in 1 .. Len(b) /\ j - Len(a) \in Int /\ Len(a) + (j - Len(a)) = j /\ q[j] = b[j - Len(a)]
  <2>1. ASSUME NEW j \in 1 .. Len(q), j > Len(a)
        PROVE  j - Len(a) \in 1 .. Len(b) /\ j - Len(a) \in Int /\ Len(a) + (j - Len(a)) = j
    BY <1>1, <2>1
  <2> QED
    BY <1>1, <2>1
<1>2. ASSUME Settled(q, A, U, G) PROVE Settled(b, A, U, G)
  <2>1. ASSUME NEW i \in 1 .. Len(b), b[i] \in A, \A j \in 1 .. Len(b) : j > i => b[j] \notin U
        PROVE  b[i] \in G
    <3>1. Len(a) + i \in 1 .. Len(q) /\ q[Len(a) + i] = b[i]
      BY <1>1
    <3>2. ASSUME NEW j \in 1 .. Len(q), j > Len(a) + i PROVE q[j] \notin U
      <4>1. j > Len(a) /\ j - Len(a) > i
        BY <1>1, <3>2
      <4> QED
        BY <1>0, <2>1, <4>1
    <3> QED
      BY <1>2, <2>1, <3>1, <3>2 DEF Settled
  <2> QED
    BY <2>1 DEF Settled
<1>3. ASSUME Settled(q, A, U, G), Free(b, U) PROVE Settled(a, A, U, G)
  <2>1. ASSUME NEW i \in 1 .. Len(a), a[i] \in A, \A j \in 1 .. Len(a) : j > i => a[j] \notin U
        PROVE  a[i] \in G
    <3>1. i \in 1 .. Len(q) /\ q[i] = a[i]
      BY <1>1
    <3>2. ASSUME NEW j \in 1 .. Len(q), j > i PROVE q[j] \notin U
      <4>1. CASE j <= Len(a)
        BY <1>1, <2>1, <3>2, <4>1
      <4>2. CASE j > Len(a)
        BY <1>0, <1>3, <4>2 DEF Free
      <4> QED
        BY <1>1, <4>1, <4>2
    <3> QED
      BY <1>3, <2>1, <3>1, <3>2 DEF Settled
  <2> QED
    BY <2>1 DEF Settled
<1>4. ASSUME Settled(b, A, U, G), Free(b, U) => Settled(a, A, U, G) PROVE Settled(q, A, U, G)
  <2>1. ASSUME NEW i \in 1 .. Len(q), q[i] \in A, \A j \in 1 .. Len(q) : j > i => q[j] \notin U
        PROVE  q[i] \in G
    <3>1. CASE i <= Len(a)
      <4>1. i \in 1 .. Len(a) /\ q[i] = a[i]
        BY <1>1, <3>1
      <4>2. Free(b, U)
        <5>1. ASSUME NEW j \in 1 .. Len(b) PROVE b[j] \notin U
          <6>1. Len(a) + j \in 1 .. Len(q) /\ Len(a) + j > i /\ q[Len(a) + j] = b[j]
            BY <1>1, <3>1
          <6> QED
            BY <2>1, <6>1
        <5> QED
          BY <5>1 DEF Free
      <4>3. \A j \in 1 .. Len(a) : j > i => a[j] \notin U
        <5>1. \A j \in 1 .. Len(a) : j \in 1 .. Len(q) /\ q[j] = a[j]
          BY <1>1
        <5> QED
          BY <2>1, <5>1
      <4> QED
        BY <1>4, <2>1, <4>1, <4>2, <4>3 DEF Settled
    <3>2. CASE i > Len(a)
      <4>1. i - Len(a) \in 1 .. Len(b) /\ q[i] = b[i - Len(a)]
        BY <1>0, <3>2
      <4>2. ASSUME NEW j \in 1 .. Len(b), j > i - Len(a) PROVE b[j] \notin U
        <5>1. Len(a) + j \in 1 .. Len(q) /\ Len(a) + j > i /\ q[Len(a) + j] = b[j]
          BY <1>1, <4>2
        <5> QED
          BY <2>1, <5>1
      <4> QED
        BY <1>4, <2>1, <4>1, <4>2 DEF Settled
    <3> QED
      BY <1>1, <3>1, <3>2
  <2> QED
    BY <2>1 DEF Settled
<1> QED
  BY <1>2, <1>3, <1>4 DEF q

\* A queue of nothing, and of one thing.
LEMMA FreeShort ==
    ASSUME NEW T
    PROVE  Free(<<>>, T) /\ \A x : Free(<<x>>, T) <=> x \notin T
<1>1. \A x : Len(<<x>>) = 1 /\ <<x>>[1] = x /\ 1 .. 1 = {1}
  OBVIOUS
<1>2. Free(<<>>, T)
  BY DEF Free
<1>3. ASSUME NEW x PROVE Free(<<x>>, T) <=> x \notin T
  BY <1>1 DEF Free
<1> QED
  BY <1>2, <1>3

LEMMA SettledShort ==
    ASSUME NEW A, NEW U, NEW G
    PROVE  Settled(<<>>, A, U, G) /\ \A x : Settled(<<x>>, A, U, G) <=> (x \in A => x \in G)
<1>1. \A x : Len(<<x>>) = 1 /\ <<x>>[1] = x /\ 1 .. 1 = {1} /\ ~ (1 > 1)
  OBVIOUS
<1>2. Settled(<<>>, A, U, G)
  BY DEF Settled
<1>3. ASSUME NEW x PROVE Settled(<<x>>, A, U, G) <=> (x \in A => x \in G)
  BY <1>1 DEF Settled
<1> QED
  BY <1>2, <1>3

\* A queue of one that is taken, and the rest.
LEMMA HeadAndTail ==
    ASSUME NEW S, NEW q \in Seq(S), q # <<>>
    PROVE  Head(q) \in S /\ Tail(q) \in Seq(S) /\ q = <<Head(q)>> \o Tail(q) /\ <<Head(q)>> \in Seq(S)
<1>1. Head(q) \in S /\ Tail(q) \in Seq(S) /\ Len(q) = Len(Tail(q)) + 1 /\ Len(Tail(q)) \in Nat
  OBVIOUS
<1> DEFINE p == <<Head(q)>> \o Tail(q)
<1>2. p \in Seq(S) /\ Len(p) = Len(q) /\ <<Head(q)>> \in Seq(S)
  BY <1>1
<1>3. ASSUME NEW i \in 1 .. Len(q) PROVE p[i] = q[i]
  BY <1>1
<1> HIDE DEF p
<1>4. p = q
  BY <1>2, <1>3
<1> QED
  BY <1>1, <1>2, <1>4 DEF p

\* Nothing of A: right whatever G.
LEMMA NothingIsSettled ==
    ASSUME NEW q, NEW A, NEW U, NEW G, Free(q, A)
    PROVE  Settled(q, A, U, G)
  BY DEF Free, Settled

LEMMA ClearIsRight ==
    ASSUME NEW w, NEW h, NEW c, NEW A, NEW U, NEW G, Clear(w, h, c, A)
    PROVE  Right(w, h, c, A, U, G)
  BY NothingIsSettled DEF Clear, Right

\* What is of A and G is of the other G too.
LEMMA StillSettled ==
    ASSUME NEW q, NEW A, NEW U, NEW G, NEW H, Settled(q, A, U, G),
           \A i \in 1 .. Len(q) : q[i] \in A /\ q[i] \in G => q[i] \in H
    PROVE  Settled(q, A, U, H)
  BY DEF Settled

LEMMA StillRight ==
    ASSUME NEW w, NEW h, NEW c, NEW A, NEW U, NEW G, NEW H, Right(w, h, c, A, U, G),
           A.wire \cap G.wire \subseteq H.wire, A.held \cap G.held \subseteq H.held,
           A.queue \cap G.queue \subseteq H.queue
    PROVE  Right(w, h, c, A, U, H)
<1>1. ASSUME Settled(w, A.wire, U.wire, G.wire) PROVE Settled(w, A.wire, U.wire, H.wire)
  BY <1>1, StillSettled
<1>2. ASSUME Settled(h, A.held, U.held, G.held) PROVE Settled(h, A.held, U.held, H.held)
  BY <1>2, StillSettled
<1>3. ASSUME Settled(c, A.queue, U.queue, G.queue) PROVE Settled(c, A.queue, U.queue, H.queue)
  BY <1>3, StillSettled
<1> QED
  BY Zenon, <1>1, <1>2, <1>3 DEF Right

\* Changes are queued.
LEMMA Queued ==
    ASSUME NEW S, NEW c \in Seq(S), NEW cs \in Seq(S), NEW w, NEW h, NEW A, NEW U, NEW G, NEW T
    PROVE  /\ Clear(w, h, c \o cs, T) <=> Clear(w, h, c, T) /\ Free(cs, T.queue)
           /\ Right(w, h, c \o cs, A, U, G) <=>
                  /\ Settled(cs, A.queue, U.queue, G.queue)
                  /\ Free(cs, U.queue) => Right(w, h, c, A, U, G)
<1>1. Free(c \o cs, T.queue) <=> Free(c, T.queue) /\ Free(cs, T.queue)
  BY FreeConcat
<1>2. Free(c \o cs, U.queue) <=> Free(c, U.queue) /\ Free(cs, U.queue)
  BY FreeConcat
<1>3. Settled(c \o cs, A.queue, U.queue, G.queue) <=>
         Settled(cs, A.queue, U.queue, G.queue) /\ (Free(cs, U.queue) => Settled(c, A.queue, U.queue, G.queue))
  BY SettledConcat
<1> QED
  BY Zenon, <1>1, <1>2, <1>3 DEF Clear, Right

\* What is emitted, and then held, stands for a change.
StandsFor(x, ev, h, A, U, G) ==
    /\ x \notin U.queue <=> Free(ev, U.wire) /\ Free(h, U.held)
    /\ (x \in A.queue => x \in G.queue) =>
           /\ Settled(h, A.held, U.held, G.held)
           /\ Free(h, U.held) => Settled(ev, A.wire, U.wire, G.wire)
CountsFor(x, ev, h, T) == x \notin T.queue <=> Free(ev, T.wire) /\ Free(h, T.held)

\* A change is taken: events are emitted and something may be held.
LEMMA Taken ==
    ASSUME NEW E, NEW w \in Seq(E), NEW ev \in Seq(E), NEW S, NEW c \in Seq(S), c # <<>>, NEW h,
           NEW A, NEW U, NEW G, NEW T
    PROVE  /\ CountsFor(Head(c), ev, h, T) => (Clear(w, <<>>, c, T) <=> Clear(w \o ev, h, Tail(c), T))
           /\ StandsFor(Head(c), ev, h, A, U, G) /\ Right(w, <<>>, c, A, U, G)
                 => Right(w \o ev, h, Tail(c), A, U, G)
<1> DEFINE x == Head(c)
           rest == Tail(c)
<1>1. rest \in Seq(S) /\ c = <<x>> \o rest /\ <<x>> \in Seq(S)
  BY HeadAndTail
<1> HIDE DEF x, rest
<1>2. \A R : Free(c, R) <=> x \notin R /\ Free(rest, R)
  <2>1. ASSUME NEW R PROVE Free(c, R) <=> x \notin R /\ Free(rest, R)
    <3>1. Free(<<x>> \o rest, R) <=> Free(<<x>>, R) /\ Free(rest, R)
      BY <1>1, FreeConcat
    <3>2. Free(<<x>>, R) <=> x \notin R
      BY FreeShort
    <3> QED
      BY <1>1, <3>1, <3>2
  <2> QED
    BY <2>1
<1>3. Settled(c, A.queue, U.queue, G.queue) <=>
         /\ Settled(rest, A.queue, U.queue, G.queue)
         /\ Free(rest, U.queue) => (x \in A.queue => x \in G.queue)
  <2>1. Settled(<<x>> \o rest, A.queue, U.queue, G.queue) <=>
           Settled(rest, A.queue, U.queue, G.queue) /\ (Free(rest, U.queue) => Settled(<<x>>, A.queue, U.queue, G.queue))
    BY <1>1, SettledConcat
  <2>2. Settled(<<x>>, A.queue, U.queue, G.queue) <=> (x \in A.queue => x \in G.queue)
    BY SettledShort
  <2> QED
    BY <1>1, <2>1, <2>2
<1>4. \A R : Free(w \o ev, R) <=> Free(w, R) /\ Free(ev, R)
  BY FreeConcat
<1>5. Settled(w \o ev, A.wire, U.wire, G.wire) <=>
         Settled(ev, A.wire, U.wire, G.wire) /\ (Free(ev, U.wire) => Settled(w, A.wire, U.wire, G.wire))
  BY SettledConcat
<1>6. \A R : Free(<<>>, R)
  BY FreeShort
<1>7. CountsFor(x, ev, h, T) => (Clear(w, <<>>, c, T) <=> Clear(w \o ev, h, rest, T))
  BY Zenon, <1>2, <1>4, <1>6 DEF Clear, CountsFor
<1>8. StandsFor(x, ev, h, A, U, G) /\ Right(w, <<>>, c, A, U, G) => Right(w \o ev, h, rest, A, U, G)
  <2> SUFFICES ASSUME StandsFor(x, ev, h, A, U, G), Right(w, <<>>, c, A, U, G)
               PROVE  Right(w \o ev, h, rest, A, U, G)
    OBVIOUS
  <2>1. Settled(rest, A.queue, U.queue, G.queue)
    BY Zenon, <1>3 DEF Right
  <2>2. ASSUME Free(rest, U.queue)
        PROVE  Settled(h, A.held, U.held, G.held) /\ (Free(h, U.held) => Settled(ev, A.wire, U.wire, G.wire))
    BY Zenon, <1>3, <2>2 DEF Right, StandsFor
  <2>3. ASSUME Free(rest, U.queue), Free(h, U.held), Free(ev, U.wire)
        PROVE  Settled(w, A.wire, U.wire, G.wire)
    <3>1. Free(c, U.queue)
      BY Zenon, <1>2, <2>3 DEF StandsFor
    <3> QED
      BY Zenon, <1>6, <3>1 DEF Right
  <2> QED
    BY Zenon, <1>4, <1>5, <2>1, <2>2, <2>3 DEF Right
<1> QED
  BY <1>7, <1>8 DEF x, rest

\* What is held is told.
LEMMA Told ==
    ASSUME NEW E, NEW w \in Seq(E), NEW ev \in Seq(E), NEW x, NEW c, NEW A, NEW U, NEW G, NEW T
    PROVE  /\ (x \notin T.held <=> Free(ev, T.wire)) => (Clear(w, <<x>>, c, T) <=> Clear(w \o ev, <<>>, c, T))
           /\ /\ x \notin U.held <=> Free(ev, U.wire)
              /\ (x \in A.held => x \in G.held) => Settled(ev, A.wire, U.wire, G.wire)
              /\ Right(w, <<x>>, c, A, U, G)
              => Right(w \o ev, <<>>, c, A, U, G)
<1>1. \A R : Free(w \o ev, R) <=> Free(w, R) /\ Free(ev, R)
  BY FreeConcat
<1>2. Settled(w \o ev, A.wire, U.wire, G.wire) <=>
         Settled(ev, A.wire, U.wire, G.wire) /\ (Free(ev, U.wire) => Settled(w, A.wire, U.wire, G.wire))
  BY SettledConcat
<1>3. \A R : Free(<<>>, R) /\ (Free(<<x>>, R) <=> x \notin R)
  BY FreeShort
<1>4. Settled(<<>>, A.held, U.held, G.held) /\ (Settled(<<x>>, A.held, U.held, G.held) <=> (x \in A.held => x \in G.held))
  BY SettledShort
<1> QED
  BY Zenon, <1>1, <1>2, <1>3, <1>4 DEF Clear, Right

\* What is held is replaced.
LEMMA Replaced ==
    ASSUME NEW w, NEW x, NEW y, NEW c, NEW A, NEW U, NEW G, NEW T
    PROVE  /\ (x \in T.held <=> y \in T.held) => (Clear(w, <<x>>, c, T) <=> Clear(w, <<y>>, c, T))
           /\ /\ x \in U.held <=> y \in U.held
              /\ (x \in A.held => x \in G.held) => (y \in A.held => y \in G.held)
              /\ Right(w, <<x>>, c, A, U, G)
              => Right(w, <<y>>, c, A, U, G)
<1>3. \A R : (Free(<<x>>, R) <=> x \notin R) /\ (Free(<<y>>, R) <=> y \notin R)
  BY FreeShort
<1>4. /\ Settled(<<y>>, A.held, U.held, G.held) <=> (y \in A.held => y \in G.held)
      /\ Settled(<<x>>, A.held, U.held, G.held) <=> (x \in A.held => x \in G.held)
  BY SettledShort
<1> QED
  BY Zenon, <1>3, <1>4 DEF Clear, Right

\* Events of others come on the wire.
LEMMA OthersEmit ==
    ASSUME NEW E, NEW w \in Seq(E), NEW ev \in Seq(E), NEW h, NEW c, NEW A, NEW U, NEW G, NEW T
    PROVE  /\ Free(ev, T.wire) => (Clear(w, h, c, T) <=> Clear(w \o ev, h, c, T))
           /\ Free(ev, A.wire) /\ Free(ev, U.wire) /\ Right(w, h, c, A, U, G) => Right(w \o ev, h, c, A, U, G)
<1>1. \A R : Free(w \o ev, R) <=> Free(w, R) /\ Free(ev, R)
  BY FreeConcat
<1>2. Settled(w \o ev, A.wire, U.wire, G.wire) <=>
         Settled(ev, A.wire, U.wire, G.wire) /\ (Free(ev, U.wire) => Settled(w, A.wire, U.wire, G.wire))
  BY SettledConcat
<1>3. Free(ev, A.wire) => Settled(ev, A.wire, U.wire, G.wire)
  BY NothingIsSettled
<1> QED
  BY Zenon, <1>1, <1>2, <1>3 DEF Clear, Right

\* An event is delivered.
LEMMA Delivered ==
    ASSUME NEW E, NEW w \in Seq(E), w # <<>>, NEW h, NEW c, NEW A, NEW U, NEW G, NEW T
    PROVE  /\ Clear(w, h, c, T) <=> Head(w) \notin T.wire /\ Clear(Tail(w), h, c, T)
           /\ Right(w, h, c, A, U, G) => Right(Tail(w), h, c, A, U, G)
           /\ Right(w, h, c, A, U, G) /\ Clear(Tail(w), h, c, U) /\ Head(w) \in A.wire => Head(w) \in G.wire
<1> DEFINE x == Head(w)
           rest == Tail(w)
<1>1. rest \in Seq(E) /\ w = <<x>> \o rest /\ <<x>> \in Seq(E)
  BY HeadAndTail
<1> HIDE DEF x, rest
<1>2. \A R : Free(w, R) <=> x \notin R /\ Free(rest, R)
  <2>1. ASSUME NEW R PROVE Free(w, R) <=> x \notin R /\ Free(rest, R)
    <3>1. Free(<<x>> \o rest, R) <=> Free(<<x>>, R) /\ Free(rest, R)
      BY <1>1, FreeConcat
    <3>2. Free(<<x>>, R) <=> x \notin R
      BY FreeShort
    <3> QED
      BY <1>1, <3>1, <3>2
  <2> QED
    BY <2>1
<1>3. Settled(w, A.wire, U.wire, G.wire) <=>
         /\ Settled(rest, A.wire, U.wire, G.wire)
         /\ Free(rest, U.wire) => (x \in A.wire => x \in G.wire)
  <2>1. Settled(<<x>> \o rest, A.wire, U.wire, G.wire) <=>
           Settled(rest, A.wire, U.wire, G.wire) /\ (Free(rest, U.wire) => Settled(<<x>>, A.wire, U.wire, G.wire))
    BY <1>1, SettledConcat
  <2>2. Settled(<<x>>, A.wire, U.wire, G.wire) <=> (x \in A.wire => x \in G.wire)
    BY SettledShort
  <2> QED
    BY <1>1, <2>1, <2>2
<1>4. /\ Clear(w, h, c, T) <=> x \notin T.wire /\ Clear(rest, h, c, T)
      /\ Right(w, h, c, A, U, G) => Right(rest, h, c, A, U, G)
      /\ Right(w, h, c, A, U, G) /\ Clear(rest, h, c, U) /\ x \in A.wire => x \in G.wire
  BY Zenon, <1>2, <1>3 DEF Clear, Right
<1> QED
  BY <1>4 DEF x, rest

\* Nothing anywhere.
LEMMA NothingQueued ==
    ASSUME NEW A, NEW U, NEW G, NEW T
    PROVE  Clear(<<>>, <<>>, <<>>, T) /\ Right(<<>>, <<>>, <<>>, A, U, G)
  BY Zenon, FreeShort, SettledShort DEF Clear, Right

-----------------------------------------------------------------------------
(* Lists. *)

\* No two of the list have the same id.
Once(list) == \A i, j \in 1 .. Len(list) : list[i].id = list[j].id => i = j

\* The range of a sequence.
LEMMA RangeIs ==
    ASSUME NEW S, NEW q \in Seq(S)
    PROVE  /\ DOMAIN q = 1 .. Len(q) /\ Range(q) \subseteq S
           /\ \A i \in 1 .. Len(q) : q[i] \in Range(q)
           /\ \A x \in Range(q) : \E i \in 1 .. Len(q) : q[i] = x
  BY DEF Range

\* Who is in a list.
LEMMA HasIs ==
    ASSUME NEW S, NEW list \in Seq(S), NEW id
    PROVE  Has(list, id) <=> \E x \in Range(list) : x.id = id
  BY DEF Has, Range

\* SetToSeq lists each element of a finite set once.
LEMMA SetToSeqIs ==
    ASSUME NEW S, IsFiniteSet(S)
    PROVE  /\ SetToSeq(S) \in Seq(S) /\ Range(SetToSeq(S)) = S /\ Len(SetToSeq(S)) = Cardinality(S)
           /\ \A i, j \in 1 .. Len(SetToSeq(S)) : SetToSeq(S)[i] = SetToSeq(S)[j] => i = j
<1> DEFINE n == Cardinality(S)
           q == SetToSeq(S)
<1>1. n \in Nat
  BY FS_CardinalityType
<1>2. IsFiniteSet(1 .. n) /\ Cardinality(1 .. n) = n
  BY SMTT(30), <1>1, FS_Interval
<1>3. \E f \in [1 .. n -> S] : IsInjective(f)
  <2>1. PICK m \in Nat : ExistsBijection(1 .. m, S)
    BY FS_NatBijection
  <2>2. m = n
    BY <2>1, FS_CountingElements
  <2>3. PICK f : f \in Bijection(1 .. n, S)
    BY <2>1, <2>2 DEF ExistsBijection
  <2> QED
    BY <2>3 DEF Bijection, Injection
<1>4. q \in [1 .. n -> S] /\ IsInjective(q)
  BY <1>3 DEF SetToSeq
<1> HIDE DEF q
<1>5. q \in Injection(1 .. n, S)
  BY <1>4 DEF Injection
<1>6. q \in Surjection(1 .. n, S)
  BY <1>2, <1>5, FS_Injection
<1>7. q \in Seq(S) /\ Len(q) = n
  BY <1>1, <1>4
<1>8. Range(q) = S
  BY <1>4, <1>6 DEF Surjection, Range
<1>9. \A i, j \in 1 .. Len(q) : q[i] = q[j] => i = j
  BY <1>4, <1>7 DEF IsInjective
<1> QED
  BY <1>7, <1>8, <1>9 DEF q, n

\* The first place of an id.
LEMMA FirstIs ==
    ASSUME NEW S, NEW list \in Seq(S), NEW id, Has(list, id)
    PROVE  First(list, id) \in 1 .. Len(list) /\ list[First(list, id)].id = id
<1> DEFINE I == {i \in 1 .. Len(list) : list[i].id = id}
<1>1. I # {} /\ I \subseteq Nat
  BY DEF Has
<1>2. First(list, id) = Min(I)
  BY <1>1 DEF First, SelectInSeq
<1> HIDE DEF I
<1>3. \E x \in I : \A y \in I : x <= y
  BY <1>1, Least
<1>4. Min(I) \in I
  BY <1>3 DEF Min
<1> QED
  BY <1>2, <1>4 DEF I

\* A list from which a place is taken out.
LEMMA RemoveAtIs ==
    ASSUME NEW S, NEW list \in Seq(S), NEW k \in 1 .. Len(list)
    PROVE  /\ RemoveAt(list, k) \in Seq(S) /\ Len(RemoveAt(list, k)) = Len(list) - 1
           /\ \A i \in 1 .. Len(list) - 1 : RemoveAt(list, k)[i] = IF i < k THEN list[i] ELSE list[i + 1]
<1> DEFINE a == SubSeq(list, 1, k - 1)
           b == SubSeq(list, k + 1, Len(list))
<1>1. Len(list) \in Nat /\ k \in Nat
  OBVIOUS
<1>2. a \in Seq(S) /\ Len(a) = k - 1 /\ \A i \in 1 .. k - 1 : a[i] = list[i]
  BY <1>1
<1>3. b \in Seq(S) /\ Len(b) = Len(list) - k /\ \A i \in 1 .. Len(list) - k : b[i] = list[k + i]
  BY <1>1
<1> HIDE DEF a, b
<1> DEFINE c == a \o b
<1>4. /\ c \in Seq(S) /\ Len(c) = Len(a) + Len(b)
      /\ \A i \in 1 .. Len(a) : c[i] = a[i]
      /\ \A i \in 1 .. Len(b) : c[Len(a) + i] = b[i]
  <2>1. a \in Seq(S) /\ b \in Seq(S)
    BY <1>2, <1>3
  <2> QED
    BY <2>1, ConcatProperties
<1> HIDE DEF c
<1>5. ASSUME NEW i \in 1 .. Len(list) - 1 PROVE c[i] = IF i < k THEN list[i] ELSE list[i + 1]
  <2>1. CASE i < k
    <3>1. i \in 1 .. k - 1 /\ i \in 1 .. Len(a)
      BY <1>1, <1>2, <2>1
    <3> QED
      BY <1>2, <1>4, <2>1, <3>1
  <2>2. CASE i >= k
    <3>1. /\ i - (k - 1) \in 1 .. Len(list) - k /\ Len(a) + (i - (k - 1)) = i
          /\ k + (i - (k - 1)) = i + 1 /\ ~ (i < k)
      BY <1>1, <1>2, <2>2
    <3>2. c[Len(a) + (i - (k - 1))] = b[i - (k - 1)]
      BY <1>3, <1>4, <3>1
    <3>3. b[i - (k - 1)] = list[k + (i - (k - 1))]
      BY <1>3, <3>1
    <3> QED
      BY <3>1, <3>2, <3>3
  <2> QED
    BY <1>1, <2>1, <2>2
<1>7. Len(c) = Len(list) - 1
  BY <1>1, <1>2, <1>3, <1>4
<1>6. RemoveAt(list, k) = c
  BY DEF RemoveAt, a, b, c
<1> QED
  BY <1>4, <1>5, <1>6, <1>7

\* What an edit can put in a list.
LEMMA EditedTyped ==
    ASSUME NEW S, NEW list \in Seq(S), NEW what \in {"add", "update", "delete"}, NEW data,
           what # "delete" => data \in S
    PROVE  /\ Edited(list, what, data) \in Seq(S)
           /\ \A x \in Range(Edited(list, what, data)) : x \in Range(list) \/ (what # "delete" /\ x = data)
<1> DEFINE r == Edited(list, what, data)
           k == First(list, data.id)
<1>0. DOMAIN list = 1 .. Len(list) /\ \A i \in 1 .. Len(list) : list[i] \in Range(list)
  BY RangeIs
<1>1. Len(list) \in Nat
  OBVIOUS
<1>2. CASE what = "add"
  <2>1. r = Append(list, data)
    BY <1>2 DEF Edited
  <2>2. /\ r \in Seq(S) /\ Len(r) = Len(list) + 1 /\ r[Len(list) + 1] = data
        /\ \A i \in 1 .. Len(list) : r[i] = list[i]
    BY <1>2, <2>1
  <2> HIDE DEF r
  <2>3. ASSUME NEW i \in 1 .. Len(r) PROVE r[i] \in Range(list) \/ r[i] = data
    BY <1>0, <1>1, <2>2
  <2>4. \A x \in Range(r) : \E i \in 1 .. Len(r) : r[i] = x
    BY <2>2, RangeIs
  <2>5. \A x \in Range(r) : x \in Range(list) \/ x = data
    BY <2>3, <2>4
  <2> QED
    BY <1>2, <2>2, <2>5 DEF r
<1>3. CASE what = "update" /\ Has(list, data.id)
  <2>0. k \in 1 .. Len(list)
    BY <1>3, FirstIs
  <2>1. r = [list EXCEPT ![k] = data]
    BY <1>3 DEF Edited, Updated
  <2> HIDE DEF r, k
  <2>2. /\ r \in Seq(S) /\ Len(r) = Len(list)
        /\ \A i \in 1 .. Len(list) : r[i] = IF i = k THEN data ELSE list[i]
    BY <1>0, <1>3, <2>0, <2>1
  <2>3. ASSUME NEW i \in 1 .. Len(r) PROVE r[i] \in Range(list) \/ r[i] = data
    BY <1>0, <1>1, <2>2
  <2>4. \A x \in Range(r) : \E i \in 1 .. Len(r) : r[i] = x
    BY <2>2, RangeIs
  <2>5. \A x \in Range(r) : x \in Range(list) \/ x = data
    BY <2>3, <2>4
  <2> QED
    BY <1>3, <2>2, <2>5 DEF r
<1>4. CASE what = "delete" /\ Has(list, data.id)
  <2>0. k \in 1 .. Len(list)
    BY <1>4, FirstIs
  <2>1. r = RemoveAt(list, k)
    BY <1>4 DEF Edited, Removed
  <2> HIDE DEF r, k
  <2>2. /\ r \in Seq(S) /\ Len(r) = Len(list) - 1
        /\ \A i \in 1 .. Len(list) - 1 : r[i] = IF i < k THEN list[i] ELSE list[i + 1]
    BY <2>0, <2>1, RemoveAtIs
  <2>3. ASSUME NEW i \in 1 .. Len(r) PROVE r[i] \in Range(list)
    <3>1. i \in 1 .. Len(list) /\ i + 1 \in 1 .. Len(list) /\ i \in 1 .. Len(list) - 1
      BY <1>1, <2>0, <2>2
    <3> QED
      BY <1>0, <2>2, <3>1
  <2>4. \A x \in Range(r) : \E i \in 1 .. Len(r) : r[i] = x
    BY <2>2, RangeIs
  <2>5. \A x \in Range(r) : x \in Range(list)
    BY <2>3, <2>4
  <2> QED
    BY <1>4, <2>2, <2>5 DEF r
<1>5. CASE what \in {"update", "delete"} /\ ~ Has(list, data.id)
  <2>1. r = list
    BY <1>5 DEF Edited, Updated, Removed
  <2> QED
    BY <2>1
<1> QED
  BY <1>2, <1>3, <1>4, <1>5

\* What an edit makes of a list that has no id twice.
LEMMA EditedIs ==
    ASSUME NEW S, NEW list \in Seq(S), Once(list), NEW what \in {"add", "update", "delete"}, NEW data,
           what # "delete" => data \in S,
           what = "add" => ~ Has(list, data.id)
    PROVE  /\ Once(Edited(list, what, data))
           /\ Range(Edited(list, what, data)) =
                 {x \in Range(list) : x.id # data.id}
                 \cup (IF what = "add" \/ (what = "update" /\ Has(list, data.id)) THEN {data} ELSE {})
<1> DEFINE r == Edited(list, what, data)
           k == First(list, data.id)
           others == {x \in Range(list) : x.id # data.id}
<1>0. /\ DOMAIN list = 1 .. Len(list) /\ (\A i \in 1 .. Len(list) : list[i] \in Range(list))
      /\ \A x \in Range(list) : \E i \in 1 .. Len(list) : list[i] = x
  BY RangeIs
<1>1. Len(list) \in Nat
  OBVIOUS
<1>2. CASE what = "add"
  <2>1. r = Append(list, data)
    BY <1>2 DEF Edited
  <2>2. /\ r \in Seq(S) /\ Len(r) = Len(list) + 1 /\ r[Len(list) + 1] = data
        /\ \A i \in 1 .. Len(list) : r[i] = list[i]
    BY <1>2, <2>1
  <2> HIDE DEF r
  <2>3. \A i \in 1 .. Len(list) : list[i].id # data.id
    BY <1>0, <1>2 DEF Has
  <2>4. ASSUME NEW i \in 1 .. Len(r), NEW j \in 1 .. Len(r), r[i].id = r[j].id PROVE i = j
    <3>1. \A m \in 1 .. Len(r) : m \in 1 .. Len(list) \/ m = Len(list) + 1
      BY <1>1, <2>2
    <3>2. CASE i \in 1 .. Len(list) /\ j \in 1 .. Len(list)
      BY <2>2, <2>4, <3>2 DEF Once
    <3>3. CASE ~ (i \in 1 .. Len(list) /\ j \in 1 .. Len(list))
      BY <2>2, <2>3, <2>4, <3>1, <3>3
    <3> QED
      BY <3>2, <3>3
  <2>5. \A x \in Range(r) : x \in Range(list) \/ x = data
    <3>1. \A x \in Range(r) : \E i \in 1 .. Len(r) : r[i] = x
      BY <2>2, RangeIs
    <3>2. ASSUME NEW i \in 1 .. Len(r) PROVE r[i] \in Range(list) \/ r[i] = data
      BY <1>0, <1>1, <2>2
    <3> QED
      BY <3>1, <3>2
  <2>6. data \in Range(r) /\ \A x \in Range(list) : x \in Range(r)
    <3>1. \A i \in 1 .. Len(r) : r[i] \in Range(r)
      BY <2>2, RangeIs
    <3>2. Len(list) + 1 \in 1 .. Len(r) /\ \A i \in 1 .. Len(list) : i \in 1 .. Len(r)
      BY <1>1, <2>2
    <3> QED
      BY <1>0, <2>2, <3>1, <3>2
  <2>7. \A x \in Range(list) : x.id # data.id
    BY <1>0, <2>3
  <2>8. Range(r) = others \cup {data}
    BY <2>5, <2>6, <2>7
  <2> QED
    BY <1>2, <2>4, <2>8 DEF r, Once
<1>3. CASE what = "update" /\ Has(list, data.id)
  <2>0. k \in 1 .. Len(list) /\ list[k].id = data.id
    BY <1>3, FirstIs
  <2>1. r = [list EXCEPT ![k] = data]
    BY <1>3 DEF Edited, Updated
  <2> HIDE DEF r, k
  <2>2. /\ r \in Seq(S) /\ Len(r) = Len(list)
        /\ \A i \in 1 .. Len(list) : r[i] = IF i = k THEN data ELSE list[i]
    BY <1>0, <1>3, <2>0, <2>1
  <2>3. \A i \in 1 .. Len(list) : r[i].id = list[i].id
    BY <2>0, <2>2
  <2>4. Once(r)
    BY <2>2, <2>3 DEF Once
  <2>5. ASSUME NEW x \in Range(r) PROVE x \in others \/ x = data
    <3>1. PICK i \in 1 .. Len(r) : r[i] = x
      BY <2>2, RangeIs
    <3>2. CASE i = k
      BY <2>2, <3>1, <3>2
    <3>3. CASE i # k
      <4>1. x = list[i] /\ i \in 1 .. Len(list)
        BY <2>2, <3>1, <3>3
      <4>2. list[i].id # data.id
        BY <2>0, <3>3, <4>1 DEF Once
      <4> QED
        BY <1>0, <4>1, <4>2
    <3> QED
      BY <3>2, <3>3
  <2>6. ASSUME NEW x, x \in others \/ x = data PROVE x \in Range(r)
    <3>1. \A i \in 1 .. Len(r) : r[i] \in Range(r)
      BY <2>2, RangeIs
    <3>2. CASE x = data
      BY <2>0, <2>2, <3>1, <3>2
    <3>3. CASE x \in others
      <4>1. PICK i \in 1 .. Len(list) : list[i] = x
        BY <1>0, <3>3
      <4>2. i # k
        BY <2>0, <3>3, <4>1
      <4> QED
        BY <2>2, <3>1, <4>1, <4>2
    <3> QED
      BY <2>6, <3>2, <3>3
  <2>7. Range(r) = others \cup {data}
    BY <2>5, <2>6
  <2> QED
    BY <1>3, <2>4, <2>7 DEF r
<1>4. CASE what = "delete" /\ Has(list, data.id)
  <2>0. k \in 1 .. Len(list) /\ list[k].id = data.id
    BY <1>4, FirstIs
  <2>1. r = RemoveAt(list, k)
    BY <1>4 DEF Edited, Removed
  <2> HIDE DEF r, k
  <2>2. /\ r \in Seq(S) /\ Len(r) = Len(list) - 1
        /\ \A i \in 1 .. Len(list) - 1 : r[i] = IF i < k THEN list[i] ELSE list[i + 1]
    BY <2>0, <2>1, RemoveAtIs
  <2> DEFINE was(i) == IF i < k THEN i ELSE i + 1
  <2>3. \A i \in 1 .. Len(r) : was(i) \in 1 .. Len(list) /\ was(i) # k /\ r[i] = list[was(i)]
    BY <1>1, <2>0, <2>2
  <2>4. \A i, j \in 1 .. Len(r) : was(i) = was(j) => i = j
    BY <1>1, <2>0, <2>2
  <2>5. \A i \in 1 .. Len(list) : i # k => \E j \in 1 .. Len(r) : was(j) = i
    <3>1. ASSUME NEW i \in 1 .. Len(list), i # k PROVE \E j \in 1 .. Len(r) : was(j) = i
      <4>1. CASE i < k
        <5>1. i \in 1 .. Len(r) /\ was(i) = i
          BY <1>1, <2>0, <2>2, <4>1
        <5> QED
          BY <5>1
      <4>2. CASE i > k
        <5>1. i - 1 \in 1 .. Len(r) /\ was(i - 1) = i
          BY <1>1, <2>0, <2>2, <4>2
        <5> QED
          BY <5>1
      <4> QED
        BY <1>1, <2>0, <3>1, <4>1, <4>2
    <3> QED
      BY <3>1
  <2> HIDE DEF was
  <2>6. Once(r)
    BY <2>3, <2>4 DEF Once
  <2>7. ASSUME NEW x \in Range(r) PROVE x \in others
    <3>1. PICK i \in 1 .. Len(r) : r[i] = x
      BY <2>2, RangeIs
    <3>2. x = list[was(i)] /\ was(i) \in 1 .. Len(list) /\ was(i) # k
      BY <2>3, <3>1
    <3>3. list[was(i)].id # data.id
      BY <2>0, <3>2 DEF Once
    <3> QED
      BY <1>0, <3>2, <3>3
  <2>8. ASSUME NEW x \in others PROVE x \in Range(r)
    <3>1. PICK i \in 1 .. Len(list) : list[i] = x
      BY <1>0, <2>8
    <3>2. i # k
      BY <2>0, <2>8, <3>1
    <3>3. PICK j \in 1 .. Len(r) : was(j) = i
      BY <2>5, <3>2
    <3>4. \A m \in 1 .. Len(r) : r[m] \in Range(r)
      BY <2>2, RangeIs
    <3> QED
      BY <2>3, <3>1, <3>3, <3>4
  <2>9. Range(r) = others
    BY <2>7, <2>8
  <2> QED
    BY <1>4, <2>6, <2>9 DEF r
<1>5. CASE what \in {"update", "delete"} /\ ~ Has(list, data.id)
  <2>1. r = list
    BY <1>5 DEF Edited, Updated, Removed
  <2>2. others = Range(list)
    BY <1>0, <1>5 DEF Has
  <2> QED
    BY <1>5, <2>1, <2>2
<1> QED
  BY <1>2, <1>3, <1>4, <1>5

-----------------------------------------------------------------------------
(* What the steps do to the tables. *)

\* A list is spoilt, and nothing else of it changes.
Spoilt(vs) ==
    /\ trust' \in [Views -> {"due", "kept", "missed"}] /\ asked' \in Each(Fetches)
    /\ \A v \in Views :
          /\ trust'[v] = IF v \in vs THEN "missed" ELSE trust[v]
          /\ asked'[v].step = asked[v].step /\ asked'[v].of = asked[v].of /\ asked'[v].list = asked[v].list
          /\ asked'[v].crossed = (asked[v].crossed \/ (v \in vs /\ asked[v].step = "read"))

\* The rows as a step may leave them.
RowMoves(new) ==
    /\ new \in [Desktops -> Rows]
    /\ \A d \in Desktops : new[d] # row[d] =>
          /\ InTable(row[d]) \/ (row[d] = Unborn /\ InTable(new[d]))
          /\ InTable(new[d]) \/ new[d] = Gone
          /\ row[d] = Unborn /\ Tag[d] # None => dep[Tag[d]].flags # {}
          /\ row[d] # Unborn /\ InTable(new[d]) =>
                 \/ new[d].visible = row[d].visible
                 \/ new[d].status = row[d].status /\ Tag[d] # None
RowStep ==
    /\ \E new \in [Desktops -> Rows] : RowMoves(new) /\ UpdateRows(new)
    /\ dep' \in [Deployments -> DepRows]
    /\ \A p \in Deployments :
          /\ dep'[p].state = dep[p].state /\ dep'[p].visible = dep[p].visible /\ dep'[p].flags = dep[p].flags
          /\ dep'[p].request # dep[p].request =>
                dep[p].state # "unborn" /\ (dep'[p].request \in {"count", "mark"} => dep[p].state = "live")
    /\ UNCHANGED <<depChanges, domains, deployments, wire, online, page, store>>
    /\ removed' \subseteq {d \in Desktops : Tag[d] # None}

\* The row of a deployment as a step may leave it, with the event the feed gives.
DepMoves(p, new, event) ==
    /\ new \in DepRows /\ event \in {"none", "add", "update", "delete"}
    /\ event = "none" => new.state = dep[p].state /\ (Exists(p) => new.visible = dep[p].visible)
    /\ event = "add" => dep[p].state = "unborn" /\ new.state = "live"
    /\ event = "update" => Exists(p) /\ new.state \in {"live", "deleting"}
    /\ event = "delete" => Exists(p) /\ new.state = "gone"
    /\ dep[p].state = "unborn" => event = "add"
    /\ new.request \in {"count", "mark"} => new.state = "live"
DepStep ==
    /\ \E p \in Deployments, new \in DepRows, event \in {"none", "add", "update", "delete"} :
          DepMoves(p, new, event) /\ UpdateDep(p, new, event)
    /\ UNCHANGED <<row, changes, domains, deployments, wire, online, page, store>>
    /\ removed' \subseteq {d \in Desktops : Tag[d] # None}

\* What is not about the lists.
OtherStep == removed' \subseteq {d \in Desktops : Tag[d] # None} /\ UNCHANGED <<row, dep, changes, depChanges, feeds, page, store, asked, trust>>

\* Requests are served only for what exists.
DepsServed ==
    /\ \A p \in Deployments : dep[p].request \in {"count", "mark"} => dep[p].state = "live"
    /\ \A p \in Deployments : dep[p].state = "unborn" => dep[p].request = "none" /\ dep[p].flags = {}

\* The fields of what is kept for each list.
LEMMA EachIs ==
    ASSUME NEW x
    PROVE  /\ x \in Each(Fetches) <=>
                x = [v \in Views |-> x[v]] /\ \A v \in Views : x[v] \in Fetches(v)
           /\ x \in Each(ListsOf) <=>
                x = [v \in Views |-> x[v]] /\ \A v \in Views : x[v] \in ListsOf(v)
  BY DEF Each, Views

LEMMA SpoilIs ==
    ASSUME TypeOK, NEW vs, Spoil(vs)
    PROVE  Spoilt(vs)
<1>1. asked \in Each(Fetches) /\ trust \in [Views -> {"due", "kept", "missed"}]
  BY DEF TypeOK
<1>2. \A v \in Views : asked[v] \in Fetches(v)
  BY Zenon, <1>1, EachIs
<1> DEFINE new == [v \in Views |-> IF v \in vs /\ asked[v].step = "read"
                                    THEN [asked[v] EXCEPT !.crossed = TRUE] ELSE asked[v]]
<1>3. asked' = new /\ trust' = [v \in Views |-> IF v \in vs THEN "missed" ELSE trust[v]]
  BY DEF Spoil
<1>4. ASSUME NEW v \in Views
      PROVE  /\ new[v] \in Fetches(v)
             /\ new[v].step = asked[v].step /\ new[v].of = asked[v].of /\ new[v].list = asked[v].list
             /\ new[v].crossed = (asked[v].crossed \/ (v \in vs /\ asked[v].step = "read"))
  <2>1. asked[v] \in Fetches(v)
    BY <1>2
  <2>2. CASE v \in vs /\ asked[v].step = "read"
    <3>1. new[v] = [asked[v] EXCEPT !.crossed = TRUE]
      BY <2>2
    <3> HIDE DEF new
    <3> QED
      BY <2>1, <2>2, <3>1 DEF Fetches
  <2>3. CASE ~ (v \in vs /\ asked[v].step = "read")
    <3>1. new[v] = asked[v]
      BY <2>3
    <3>2. asked[v].crossed \in BOOLEAN
      BY <2>1 DEF Fetches
    <3> HIDE DEF new
    <3> QED
      BY <2>1, <2>3, <3>1, <3>2
  <2> QED
    BY <2>2, <2>3
<1>5. new = [v \in Views |-> new[v]]
  OBVIOUS
<1>6. new \in Each(Fetches)
  <2> HIDE DEF new
  <2> QED
    BY Zenon, <1>4, <1>5, EachIs
<1> HIDE DEF new
<1> QED
  BY <1>1, <1>3, <1>4, <1>6 DEF Spoilt

\* The rows and the deployments, one by one.
LEMMA TablesTyped ==
    ASSUME TypeOK
    PROVE  /\ row \in [Desktops -> Rows] /\ dep \in [Deployments -> DepRows]
           /\ removed \subseteq {d \in Desktops : Tag[d] # None}
           /\ \A d \in Desktops : row[d] \in Rows /\ (Tag[d] # None => Tag[d] \in Deployments)
           /\ \A p \in Deployments : dep[p] \in DepRows
  BY TagAssumption DEF TypeOK

\* A row is of one of three kinds.
LEMMA RowIs ==
    ASSUME NEW r \in Rows
    PROVE  /\ InTable(r) \/ r = Unborn \/ r = Gone
           /\ r.visible \in BOOLEAN
           /\ InTable(r) <=> r \in [status : Statuses, visible : BOOLEAN]
           /\ ~ InTable(Unborn) /\ ~ InTable(Gone) /\ Unborn # Gone
           /\ Unborn.visible = FALSE /\ Gone.visible = FALSE
<1>1. ~ InTable(Unborn) /\ ~ InTable(Gone) /\ Unborn # Gone /\ Unborn.visible = FALSE /\ Gone.visible = FALSE
  BY DEF InTable, Unborn, Gone, Statuses
<1>2. \A x \in [status : Statuses, visible : BOOLEAN] : InTable(x) /\ x.visible \in BOOLEAN
  BY DEF InTable
<1>3. r \in [status : Statuses, visible : BOOLEAN] \/ r = Unborn \/ r = Gone
  BY DEF Rows
<1> HIDE DEF Unborn, Gone
<1> QED
  BY <1>1, <1>2, <1>3

LEMMA InsertMoves ==
    ASSUME TypeOK, DepsServed, NEW d \in Desktops, Insert(d)
    PROVE  RowStep
<1>1. /\ row \in [Desktops -> Rows] /\ dep \in [Deployments -> DepRows] /\ row[d] = Unborn
      /\ removed \subseteq {e \in Desktops : Tag[e] # None}
      /\ Tag[d] # None => Tag[d] \in Deployments
  BY TablesTyped DEF Insert
<1>2. ASSUME NEW s \in Statuses, NEW flag \in BOOLEAN, Tag[d] # None => dep[Tag[d]].flags # {},
             UpdateRows([row EXCEPT ![d] = [status |-> s, visible |-> flag]])
      PROVE  \E new \in [Desktops -> Rows] : RowMoves(new) /\ UpdateRows(new)
  <2> DEFINE r == [status |-> s, visible |-> flag]
             new == [row EXCEPT ![d] = r]
  <2>1. r \in Rows /\ InTable(r)
    BY DEF Rows, InTable
  <2> HIDE DEF r
  <2>2. new \in [Desktops -> Rows] /\ new[d] = r /\ \A e \in Desktops : e # d => new[e] = row[e]
    BY <1>1, <2>1
  <2>3. UpdateRows(new)
    BY <1>2 DEF r
  <2> HIDE DEF new
  <2>4. RowMoves(new)
    BY <1>1, <1>2, <2>1, <2>2 DEF RowMoves
  <2> QED
    BY <2>2, <2>3, <2>4
<1>3. \E new \in [Desktops -> Rows] : RowMoves(new) /\ UpdateRows(new)
  <2>1. CASE Tag[d] = None
    <3>1. PICK s \in {"Creating", "CreatingDiskFromScratch"} :
             UpdateRows([row EXCEPT ![d] = [status |-> s, visible |-> FALSE]])
      BY <2>1 DEF Insert
    <3>2. s \in Statuses
      BY DEF Statuses
    <3> QED
      BY <1>2, <2>1, <3>1, <3>2
  <2>2. CASE Tag[d] # None
    <3>1. PICK flag \in dep[Tag[d]].flags :
             UpdateRows([row EXCEPT ![d] = [status |-> "Creating", visible |-> flag]])
      BY <2>2 DEF Insert
    <3>2. flag \in BOOLEAN /\ dep[Tag[d]].flags # {}
      BY <1>1, <2>2 DEF DepRows
    <3>3. "Creating" \in Statuses
      BY DEF Statuses
    <3> QED
      BY <1>2, <3>1, <3>2, <3>3
  <2> QED
    BY <2>1, <2>2
<1> QED
  BY <1>1, <1>3 DEF Insert, RowStep, feeds

\* Rows of which only the status changes, and stays one of the table.
LEMMA AdvanceMoves ==
    ASSUME TypeOK, NEW d \in Desktops, Advance(d)
    PROVE  RowStep
<1>1. /\ row \in [Desktops -> Rows] /\ dep \in [Deployments -> DepRows] /\ InTable(row[d])
      /\ removed \subseteq {e \in Desktops : Tag[e] # None} /\ row[d] \in Rows
  BY TablesTyped DEF Advance
<1>2. PICK s \in Follows(row[d].status) : UpdateRows([row EXCEPT ![d].status = s])
  BY DEF Advance
<1> DEFINE new == [row EXCEPT ![d].status = s]
<1>3. s \in Statuses
  BY DEF Follows, Statuses
<1>4. new \in [Desktops -> Rows] /\ new[d] = [row[d] EXCEPT !.status = s] /\ \A e \in Desktops : e # d => new[e] = row[e]
  <2>1. row[d] \in [status : Statuses, visible : BOOLEAN]
    BY <1>1, RowIs
  <2>2. [row[d] EXCEPT !.status = s] \in Rows
    BY <1>3, <2>1 DEF Rows
  <2> QED
    BY <1>1, <2>2
<1>5. InTable(new[d]) /\ new[d].visible = row[d].visible /\ row[d] # Unborn
  <2>1. row[d] \in [status : Statuses, visible : BOOLEAN] /\ row[d] # Unborn
    BY <1>1, RowIs
  <2> DEFINE r == [row[d] EXCEPT !.status = s]
  <2>2. r.status = s /\ r.visible = row[d].visible
    BY <2>1
  <2> HIDE DEF r
  <2> QED
    BY <1>3, <1>4, <2>1, <2>2 DEF InTable, r
<1>6. UpdateRows(new)
  BY <1>2
<1> HIDE DEF new
<1>7. RowMoves(new)
  BY <1>1, <1>4, <1>5 DEF RowMoves
<1> QED
  BY <1>1, <1>4, <1>6, <1>7 DEF Advance, RowStep, feeds

LEMMA RemoveRowMoves ==
    ASSUME TypeOK, NEW d \in Desktops, RemoveRow(d)
    PROVE  RowStep
<1>1. /\ row \in [Desktops -> Rows] /\ dep \in [Deployments -> DepRows] /\ row[d].status = "ForceDeleting"
      /\ removed \subseteq {e \in Desktops : Tag[e] # None}
  BY TablesTyped DEF RemoveRow
<1> DEFINE new == [row EXCEPT ![d] = Gone]
<1>2. Gone \in Rows /\ InTable(row[d]) /\ row[d] # Unborn
  BY <1>1 DEF Rows, InTable, Statuses, Unborn
<1>3. new \in [Desktops -> Rows] /\ new[d] = Gone /\ \A e \in Desktops : e # d => new[e] = row[e]
  BY <1>1, <1>2
<1>4. ~ InTable(Gone)
  BY DEF InTable, Gone, Statuses
<1>5. UpdateRows(new)
  BY DEF RemoveRow
<1> HIDE DEF new
<1>6. RowMoves(new)
  BY <1>2, <1>3, <1>4 DEF RowMoves
<1>7. removed' \subseteq {e \in Desktops : Tag[e] # None}
  BY <1>1 DEF RemoveRow
<1> QED
  BY <1>1, <1>3, <1>5, <1>6, <1>7 DEF RemoveRow, RowStep, feeds

\* A request of a deployment that changes the rows of its desktops.
LEMMA TaggedMoves ==
    ASSUME TypeOK, NEW p \in Deployments, NEW status \in [Desktops -> Statuses], NEW flag \in [Desktops -> BOOLEAN],
           NEW new, new = [d \in Desktops |-> IF d \in Tagged(p) THEN [status |-> status[d], visible |-> flag[d]] ELSE row[d]],
           \A d \in Tagged(p) : status[d] = row[d].status \/ flag[d] = row[d].visible
    PROVE  new \in [Desktops -> Rows] /\ RowMoves(new)
<1>1. row \in [Desktops -> Rows] /\ p # None
  BY TablesTyped, TagAssumption
<1>2. ASSUME NEW d \in Desktops
      PROVE  /\ new[d] \in Rows
             /\ new[d] # row[d] =>
                  /\ InTable(row[d]) \/ (row[d] = Unborn /\ InTable(new[d]))
                  /\ InTable(new[d]) \/ new[d] = Gone
                  /\ row[d] = Unborn /\ Tag[d] # None => dep[Tag[d]].flags # {}
                  /\ row[d] # Unborn /\ InTable(new[d]) =>
                       \/ new[d].visible = row[d].visible
                       \/ new[d].status = row[d].status /\ Tag[d] # None
  <2>1. CASE d \in Tagged(p)
    <3>1. InTable(row[d]) /\ Tag[d] = p /\ row[d] # Unborn
      <4>1. InTable(row[d]) /\ Tag[d] = p
        BY <2>1 DEF Tagged
      <4> QED
        BY <1>1, <4>1, RowIs
    <3> DEFINE r == [status |-> status[d], visible |-> flag[d]]
    <3>2. r \in Rows /\ InTable(r) /\ r.status = status[d] /\ r.visible = flag[d]
      BY DEF Rows, InTable
    <3>3. new[d] = r
      BY <2>1
    <3> HIDE DEF r
    <3> QED
      BY <1>1, <2>1, <3>1, <3>2, <3>3
  <2>2. CASE d \notin Tagged(p)
    BY <1>1, <2>2
  <2> QED
    BY <2>1, <2>2
<1>3. new \in [Desktops -> Rows]
  BY <1>2
<1> QED
  BY <1>2, <1>3 DEF RowMoves

LEMMA VisibleOnDesktopsMoves ==
    ASSUME TypeOK, NEW p \in Deployments, VisibleOnDesktops(p)
    PROVE  RowStep
<1>1. /\ row \in [Desktops -> Rows] /\ dep \in [Deployments -> DepRows] /\ dep[p] \in DepRows
      /\ removed \subseteq {e \in Desktops : Tag[e] # None}
  BY TablesTyped
<1> DEFINE new == [d \in Desktops |-> IF d \in Tagged(p) THEN [row[d] EXCEPT !.visible = ~dep[p].visible] ELSE row[d]]
           status == [d \in Desktops |-> IF d \in Tagged(p) THEN row[d].status ELSE "Stopped"]
           flag == [d \in Desktops |-> ~dep[p].visible]
<1>2. status \in [Desktops -> Statuses] /\ flag \in [Desktops -> BOOLEAN]
  <2>1. \A d \in Tagged(p) : row[d].status \in Statuses
    BY DEF Tagged, InTable
  <2>2. "Stopped" \in Statuses
    BY DEF Statuses
  <2>3. dep[p].visible \in BOOLEAN
    BY <1>1 DEF DepRows
  <2> QED
    BY <2>1, <2>2, <2>3
<1>3. new = [d \in Desktops |-> IF d \in Tagged(p) THEN [status |-> status[d], visible |-> flag[d]] ELSE row[d]]
  <2>1. ASSUME NEW d \in Tagged(p)
        PROVE  d \in Desktops /\ [row[d] EXCEPT !.visible = ~dep[p].visible] = [status |-> status[d], visible |-> flag[d]]
    <3>1. d \in Desktops /\ row[d] \in [status : Statuses, visible : BOOLEAN]
      BY <1>1, RowIs DEF Tagged
    <3> QED
      BY <2>1, <3>1
  <2> HIDE DEF status, flag
  <2> QED
    BY <2>1
<1>4. \A d \in Tagged(p) : status[d] = row[d].status
  BY DEF Tagged
<1>5. UpdateRows(new)
  BY DEF VisibleOnDesktops
<1>6. new \in [Desktops -> Rows] /\ RowMoves(new)
  <2> HIDE DEF status, flag, new
  <2> QED
    BY <1>2, <1>3, <1>4, TaggedMoves
<1> HIDE DEF new
<1>7. Exists(p) /\ dep' = [dep EXCEPT ![p].request = IF dep[p].visible THEN "hide" ELSE "show"]
  BY DEF VisibleOnDesktops
<1>8. /\ dep' \in [Deployments -> DepRows]
      /\ \A q \in Deployments :
          /\ dep'[q].state = dep[q].state /\ dep'[q].visible = dep[q].visible /\ dep'[q].flags = dep[q].flags
          /\ dep'[q].request # dep[q].request =>
                dep[q].state # "unborn" /\ (dep'[q].request \in {"count", "mark"} => dep[q].state = "live")
  BY <1>1, <1>7 DEF Exists, DepRows
<1> QED
  BY <1>1, <1>5, <1>6, <1>8 DEF VisibleOnDesktops, RowStep, feeds

LEMMA DeleteDesktopsMoves ==
    ASSUME TypeOK, NEW p \in Deployments, DeleteDesktops(p)
    PROVE  RowStep
<1>1. /\ row \in [Desktops -> Rows] /\ dep \in [Deployments -> DepRows] /\ dep[p] \in DepRows
      /\ removed \subseteq {e \in Desktops : Tag[e] # None}
  BY TablesTyped
<1> DEFINE new == [d \in Desktops |-> IF d \in Tagged(p) THEN [row[d] EXCEPT !.status = "ForceDeleting"] ELSE row[d]]
           status == [d \in Desktops |-> "ForceDeleting"]
           flag == [d \in Desktops |-> row[d].visible]
<1>2. status \in [Desktops -> Statuses] /\ flag \in [Desktops -> BOOLEAN]
  <2>1. \A d \in Desktops : row[d].visible \in BOOLEAN
    BY <1>1, RowIs
  <2>2. "ForceDeleting" \in Statuses
    BY DEF Statuses
  <2> QED
    BY <2>1, <2>2
<1>3. new = [d \in Desktops |-> IF d \in Tagged(p) THEN [status |-> status[d], visible |-> flag[d]] ELSE row[d]]
  <2>1. ASSUME NEW d \in Tagged(p)
        PROVE  d \in Desktops /\ [row[d] EXCEPT !.status = "ForceDeleting"] = [status |-> status[d], visible |-> flag[d]]
    <3>1. d \in Desktops /\ row[d] \in [status : Statuses, visible : BOOLEAN]
      BY <1>1, RowIs DEF Tagged
    <3> QED
      BY <2>1, <3>1
  <2> HIDE DEF status, flag
  <2> QED
    BY <2>1
<1>4. \A d \in Tagged(p) : flag[d] = row[d].visible
  BY DEF Tagged
<1>5. UpdateRows(new)
  BY DEF DeleteDesktops
<1>6. new \in [Desktops -> Rows] /\ RowMoves(new)
  <2> HIDE DEF status, flag, new
  <2> QED
    BY <1>2, <1>3, <1>4, TaggedMoves
<1> HIDE DEF new
<1>7. dep[p].state = "live" /\ dep' = [dep EXCEPT ![p].request = "count"]
  BY DEF DeleteDesktops
<1>8. /\ dep' \in [Deployments -> DepRows]
      /\ \A q \in Deployments :
          /\ dep'[q].state = dep[q].state /\ dep'[q].visible = dep[q].visible /\ dep'[q].flags = dep[q].flags
          /\ dep'[q].request # dep[q].request =>
                dep[q].state # "unborn" /\ (dep'[q].request \in {"count", "mark"} => dep[q].state = "live")
  BY <1>1, <1>7 DEF DepRows
<1> QED
  BY <1>1, <1>5, <1>6, <1>8 DEF DeleteDesktops, RowStep, feeds

\* A change of a deployment with the event of it is a step of the deployments.
LEMMA DepStepIs ==
    ASSUME TypeOK, NEW p \in Deployments, NEW new, NEW event, DepMoves(p, new, event), UpdateDep(p, new, event),
           removed' \subseteq removed,
           UNCHANGED <<row, changes, domains, deployments, wire, online, page, store>>
    PROVE  DepStep
  BY TablesTyped DEF DepStep, DepMoves

LEMMA NewDeploymentMoves ==
    ASSUME TypeOK, NEW p \in Deployments, NewDeployment(p)
    PROVE  DepStep
<1>1. PICK flag \in BOOLEAN :
         UpdateDep(p, [state |-> "live", visible |-> flag, request |-> "none", flags |-> {flag}], "add")
  BY DEF NewDeployment
<1> DEFINE new == [state |-> "live", visible |-> flag, request |-> "none", flags |-> {flag}]
<1>2. new \in DepRows /\ new.state = "live" /\ new.request = "none"
  BY DEF DepRows
<1> HIDE DEF new
<1>3. DepMoves(p, new, "add")
  BY <1>2 DEF DepMoves, NewDeployment
<1>4. removed' \subseteq removed /\ UNCHANGED <<row, changes, domains, deployments, wire, online, page, store>>
  BY DEF NewDeployment, feeds
<1> QED
  BY <1>1, <1>3, <1>4, DepStepIs DEF new

LEMMA RecreateMoves ==
    ASSUME TypeOK, DepsServed, NEW p \in Deployments, Recreate(p)
    PROVE  DepStep
<1> DEFINE new == [dep[p] EXCEPT !.flags = @ \cup {dep[p].visible}]
<1>1. UpdateDep(p, new, "none") /\ Exists(p)
  BY DEF Recreate
<1>2. dep[p] \in DepRows
  BY TablesTyped
<1>3. new \in DepRows /\ new.state = dep[p].state /\ new.visible = dep[p].visible /\ new.request = dep[p].request
  BY <1>2 DEF DepRows
<1> HIDE DEF new
<1>4. DepMoves(p, new, "none")
  BY <1>1, <1>3 DEF DepMoves, Exists, DepsServed
<1>5. removed' \subseteq removed /\ UNCHANGED <<row, changes, domains, deployments, wire, online, page, store>>
  BY DEF Recreate, feeds
<1> QED
  BY <1>1, <1>4, <1>5, DepStepIs

LEMMA VisibleOnDeploymentMoves ==
    ASSUME TypeOK, DepsServed, NEW p \in Deployments, VisibleOnDeployment(p)
    PROVE  DepStep
<1> DEFINE new == [dep[p] EXCEPT !.visible = (dep[p].request = "show"), !.request = "none"]
           event == IF Exists(p) /\ new.visible # dep[p].visible THEN "update" ELSE "none"
<1>1. UpdateDep(p, new, event) /\ dep[p].request \in {"hide", "show"}
  BY DEF VisibleOnDeployment
<1>2. dep[p] \in DepRows
  BY TablesTyped
<1>3. new \in DepRows /\ new.state = dep[p].state /\ new.request = "none"
  BY <1>2 DEF DepRows
<1> HIDE DEF new
<1>4. DepMoves(p, new, event)
  <2>1. dep[p].state # "unborn"
    BY <1>1 DEF DepsServed
  <2> QED
    BY <1>3, <2>1 DEF DepMoves, Exists
<1>5. removed' \subseteq removed /\ UNCHANGED <<row, changes, domains, deployments, wire, online, page, store>>
  BY DEF VisibleOnDeployment, feeds
<1> HIDE DEF event
<1> QED
  BY <1>1, <1>4, <1>5, DepStepIs

LEMMA CountDesktopsMoves ==
    ASSUME TypeOK, DepsServed, NEW p \in Deployments, CountDesktops(p)
    PROVE  DepStep
<1>1. dep[p].request = "count" /\ dep[p].state = "live" /\ dep[p] \in DepRows
  BY TablesTyped DEF CountDesktops, DepsServed
<1>2. removed' \subseteq removed /\ UNCHANGED <<row, changes, domains, deployments, wire, online, page, store>>
  BY DEF CountDesktops, feeds
<1>3. CASE Tagged(p) = {}
  <2> DEFINE new == [dep[p] EXCEPT !.state = "gone", !.request = "none"]
  <2>1. UpdateDep(p, new, "delete")
    BY <1>3 DEF CountDesktops
  <2>2. new \in DepRows /\ new.state = "gone" /\ new.request = "none"
    BY <1>1 DEF DepRows
  <2> HIDE DEF new
  <2>3. DepMoves(p, new, "delete")
    BY <1>1, <2>2 DEF DepMoves, Exists
  <2> QED
    BY <1>2, <2>1, <2>3, DepStepIs
<1>4. CASE Tagged(p) # {}
  <2> DEFINE new == [dep[p] EXCEPT !.request = "mark"]
  <2>1. UpdateDep(p, new, "none")
    BY <1>4 DEF CountDesktops
  <2>2. new \in DepRows /\ new.state = "live" /\ new.visible = dep[p].visible
    BY <1>1 DEF DepRows
  <2> HIDE DEF new
  <2>3. DepMoves(p, new, "none")
    BY <1>1, <2>2 DEF DepMoves
  <2> QED
    BY <1>2, <2>1, <2>3, DepStepIs
<1> QED
  BY <1>3, <1>4

LEMMA MarkDeploymentMoves ==
    ASSUME TypeOK, DepsServed, NEW p \in Deployments, MarkDeployment(p)
    PROVE  DepStep
<1> DEFINE new == [dep[p] EXCEPT !.state = "deleting", !.request = "none"]
<1>1. UpdateDep(p, new, "update") /\ dep[p].state = "live" /\ dep[p] \in DepRows
  BY TablesTyped DEF MarkDeployment, DepsServed
<1>2. new \in DepRows /\ new.state = "deleting" /\ new.request = "none"
  BY <1>1 DEF DepRows
<1> HIDE DEF new
<1>3. DepMoves(p, new, "update")
  BY <1>1, <1>2 DEF DepMoves, Exists
<1>4. removed' \subseteq removed /\ UNCHANGED <<row, changes, domains, deployments, wire, online, page, store>>
  BY DEF MarkDeployment, feeds
<1> QED
  BY <1>1, <1>3, <1>4, DepStepIs

LEMMA AdminSeesMoves ==
    ASSUME TypeOK, DepsServed, NEW d \in Desktops, AdminSees(d)
    PROVE  DepStep \/ OtherStep
<1> DEFINE p == Tag[d]
<1>1. p \in Deployments /\ dep[p] \in DepRows
  BY TablesTyped DEF AdminSees
<1>2. /\ removed' \subseteq removed /\ removed' \subseteq {e \in Desktops : Tag[e] # None}
      /\ UNCHANGED <<row, changes, domains, deployments, wire, online, page, store>>
  BY TablesTyped DEF AdminSees, feeds
<1>3. CASE Tagged(p) = {} /\ dep[p].state = "deleting"
  <2> DEFINE new == [dep[p] EXCEPT !.state = "gone"]
  <2>1. UpdateDep(p, new, "delete")
    BY <1>3 DEF AdminSees
  <2>2. new \in DepRows /\ new.state = "gone" /\ new.request = dep[p].request
    BY <1>1 DEF DepRows
  <2> HIDE DEF new, p
  <2>3. dep[p].request \notin {"count", "mark"}
    BY <1>1, <1>3 DEF DepsServed
  <2>4. DepMoves(p, new, "delete")
    BY <1>1, <1>3, <2>2, <2>3 DEF DepMoves, Exists
  <2> QED
    BY <1>1, <1>2, <2>1, <2>4, DepStepIs
<1>4. CASE ~ (Tagged(p) = {} /\ dep[p].state = "deleting")
  BY <1>2, <1>4 DEF AdminSees, OtherStep, feeds
<1> QED
  BY <1>3, <1>4

\* What a step is.
Steps ==
    \/ RowStep \/ DepStep \/ OtherStep
    \/ DomainsThread \/ DeploymentsThread \/ Faults \/ Browser

LEMMA NextIs ==
    ASSUME TypeOK, DepsServed, Next
    PROVE  Steps
<1>1. ASSUME NEW d \in Desktops, Insert(d) \/ Advance(d) \/ RemoveRow(d) \/ AdminSees(d) PROVE Steps
  BY <1>1, InsertMoves, AdvanceMoves, RemoveRowMoves, AdminSeesMoves DEF Steps
<1>2. ASSUME NEW p \in Deployments, VisibleOnDesktops(p) \/ DeleteDesktops(p) PROVE Steps
  BY <1>2, VisibleOnDesktopsMoves, DeleteDesktopsMoves DEF Steps
<1>3. ASSUME NEW p \in Deployments,
             NewDeployment(p) \/ Recreate(p) \/ VisibleOnDeployment(p) \/ CountDesktops(p) \/ MarkDeployment(p)
      PROVE  Steps
  BY <1>3, NewDeploymentMoves, RecreateMoves, VisibleOnDeploymentMoves, CountDesktopsMoves, MarkDeploymentMoves DEF Steps
<1> QED
  BY Zenon, <1>1, <1>2, <1>3 DEF Next, Requests, Steps

\* Requests stay those of what exists.
LEMMA DepsAreServed ==
    ASSUME TypeOK, DepsServed, RowStep \/ DepStep \/ dep' = dep
    PROVE  DepsServed'
<1>0. dep \in [Deployments -> DepRows]
  BY TablesTyped
<1>1. CASE dep' = dep
  BY <1>1 DEF DepsServed
<1>2. CASE RowStep
  BY <1>2 DEF RowStep, DepsServed
<1>3. CASE DepStep
  <2>1. PICK p \in Deployments, new \in DepRows, event \in {"none", "add", "update", "delete"} :
           DepMoves(p, new, event) /\ UpdateDep(p, new, event)
    BY <1>3 DEF DepStep
  <2>2. dep' = [dep EXCEPT ![p] = new]
    BY <2>1 DEF UpdateDep
  <2>3. dep'[p] = new /\ \A q \in Deployments : q # p => dep'[q] = dep[q]
    BY <1>0, <2>2
  <2>4. /\ new.request \in {"count", "mark"} => new.state = "live"
        /\ new.state # "unborn"
    <3>1. CASE event = "none"
      BY <2>1, <3>1 DEF DepMoves
    <3>2. CASE event # "none"
      BY <2>1, <3>2 DEF DepMoves
    <3> QED
      BY <3>1, <3>2
  <2> QED
    BY <2>3, <2>4 DEF DepsServed
<1> QED
  BY <1>1, <1>2, <1>3

-----------------------------------------------------------------------------
(* Types. *)

\* What a thread holds.
LEMMA HeldIs ==
    ASSUME NEW Held, NEW t \in Threads(Held)
    PROVE  /\ t.held = <<>> \/ (t.held = <<t.held[1]>> /\ t.held # <<>> /\ t.held[1] \in Held)
           /\ t.held \in Seq(Held)
<1>1. t.held \in Seq(Held) /\ Len(t.held) <= 1
  BY DEF Threads
<1> DEFINE q == t.held
<1> HIDE DEF q
<1>2. q \in Seq(Held) /\ Len(q) <= 1
  BY <1>1 DEF q
<1>3. CASE q = <<>>
  BY <1>2, <1>3 DEF q
<1>4. CASE q # <<>>
  <2>0. Len(q) \in Nat /\ Len(q) # 0
    BY <1>2, <1>4
  <2>1. Len(q) = 1 /\ q[1] \in Held
    BY <1>2, <2>0
  <2>2. q = <<q[1]>>
    BY <1>2, <2>1
  <2> QED
    BY <1>2, <1>4, <2>1, <2>2 DEF q
<1> QED
  BY <1>3, <1>4

LEMMA HoldIs ==
    ASSUME NEW Held, NEW t \in Threads(Held)
    PROVE  /\ \A h \in Held : /\ [t EXCEPT !.held = <<h>>] \in Threads(Held)
                              /\ [t EXCEPT !.held = <<h>>].held = <<h>>
           /\ [t EXCEPT !.held = <<>>] \in Threads(Held)
           /\ [t EXCEPT !.held = <<>>].held = <<>>
           /\ Listening \in Threads(Held) /\ Listening.held = <<>>
           /\ [Listening EXCEPT !.up = FALSE] \in Threads(Held) /\ [Listening EXCEPT !.up = FALSE].held = <<>>
           /\ [Listening EXCEPT !.up = FALSE, !.dead = TRUE] \in Threads(Held)
           /\ [Listening EXCEPT !.up = FALSE, !.dead = TRUE].held = <<>>
<1>1. t \in [up : BOOLEAN, dead : BOOLEAN, held : Seq(Held)]
  BY DEF Threads
<1>2. ASSUME NEW q \in Seq(Held), Len(q) <= 1
      PROVE  [t EXCEPT !.held = q] \in Threads(Held) /\ [t EXCEPT !.held = q].held = q
  <2> DEFINE r == [t EXCEPT !.held = q]
  <2>1. r \in [up : BOOLEAN, dead : BOOLEAN, held : Seq(Held)] /\ r.held = q
    BY <1>1
  <2> HIDE DEF r
  <2>2. Len(r.held) <= 1
    BY <1>2, <2>1
  <2> QED
    BY <2>1, <2>2 DEF Threads, r
<1>3. <<>> \in Seq(Held) /\ Len(<<>>) <= 1
  OBVIOUS
<1>4. ASSUME NEW h \in Held PROVE <<h>> \in Seq(Held) /\ Len(<<h>>) <= 1
  OBVIOUS
<1>5. ASSUME NEW up \in BOOLEAN, NEW dead \in BOOLEAN
      PROVE  [up |-> up, dead |-> dead, held |-> <<>>] \in Threads(Held)
  <2> DEFINE r == [up |-> up, dead |-> dead, held |-> <<>>]
  <2>1. r \in [up : BOOLEAN, dead : BOOLEAN, held : Seq(Held)] /\ r.held = <<>>
    BY <1>3
  <2> HIDE DEF r
  <2>2. Len(r.held) <= 1
    BY <1>3, <2>1
  <2> QED
    BY <2>1, <2>2 DEF Threads, r
<1>6. Listening \in Threads(Held) /\ Listening.held = <<>>
  BY <1>5 DEF Listening
<1>9. ASSUME NEW x \in Threads(Held), x.held = <<>>
      PROVE  /\ [x EXCEPT !.up = FALSE] \in Threads(Held) /\ [x EXCEPT !.up = FALSE].held = <<>>
             /\ [x EXCEPT !.up = FALSE, !.dead = TRUE] \in Threads(Held)
             /\ [x EXCEPT !.up = FALSE, !.dead = TRUE].held = <<>>
  <2>0. x \in [up : BOOLEAN, dead : BOOLEAN, held : Seq(Held)]
    BY DEF Threads
  <2>1. ASSUME NEW r \in [up : BOOLEAN, dead : BOOLEAN, held : Seq(Held)], r.held = <<>>
        PROVE  r \in Threads(Held)
    <3>1. Len(r.held) <= 1
      BY <1>3, <2>1
    <3> QED
      BY <3>1 DEF Threads
  <2> DEFINE r1 == [x EXCEPT !.up = FALSE]
             r2 == [x EXCEPT !.up = FALSE, !.dead = TRUE]
  <2>2. r1 \in [up : BOOLEAN, dead : BOOLEAN, held : Seq(Held)] /\ r1.held = <<>>
    BY <1>9, <2>0
  <2>3. r2 \in [up : BOOLEAN, dead : BOOLEAN, held : Seq(Held)] /\ r2.held = <<>>
    BY <1>9, <2>0
  <2> HIDE DEF r1, r2
  <2>4. r1 \in Threads(Held) /\ r2 \in Threads(Held)
    BY <2>1, <2>2, <2>3
  <2> QED
    BY <2>2, <2>3, <2>4 DEF r1, r2
<1>7. \A h \in Held : [t EXCEPT !.held = <<h>>] \in Threads(Held) /\ [t EXCEPT !.held = <<h>>].held = <<h>>
  BY <1>2, <1>4
<1>8. [t EXCEPT !.held = <<>>] \in Threads(Held) /\ [t EXCEPT !.held = <<>>].held = <<>>
  BY <1>2, <1>3
<1>10. /\ [Listening EXCEPT !.up = FALSE] \in Threads(Held) /\ [Listening EXCEPT !.up = FALSE].held = <<>>
       /\ [Listening EXCEPT !.up = FALSE, !.dead = TRUE] \in Threads(Held)
       /\ [Listening EXCEPT !.up = FALSE, !.dead = TRUE].held = <<>>
  BY <1>6, <1>9
<1> QED
  BY <1>6, <1>7, <1>8, <1>10

\* What becomes of what the other thread holds.
Late(h, summary) == [h EXCEPT !.late = @ \/ (h.id = summary.id /\ h.summary # summary)]

LEMMA LateIs ==
    ASSUME NEW h, h \in HeldChanges \/ h \in HeldDepChanges, NEW summary
    PROVE  /\ h \in HeldChanges => Late(h, summary) \in HeldChanges /\ Late(h, summary).card = h.card
           /\ h \in HeldDepChanges => Late(h, summary) \in HeldDepChanges
           /\ Late(h, summary).id = h.id /\ Late(h, summary).event = h.event
           /\ Late(h, summary).summary = h.summary
           /\ Late(h, summary).late = (h.late \/ (h.id = summary.id /\ h.summary # summary))
<1>1. CASE h \in HeldChanges
  BY <1>1 DEF Late, HeldChanges, HeldDepChanges
<1>2. CASE h \in HeldDepChanges
  BY <1>2 DEF Late, HeldChanges, HeldDepChanges
<1> QED
  BY <1>1, <1>2

LEMMA OvertakenIs ==
    ASSUME NEW Held, Held = HeldChanges \/ Held = HeldDepChanges, NEW t \in Threads(Held), NEW summary
    PROVE  /\ Overtaken(t, summary) \in Threads(Held)
           /\ t.held = <<>> => Overtaken(t, summary).held = <<>>
           /\ t.held # <<>> => Overtaken(t, summary).held = <<Late(t.held[1], summary)>>
<1> DEFINE r == Overtaken(t, summary)
           h == t.held[1]
<1>1. t.held = <<>> \/ (t.held = <<h>> /\ t.held # <<>> /\ h \in Held)
  BY HeldIs
<1>2. t \in [up : BOOLEAN, dead : BOOLEAN, held : Seq(Held)]
  BY DEF Threads
<1>3. CASE t.held = <<>>
  BY <1>3 DEF Overtaken
<1>4. CASE t.held # <<>> /\ h.id = summary.id /\ h.summary # summary
  <2>0. h \in Held
    BY <1>1, <1>4
  <2>1. r = [t EXCEPT !.held[1].late = TRUE]
    BY <1>4 DEF Overtaken
  <2>2. [h EXCEPT !.late = TRUE] = Late(h, summary)
    <3>1. h \in HeldChanges \/ h \in HeldDepChanges
      BY <2>0
    <3>2. h.late \in BOOLEAN
      BY <3>1 DEF HeldChanges, HeldDepChanges
    <3> QED
      BY <1>4, <3>1, <3>2 DEF Late, HeldChanges, HeldDepChanges
  <2>3. Late(h, summary) \in Held
    BY <2>0, LateIs
  <2>4. [t.held EXCEPT ![1].late = TRUE] = <<[h EXCEPT !.late = TRUE]>>
    <3> DEFINE q == t.held
    <3> HIDE DEF q
    <3>1. q = <<q[1]>>
      BY <1>1, <1>4 DEF q
    <3> DEFINE y == [q[1] EXCEPT !.late = TRUE]
               r2 == [q EXCEPT ![1] = y]
    <3>3. q \in Seq(Held) /\ Len(q) = 1
      <4>1. q \in Seq(Held)
        BY HeldIs DEF q
      <4>2. \A a : Len(<<a>>) = 1
        OBVIOUS
      <4> QED
        BY <3>1, <4>1, <4>2
    <3>4. [q EXCEPT ![1].late = TRUE] = r2
      OBVIOUS
    <3> HIDE DEF y
    <3>5. r2 = <<y>>
      <4>1. r2 \in [1 .. 1 -> {y}] /\ <<y>> \in [1 .. 1 -> {y}]
        BY <3>3
      <4>2. \A i \in 1 .. 1 : r2[i] = y /\ <<y>>[i] = y
        BY <3>3
      <4> HIDE DEF r2
      <4> QED
        BY <4>1, <4>2
    <3>2. [q EXCEPT ![1].late = TRUE] = <<[q[1] EXCEPT !.late = TRUE]>>
      BY <3>4, <3>5 DEF y
    <3> QED
      BY <3>2 DEF q
  <2>5. r = [t EXCEPT !.held = <<Late(h, summary)>>]
    BY <1>2, <2>1, <2>2, <2>4
  <2> HIDE DEF r
  <2>6. r \in Threads(Held) /\ r.held = <<Late(h, summary)>>
    BY ZenonT(60), <2>3, <2>5, HoldIs
  <2> QED
    BY <1>4, <2>6 DEF r
<1>5. CASE t.held # <<>> /\ ~ (h.id = summary.id /\ h.summary # summary)
  <2>1. r = t
    BY <1>5 DEF Overtaken
  <2>2. h \in HeldChanges \/ h \in HeldDepChanges
    BY <1>1, <1>5
  <2>3. h.late \in BOOLEAN
    BY <2>2 DEF HeldChanges, HeldDepChanges
  <2>4. Late(h, summary) = h
    BY <1>5, <2>2, <2>3 DEF Late, HeldChanges, HeldDepChanges
  <2> QED
    BY <1>1, <1>5, <2>1, <2>4
<1> QED
  BY <1>3, <1>4, <1>5

\* The card of a row of the table, and the summary of a deployment.
LEMMA CardIs ==
    ASSUME NEW d \in Desktops, NEW r, InTable(r)
    PROVE  /\ Card(d, r) \in Cards /\ Card(d, r).id = d
           /\ IsFrontend(r.status) => Card(d, r).state = r.status
<1>1. Parsed(r.status) \in {"Creating", "Stopped", "Started", "ForceDeleting"}
  BY DEF Parsed, InTable, Statuses
<1>2. IsFrontend(r.status) => Parsed(r.status) = r.status
  BY DEF IsFrontend, Parsed
<1> QED
  BY <1>1, <1>2 DEF Card, Cards

LEMMA GetIs ==
    ASSUME TypeOK, NEW p \in Deployments
    PROVE  Get(p) \in Summaries /\ Get(p).id = p /\ Get(p).visible = dep[p].visible
<1>1. IsFiniteSet(Desktops) /\ dep[p] \in DepRows
  BY TagAssumption, TablesTyped
<1> DEFINE n == Cardinality(Tagged(p))
           m == Cardinality({d \in Tagged(p) : row[d].status = "Started"})
           N == Cardinality(Desktops)
<1>2. Tagged(p) \in SUBSET Desktops /\ {d \in Tagged(p) : row[d].status = "Started"} \in SUBSET Desktops
  BY DEF Tagged
<1>3. IsFiniteSet(Tagged(p)) /\ n <= N
  BY <1>1, <1>2, FS_Subset
<1>4. IsFiniteSet({d \in Tagged(p) : row[d].status = "Started"}) /\ m <= N
  BY <1>1, <1>2, FS_Subset
<1>5. n \in Nat /\ m \in Nat /\ N \in Nat
  BY <1>1, <1>3, <1>4, FS_CardinalityType
<1>6. Get(p) = [id |-> p, visible |-> dep[p].visible, total |-> n, started |-> m]
  BY DEF Get
<1> HIDE DEF n, m, N
<1>7. n \in 0 .. N /\ m \in 0 .. N
  BY <1>3, <1>4, <1>5
<1> QED
  BY <1>1, <1>6, <1>7 DEF Summaries, DepRows, N

\* The row an event is about is one of the table.
LEMMA RowOfIs ==
    ASSUME NEW c \in Changes
    PROVE  /\ c.id \in Desktops /\ InTable(RowOf(c)) /\ RowOf(c).visible \in BOOLEAN
           /\ c.new = Gone => RowOf(c) = c.old
           /\ c.new # Gone => RowOf(c) = c.new /\ InTable(c.new)
           /\ InTable(c.old) \/ c.old = Unborn
           /\ c.old \in Rows /\ c.new \in Rows
           /\ EventOf(c) \in {"none", "add", "update", "delete"}
<1>1. c \in [id : Desktops, old : Rows, new : Rows] /\ c.old # Gone /\ c.new # Unborn /\ (c.old # Unborn \/ c.new # Gone)
  BY DEF Changes
<1>2. InTable(c.old) \/ c.old = Unborn
  BY <1>1, RowIs
<1>3. c.new # Gone => InTable(c.new)
  BY <1>1, RowIs
<1>4. InTable(RowOf(c))
  BY <1>1, <1>2, <1>3 DEF RowOf
<1>5. RowOf(c).visible \in BOOLEAN
  BY <1>1, RowIs DEF RowOf
<1>6. EventOf(c) \in {"none", "add", "update", "delete"}
  BY DEF EventOf
<1> QED
  BY <1>1, <1>2, <1>3, <1>4, <1>5, <1>6 DEF RowOf

\* The events of a change.
LEMMA EventsAre ==
    ASSUME NEW c \in Changes, EventOf(c) # "none"
    PROVE  /\ Card(c.id, RowOf(c)) \in Cards /\ Card(c.id, RowOf(c)).id = c.id
           /\ Event("desktop", EventOf(c), Card(c.id, RowOf(c))) \in Events
           /\ Event("desktop", "delete", Card(c.id, RowOf(c))) \in Events
           /\ UserEvents(c) \in Seq(Events) /\ UserEvents(c) # <<>>
<1> DEFINE card == Card(c.id, RowOf(c))
           e1 == Event("desktop", EventOf(c), card)
           e2 == Event("desktop", "delete", card)
<1>1. card \in Cards /\ card.id = c.id
  BY RowOfIs, CardIs
<1>2. EventOf(c) \in {"add", "update", "delete"}
  BY RowOfIs
<1> HIDE DEF card
<1>3. e1 \in Events /\ e2 \in Events
  BY <1>1, <1>2 DEF Events, Event
<1>4. UserEvents(c) = <<e1>> \o (IF Hides(c) THEN <<e2>> ELSE <<>>)
  BY DEF UserEvents, card
<1> HIDE DEF e1, e2
<1>5. UserEvents(c) \in Seq(Events) /\ UserEvents(c) # <<>>
  BY <1>3, <1>4
<1> QED
  BY <1>1, <1>3, <1>5 DEF card, e1, e2

\* TypeOK in its parts.
QueuesTyped ==
    /\ changes \in Seq(Changes) /\ depChanges \in Seq(DepChanges)
    /\ domains \in Threads(HeldChanges) /\ deployments \in Threads(HeldDepChanges)
    /\ wire \in Seq(Events)
    /\ online \in BOOLEAN
FetchesTyped ==
    /\ asked \in Each(Fetches)
    /\ \A v \in Views : asked[v].step = "read" => asked[v].list \in ListsOf(v)
    /\ asked["deployment"].step # "none" => asked["deployment"].of \in Deployments
    /\ trust \in [Views -> {"due", "kept", "missed"}]
ListsTyped == page \in Views \cup {None} /\ store \in Each(ListsOf)
RowsTyped ==
    /\ row \in [Desktops -> Rows] /\ dep \in [Deployments -> DepRows]
    /\ removed \subseteq {d \in Desktops : Tag[d] # None}

LEMMA TypesAre == TypeOK <=> RowsTyped /\ QueuesTyped /\ FetchesTyped /\ ListsTyped
  BY Zenon DEF TypeOK, RowsTyped, QueuesTyped, FetchesTyped, ListsTyped

LEMMA TypesOfNextAre == TypeOK' <=> RowsTyped' /\ QueuesTyped' /\ FetchesTyped' /\ ListsTyped'
  BY Zenon DEF TypeOK, RowsTyped, QueuesTyped, FetchesTyped, ListsTyped

\* A spoilt list is still of its type.
LEMMA SpoiltTyped ==
    ASSUME TypeOK, NEW vs, Spoilt(vs)
    PROVE  FetchesTyped'
<1>1. FetchesTyped
  BY TypesAre
<1>2. \A v \in Views : asked'[v].step = asked[v].step /\ asked'[v].of = asked[v].of /\ asked'[v].list = asked[v].list
  BY DEF Spoilt
<1>3. "deployment" \in Views
  BY DEF Views
<1>4. trust' \in [Views -> {"due", "kept", "missed"}] /\ asked' \in Each(Fetches)
  BY DEF Spoilt
<1> QED
  BY <1>1, <1>2, <1>3, <1>4 DEF FetchesTyped

\* The changes that a step of the rows queues: one for each row that changes.
LEMMA QueuedRows ==
    ASSUME TypeOK, NEW new, RowMoves(new), UpdateRows(new)
    PROVE  /\ row' = new
           /\ \E cs \in Seq(Changes) :
                 /\ changes' = IF domains.up THEN changes \o cs ELSE changes
                 /\ \A d \in Desktops : new[d] # row[d] =>
                       \E i \in 1 .. Len(cs) : cs[i] = [id |-> d, old |-> row[d], new |-> new[d]]
                 /\ \A i \in 1 .. Len(cs) :
                       /\ cs[i].id \in Desktops /\ new[cs[i].id] # row[cs[i].id]
                       /\ cs[i].old = row[cs[i].id] /\ cs[i].new = new[cs[i].id]
                 /\ \A i, j \in 1 .. Len(cs) : cs[i].id = cs[j].id => i = j
<1> DEFINE D == {d \in Desktops : new[d] # row[d]}
           q == SetToSeq(D)
           cs == [i \in DOMAIN q |-> [id |-> q[i], old |-> row[q[i]], new |-> new[q[i]]]]
<1>1. row' = new /\ changes' = IF domains.up THEN changes \o cs ELSE changes
  BY DEF UpdateRows
<1>2. IsFiniteSet(D)
  BY TagAssumption, FS_Subset
<1>3. /\ q \in Seq(D) /\ Range(q) = D
      /\ \A i, j \in 1 .. Len(q) : q[i] = q[j] => i = j
  BY <1>2, SetToSeqIs
<1> HIDE DEF q
<1>4. /\ DOMAIN q = 1 .. Len(q) /\ Len(q) \in Nat
      /\ \A i \in 1 .. Len(q) : q[i] \in D
      /\ \A d \in D : \E i \in 1 .. Len(q) : q[i] = d
  BY <1>3, RangeIs
<1>5. ASSUME NEW i \in 1 .. Len(q) PROVE cs[i] \in Changes
  <2> DEFINE d == q[i]
             c == [id |-> d, old |-> row[d], new |-> new[d]]
  <2>1. d \in Desktops /\ new[d] # row[d]
    BY <1>4
  <2>2. row[d] \in Rows /\ new[d] \in Rows
    BY <2>1, TablesTyped DEF RowMoves
  <2>3. /\ InTable(row[d]) \/ (row[d] = Unborn /\ InTable(new[d]))
        /\ InTable(new[d]) \/ new[d] = Gone
    BY <2>1 DEF RowMoves
  <2>4. ~ InTable(Unborn) /\ ~ InTable(Gone) /\ Unborn # Gone
    BY <2>2, RowIs
  <2>5. cs[i] = c
    BY <1>4
  <2> HIDE DEF d, cs
  <2>6. c \in Changes
    BY <2>1, <2>2, <2>3, <2>4 DEF Changes
  <2> QED
    BY <2>5, <2>6
<1>6. DOMAIN cs = 1 .. Len(q) /\ cs = [i \in 1 .. Len(q) |-> cs[i]]
  BY <1>4
<1>7. \A i \in 1 .. Len(q) : cs[i].id = q[i] /\ cs[i].old = row[q[i]] /\ cs[i].new = new[q[i]]
                             /\ cs[i] = [id |-> q[i], old |-> row[q[i]], new |-> new[q[i]]]
  BY <1>4
<1> HIDE DEF cs
<1>8. cs \in Seq(Changes) /\ Len(cs) = Len(q)
  BY <1>4, <1>5, <1>6
<1>9. \A i \in 1 .. Len(cs) :
         /\ cs[i].id \in Desktops /\ new[cs[i].id] # row[cs[i].id]
         /\ cs[i].old = row[cs[i].id] /\ cs[i].new = new[cs[i].id]
  <2>1. ASSUME NEW i \in 1 .. Len(q)
        PROVE  /\ cs[i].id \in Desktops /\ new[cs[i].id] # row[cs[i].id]
               /\ cs[i].old = row[cs[i].id] /\ cs[i].new = new[cs[i].id]
    <3>1. q[i] \in Desktops /\ new[q[i]] # row[q[i]]
      BY <1>4
    <3>2. cs[i].id = q[i] /\ cs[i].old = row[q[i]] /\ cs[i].new = new[q[i]]
      BY <1>7
    <3> QED
      BY <3>1, <3>2
  <2> QED
    BY <1>8, <2>1
<1>10. \A d \in Desktops : new[d] # row[d] =>
          \E i \in 1 .. Len(cs) : cs[i] = [id |-> d, old |-> row[d], new |-> new[d]]
  <2>1. ASSUME NEW d \in Desktops, new[d] # row[d]
        PROVE  \E i \in 1 .. Len(cs) : cs[i] = [id |-> d, old |-> row[d], new |-> new[d]]
    <3>1. PICK i \in 1 .. Len(q) : q[i] = d
      BY <1>4, <2>1
    <3> QED
      BY <1>7, <1>8, <3>1
  <2> QED
    BY <2>1
<1>11. \A i, j \in 1 .. Len(cs) : cs[i].id = cs[j].id => i = j
  <2>1. ASSUME NEW i \in 1 .. Len(q), NEW j \in 1 .. Len(q), cs[i].id = cs[j].id PROVE i = j
    <3>1. q[i] = q[j]
      BY <1>7, <2>1
    <3> QED
      BY <1>3, <3>1
  <2> QED
    BY <1>8, <2>1
<1> HIDE DEF D
<1> QED
  BY <1>1, <1>8, <1>9, <1>10, <1>11

\* What a change of the rows spoils.
LEMMA RowsSpoil ==
    ASSUME TypeOK, NEW new, UpdateRows(new)
    PROVE  Spoilt(Untold(new))
  BY SpoilIs DEF UpdateRows

LEMMA RowStepTypes ==
    ASSUME TypeOK, RowStep
    PROVE  TypeOK'
<1>1. PICK new \in [Desktops -> Rows] : RowMoves(new) /\ UpdateRows(new)
  BY DEF RowStep
<1>2. row' \in [Desktops -> Rows]
  BY <1>1 DEF UpdateRows
<1>3. changes' \in Seq(Changes)
  <2>1. PICK cs \in Seq(Changes) : changes' = IF domains.up THEN changes \o cs ELSE changes
    BY <1>1, QueuedRows
  <2>2. changes \in Seq(Changes)
    BY DEF TypeOK
  <2>3. changes \o cs \in Seq(Changes)
    BY <2>2
  <2> QED
    BY <2>1, <2>2, <2>3
<1>4. FetchesTyped'
  BY <1>1, RowsSpoil, SpoiltTyped
<1>5. RowsTyped' /\ QueuesTyped' /\ ListsTyped'
  BY <1>2, <1>3 DEF RowStep, TypeOK, RowsTyped, QueuesTyped, ListsTyped
<1> QED
  BY <1>4, <1>5, TypesOfNextAre

\* The change that a step of the deployments queues.
LEMMA QueuedDeps ==
    ASSUME TypeOK, NEW p \in Deployments, NEW new \in DepRows, NEW event, DepMoves(p, new, event), UpdateDep(p, new, event)
    PROVE  /\ dep' \in [Deployments -> DepRows]
           /\ dep'[p] = new /\ \A q \in Deployments : q # p => dep'[q] = dep[q]
           /\ \E cs \in Seq(DepChanges) :
                 /\ depChanges' = depChanges \o cs
                 /\ cs = IF deployments.up /\ event # "none" THEN <<[id |-> p, event |-> event]>> ELSE <<>>
           /\ Spoilt(IF deployments.up \/ event = "none" THEN {} ELSE {"deployment", "deployments"})
<1>1. dep \in [Deployments -> DepRows] /\ dep' = [dep EXCEPT ![p] = new]
  BY TablesTyped DEF UpdateDep
<1>2. depChanges \in Seq(DepChanges)
  BY DEF TypeOK
<1> DEFINE c == [id |-> p, event |-> event]
           cs == IF deployments.up /\ event # "none" THEN <<c>> ELSE <<>>
<1>3. event # "none" => c \in DepChanges
  BY DEF DepMoves, DepChanges
<1>4. depChanges' = IF deployments.up /\ event # "none" THEN Append(depChanges, c) ELSE depChanges
  BY DEF UpdateDep
<1> HIDE DEF c
<1>5. cs \in Seq(DepChanges)
  BY <1>3
<1>6. depChanges' = depChanges \o cs
  <2>1. depChanges \o <<>> = depChanges
    BY <1>2
  <2>2. ASSUME event # "none" PROVE Append(depChanges, c) = depChanges \o <<c>>
    BY <1>2, <1>3, <2>2, AppendIsConcat
  <2> QED
    BY <1>4, <2>1, <2>2
<1>7. Spoilt(IF deployments.up \/ event = "none" THEN {} ELSE {"deployment", "deployments"})
  BY SpoilIs DEF UpdateDep
<1> QED
  BY <1>1, <1>5, <1>6, <1>7 DEF c

LEMMA DepStepTypes ==
    ASSUME TypeOK, DepStep
    PROVE  TypeOK'
<1>1. PICK p \in Deployments, new \in DepRows, event \in {"none", "add", "update", "delete"} :
         DepMoves(p, new, event) /\ UpdateDep(p, new, event)
  BY DEF DepStep
<1>2. dep' \in [Deployments -> DepRows]
  BY <1>1, QueuedDeps
<1>3. depChanges' \in Seq(DepChanges)
  <2>1. PICK cs \in Seq(DepChanges) : depChanges' = depChanges \o cs
    BY <1>1, QueuedDeps
  <2> QED
    BY <2>1 DEF TypeOK
<1>4. FetchesTyped'
  BY <1>1, QueuedDeps, SpoiltTyped
<1>5. RowsTyped' /\ QueuesTyped' /\ ListsTyped'
  BY <1>2, <1>3 DEF DepStep, TypeOK, RowsTyped, QueuesTyped, ListsTyped
<1> QED
  BY <1>4, <1>5, TypesOfNextAre

LEMMA OtherStepTypes ==
    ASSUME TypeOK, OtherStep
    PROVE  TypeOK'
<1>1. /\ removed' \subseteq {d \in Desktops : Tag[d] # None}
      /\ UNCHANGED <<row, dep, changes, depChanges, domains, deployments, wire, online, page, store, asked, trust>>
  BY DEF OtherStep, feeds
<1>2. RowsTyped' /\ QueuesTyped' /\ ListsTyped' /\ FetchesTyped'
  BY <1>1, TypesAre DEF RowsTyped, QueuesTyped, ListsTyped, FetchesTyped
<1> QED
  BY <1>2, TypesOfNextAre

\* What is emitted.
LEMMA EmitIs ==
    ASSUME TypeOK, NEW events \in Seq(Events), NEW vs, Emit(events, vs)
    PROVE  /\ wire' \in Seq(Events)
           /\ wire' = wire \o (IF online THEN events ELSE <<>>)
           /\ Spoilt(IF online \/ events = <<>> THEN vs ELSE Views)
<1>1. wire \in Seq(Events)
  BY DEF TypeOK
<1>2. wire \o <<>> = wire /\ wire \o events \in Seq(Events)
  BY <1>1
<1>3. wire' = IF online THEN wire \o events ELSE wire
  BY DEF Emit
<1>4. Spoilt(IF online \/ events = <<>> THEN vs ELSE Views)
  BY SpoilIs DEF Emit
<1> QED
  BY <1>1, <1>2, <1>3, <1>4

\* What is about a deployment that TakeChange holds.
LEMMA HeldChangeIs ==
    ASSUME TypeOK, NEW c \in Changes, EventOf(c) # "none", NEW p \in Deployments
    PROVE  [id |-> p, event |-> EventOf(c), summary |-> Get(p), late |-> FALSE,
            card |-> Card(c.id, RowOf(c))] \in HeldChanges
<1>1. Card(c.id, RowOf(c)) \in Cards /\ EventOf(c) \in {"add", "update", "delete"}
  BY EventsAre, RowOfIs
<1>2. Get(p) \in Summaries
  BY GetIs
<1> QED
  BY <1>1, <1>2 DEF HeldChanges

\* A change is taken.
LEMMA TakeChangeIs ==
    ASSUME TypeOK, TakeChange
    PROVE  LET c == Head(changes)  p == Tag[c.id] IN
           /\ domains.up /\ domains.held = <<>> /\ changes # <<>> /\ c \in Changes /\ changes' = Tail(changes)
           /\ changes' \in Seq(Changes)
           /\ domains' \in Threads(HeldChanges) /\ wire' \in Seq(Events)
           /\ EventOf(c) = "none" =>
                 wire' = wire /\ domains'.held = <<>> /\ asked' = asked /\ trust' = trust
           /\ EventOf(c) # "none" =>
                 /\ wire' = wire \o (IF online THEN UserEvents(c) ELSE <<>>)
                 /\ Spoilt(IF online THEN {} ELSE Views)
                 /\ p = None \/ ~ Exists(p) => domains'.held = <<>>
                 /\ p # None /\ Exists(p) =>
                       /\ p \in Deployments
                       /\ domains'.held = <<[id |-> p, event |-> EventOf(c), summary |-> Get(p),
                                             late |-> FALSE, card |-> Card(c.id, RowOf(c))]>>
                       /\ domains'.held[1] \in HeldChanges
<1> DEFINE c == Head(changes)
           p == Tag[c.id]
           h == [id |-> p, event |-> EventOf(c), summary |-> Get(p), late |-> FALSE, card |-> Card(c.id, RowOf(c))]
<1>1. domains.up /\ domains.held = <<>> /\ changes # <<>> /\ changes' = Tail(changes)
  BY DEF TakeChange
<1>2. changes \in Seq(Changes) /\ domains \in Threads(HeldChanges) /\ wire \in Seq(Events)
  BY DEF TypeOK
<1>3. c \in Changes /\ changes' \in Seq(Changes)
  BY <1>1, <1>2, HeadAndTail
<1>4. c.id \in Desktops /\ (p # None => p \in Deployments)
  BY <1>3, RowOfIs, TablesTyped
<1>5. CASE EventOf(c) = "none"
  <2>1. UNCHANGED <<domains, wire, asked, trust>>
    BY <1>5 DEF TakeChange
  <2> HIDE DEF c
  <2> QED
    BY <1>1, <1>2, <1>3, <1>5, <2>1 DEF c
<1>6. CASE EventOf(c) # "none"
  <2>1. /\ Emit(UserEvents(c), {})
        /\ domains' = IF p = None \/ ~(p \in Deployments /\ Exists(p)) THEN domains ELSE [domains EXCEPT !.held = <<h>>]
    BY <1>6 DEF TakeChange
  <2> HIDE DEF c
  <2>2. UserEvents(c) \in Seq(Events) /\ UserEvents(c) # <<>>
    BY <1>3, <1>6, EventsAre
  <2>3. /\ wire' \in Seq(Events) /\ wire' = wire \o (IF online THEN UserEvents(c) ELSE <<>>)
        /\ Spoilt(IF online \/ UserEvents(c) = <<>> THEN {} ELSE Views)
    BY <2>1, <2>2, EmitIs
  <2>4. CASE p # None /\ Exists(p)
    <3>1. p \in Deployments /\ h \in HeldChanges
      BY <1>3, <1>4, <1>6, <2>4, HeldChangeIs
    <3> HIDE DEF p
    <3>2. domains' = [domains EXCEPT !.held = <<h>>]
      BY <2>1, <2>4, <3>1
    <3>3. \A x \in HeldChanges : /\ [domains EXCEPT !.held = <<x>>] \in Threads(HeldChanges)
                                 /\ [domains EXCEPT !.held = <<x>>].held = <<x>> /\ <<x>>[1] = x
      BY <1>2, HoldIs
    <3> HIDE DEF h
    <3>4. domains' \in Threads(HeldChanges) /\ domains'.held = <<h>> /\ domains'.held[1] \in HeldChanges
      BY <3>1, <3>2, <3>3
    <3> QED
      BY <1>1, <1>3, <1>6, <2>2, <2>3, <2>4, <3>1, <3>4 DEF c, p, h
  <2>5. CASE ~ (p # None /\ Exists(p))
    <3>1. domains' = domains
      BY <2>1, <2>5
    <3> HIDE DEF p, h
    <3> QED
      BY <1>1, <1>2, <1>3, <1>6, <2>2, <2>3, <2>5, <3>1 DEF c, p
  <2> QED
    BY <2>4, <2>5
<1> QED
  BY <1>5, <1>6

LEMMA TakeChangeTypes ==
    ASSUME TypeOK, TakeChange
    PROVE  TypeOK'
<1> DEFINE c == Head(changes)
<1>1. changes' \in Seq(Changes) /\ domains' \in Threads(HeldChanges) /\ wire' \in Seq(Events)
  BY TakeChangeIs
<1>2. FetchesTyped'
  <2>1. CASE EventOf(c) = "none"
    <3>1. asked' = asked /\ trust' = trust
      BY <2>1, TakeChangeIs
    <3> QED
      BY <3>1, TypesAre DEF FetchesTyped
  <2>2. CASE EventOf(c) # "none"
    <3>1. Spoilt(IF online THEN {} ELSE Views)
      BY <2>2, TakeChangeIs
    <3> QED
      BY <3>1, SpoiltTyped
  <2> QED
    BY <2>1, <2>2
<1>3. RowsTyped' /\ QueuesTyped' /\ ListsTyped'
  BY <1>1 DEF TakeChange, TypeOK, RowsTyped, QueuesTyped, ListsTyped
<1> QED
  BY <1>2, <1>3, TypesOfNextAre

\* What DomainsThread holds is told.
ToldEvents(h) == <<Event("deploymentdesktop", h.event, h.card), Event("deployments", "update", h.summary)>>
LEMMA TellDeploymentIs ==
    ASSUME TypeOK, TellDeployment
    PROVE  LET h == domains.held[1] IN
           /\ domains.held = <<h>> /\ h \in HeldChanges /\ domains'.held = <<>>
           /\ ToldEvents(h) \in Seq(Events)
           /\ wire' = wire \o (IF online THEN ToldEvents(h) ELSE <<>>) /\ wire' \in Seq(Events)
           /\ Spoilt(IF online THEN IF h.late THEN {"deployments"} ELSE {} ELSE Views)
           /\ deployments' = Overtaken(deployments, h.summary)
           /\ domains' \in Threads(HeldChanges) /\ deployments' \in Threads(HeldDepChanges)
<1> DEFINE h == domains.held[1]
<1>1. domains \in Threads(HeldChanges) /\ deployments \in Threads(HeldDepChanges)
  BY DEF TypeOK
<1>2. domains.held # <<>> /\ Emit(ToldEvents(h), IF h.late THEN {"deployments"} ELSE {})
      /\ deployments' = Overtaken(deployments, h.summary) /\ domains' = [domains EXCEPT !.held = <<>>]
  BY DEF TellDeployment, ToldEvents
<1>3. domains.held = <<h>> /\ h \in HeldChanges
  BY <1>1, <1>2, HeldIs
<1> HIDE DEF h
<1>4. ToldEvents(h) \in Seq(Events) /\ ToldEvents(h) # <<>>
  <2> DEFINE e1 == Event("deploymentdesktop", h.event, h.card)
             e2 == Event("deployments", "update", h.summary)
  <2>1. h.event \in {"add", "update", "delete"} /\ h.card \in Cards /\ h.summary \in Summaries
    BY <1>3 DEF HeldChanges
  <2>2. e1 \in Events /\ e2 \in Events
    BY <2>1 DEF Events, Event
  <2>3. ToldEvents(h) = <<e1, e2>>
    BY DEF ToldEvents
  <2> HIDE DEF e1, e2
  <2> QED
    BY <2>2, <2>3
<1>5. /\ wire' \in Seq(Events) /\ wire' = wire \o (IF online THEN ToldEvents(h) ELSE <<>>)
      /\ Spoilt(IF online \/ ToldEvents(h) = <<>> THEN IF h.late THEN {"deployments"} ELSE {} ELSE Views)
  BY <1>2, <1>4, EmitIs
<1>6. domains' \in Threads(HeldChanges) /\ domains'.held = <<>>
  BY <1>1, <1>2, HoldIs
<1>7. deployments' \in Threads(HeldDepChanges)
  BY <1>1, <1>2, OvertakenIs
<1> QED
  BY <1>2, <1>3, <1>4, <1>5, <1>6, <1>7 DEF h

LEMMA TellDeploymentTypes ==
    ASSUME TypeOK, TellDeployment
    PROVE  TypeOK'
<1>1. wire' \in Seq(Events) /\ domains' \in Threads(HeldChanges) /\ deployments' \in Threads(HeldDepChanges)
  BY TellDeploymentIs
<1>2. FetchesTyped'
  <2>1. Spoilt(IF online THEN IF domains.held[1].late THEN {"deployments"} ELSE {} ELSE Views)
    BY TellDeploymentIs
  <2> QED
    BY <2>1, SpoiltTyped
<1>3. RowsTyped' /\ QueuesTyped' /\ ListsTyped'
  BY <1>1 DEF TellDeployment, TypeOK, RowsTyped, QueuesTyped, ListsTyped, tables
<1> QED
  BY <1>2, <1>3, TypesOfNextAre

\* DeploymentsThread takes a change.
GoneEvents(p) == <<Event("deployments", "delete", [id |-> p])>>
LEMMA TakeDepChangeIs ==
    ASSUME TypeOK, TakeDepChange
    PROVE  LET c == Head(depChanges) IN
           /\ deployments.up /\ deployments.held = <<>> /\ depChanges # <<>> /\ c \in DepChanges
           /\ depChanges' = Tail(depChanges) /\ depChanges' \in Seq(DepChanges)
           /\ wire' \in Seq(Events) /\ deployments' \in Threads(HeldDepChanges)
           /\ c.event = "delete" =>
                 /\ GoneEvents(c.id) \in Seq(Events)
                 /\ wire' = wire \o (IF online THEN GoneEvents(c.id) ELSE <<>>) /\ deployments'.held = <<>>
                 /\ Spoilt(IF online THEN {} ELSE Views)
           /\ c.event # "delete" /\ Exists(c.id) =>
                 /\ wire' = wire /\ asked' = asked /\ trust' = trust
                 /\ deployments'.held = <<[id |-> c.id, event |-> c.event, summary |-> Get(c.id), late |-> FALSE]>>
                 /\ deployments'.held[1] \in HeldDepChanges
           /\ c.event # "delete" /\ ~ Exists(c.id) =>
                 wire' = wire /\ deployments'.held = <<>> /\ Spoilt({"deployment", "deployments"})
<1> DEFINE c == Head(depChanges)
           h == [id |-> c.id, event |-> c.event, summary |-> Get(c.id), late |-> FALSE]
<1>1. deployments.up /\ deployments.held = <<>> /\ depChanges # <<>> /\ depChanges' = Tail(depChanges)
  BY DEF TakeDepChange
<1>2. depChanges \in Seq(DepChanges) /\ deployments \in Threads(HeldDepChanges) /\ wire \in Seq(Events)
  BY DEF TypeOK
<1>3. c \in DepChanges /\ depChanges' \in Seq(DepChanges)
  BY <1>1, <1>2, HeadAndTail
<1>4. c.id \in Deployments /\ c.event \in {"add", "update", "delete"}
  BY <1>3 DEF DepChanges
<1>5. CASE c.event = "delete"
  <2>1. Emit(GoneEvents(c.id), {}) /\ deployments' = deployments
    BY <1>5 DEF TakeDepChange, GoneEvents
  <2> HIDE DEF c
  <2>2. GoneEvents(c.id) \in Seq(Events) /\ GoneEvents(c.id) # <<>>
    <3> DEFINE e == Event("deployments", "delete", [id |-> c.id])
    <3>1. e \in Events
      BY <1>4 DEF Events, Event
    <3>2. GoneEvents(c.id) = <<e>>
      BY DEF GoneEvents
    <3> HIDE DEF e
    <3> QED
      BY <3>1, <3>2
  <2>3. /\ wire' \in Seq(Events) /\ wire' = wire \o (IF online THEN GoneEvents(c.id) ELSE <<>>)
        /\ Spoilt(IF online \/ GoneEvents(c.id) = <<>> THEN {} ELSE Views)
    BY <2>1, <2>2, EmitIs
  <2> QED
    BY <1>1, <1>2, <1>3, <1>5, <2>1, <2>2, <2>3 DEF c
<1>6. CASE c.event # "delete" /\ Exists(c.id)
  <2>1. deployments' = [deployments EXCEPT !.held = <<h>>] /\ wire' = wire /\ asked' = asked /\ trust' = trust
    BY <1>6 DEF TakeDepChange
  <2>2. h \in HeldDepChanges
    BY <1>4, <1>6, GetIs DEF HeldDepChanges
  <2>3. \A x \in HeldDepChanges : /\ [deployments EXCEPT !.held = <<x>>] \in Threads(HeldDepChanges)
                                  /\ [deployments EXCEPT !.held = <<x>>].held = <<x>> /\ <<x>>[1] = x
    BY <1>2, HoldIs
  <2> HIDE DEF h, c
  <2>4. deployments' \in Threads(HeldDepChanges) /\ deployments'.held = <<h>> /\ deployments'.held[1] \in HeldDepChanges
    BY <2>1, <2>2, <2>3
  <2> QED
    BY <1>1, <1>2, <1>3, <1>6, <2>1, <2>4 DEF h, c
<1>7. CASE c.event # "delete" /\ ~ Exists(c.id)
  <2>1. deployments' = [Listening EXCEPT !.up = FALSE, !.dead = TRUE] /\ wire' = wire
        /\ Spoil({"deployment", "deployments"})
    BY <1>7 DEF TakeDepChange
  <2>2. deployments' \in Threads(HeldDepChanges) /\ deployments'.held = <<>>
    BY <1>2, <2>1, HoldIs
  <2>3. Spoilt({"deployment", "deployments"})
    BY <2>1, SpoilIs
  <2> HIDE DEF c
  <2> QED
    BY <1>1, <1>2, <1>3, <1>7, <2>1, <2>2, <2>3 DEF c
<1> QED
  BY <1>5, <1>6, <1>7

LEMMA TakeDepChangeTypes ==
    ASSUME TypeOK, TakeDepChange
    PROVE  TypeOK'
<1> DEFINE c == Head(depChanges)
<1>1. depChanges' \in Seq(DepChanges) /\ wire' \in Seq(Events) /\ deployments' \in Threads(HeldDepChanges)
  BY TakeDepChangeIs
<1>2. FetchesTyped'
  <2>1. CASE c.event = "delete"
    <3>1. Spoilt(IF online THEN {} ELSE Views)
      BY <2>1, TakeDepChangeIs
    <3> QED
      BY <3>1, SpoiltTyped
  <2>2. CASE c.event # "delete" /\ Exists(c.id)
    <3>1. asked' = asked /\ trust' = trust
      BY <2>2, TakeDepChangeIs
    <3> QED
      BY <3>1, TypesAre DEF FetchesTyped
  <2>3. CASE c.event # "delete" /\ ~ Exists(c.id)
    <3>1. Spoilt({"deployment", "deployments"})
      BY <2>3, TakeDepChangeIs
    <3> QED
      BY <3>1, SpoiltTyped
  <2> QED
    BY <2>1, <2>2, <2>3
<1>3. RowsTyped' /\ QueuesTyped' /\ ListsTyped'
  BY <1>1 DEF TakeDepChange, TypeOK, RowsTyped, QueuesTyped, ListsTyped
<1> QED
  BY <1>2, <1>3, TypesOfNextAre

\* What DeploymentsThread holds is told.
ToldOf(h) ==
    (IF h.event = "update" THEN <<Event("deployment", "update", h.summary)>> ELSE <<>>)
    \o <<Event("deployments", h.event, h.summary)>>
LEMMA TellDeploymentsIs ==
    ASSUME TypeOK, TellDeployments
    PROVE  LET h == deployments.held[1] IN
           /\ deployments.held = <<h>> /\ h \in HeldDepChanges /\ deployments'.held = <<>>
           /\ ToldOf(h) \in Seq(Events)
           /\ wire' = wire \o (IF online THEN ToldOf(h) ELSE <<>>) /\ wire' \in Seq(Events)
           /\ Spoilt(IF online THEN IF h.late THEN {"deployments"} ELSE {} ELSE Views)
           /\ domains' = Overtaken(domains, h.summary)
           /\ domains' \in Threads(HeldChanges) /\ deployments' \in Threads(HeldDepChanges)
<1> DEFINE h == deployments.held[1]
<1>1. domains \in Threads(HeldChanges) /\ deployments \in Threads(HeldDepChanges)
  BY DEF TypeOK
<1>2. deployments.held # <<>> /\ Emit(ToldOf(h), IF h.late THEN {"deployments"} ELSE {})
      /\ domains' = Overtaken(domains, h.summary) /\ deployments' = [deployments EXCEPT !.held = <<>>]
  BY DEF TellDeployments, ToldOf
<1>3. deployments.held = <<h>> /\ h \in HeldDepChanges
  BY <1>1, <1>2, HeldIs
<1> HIDE DEF h
<1>4. ToldOf(h) \in Seq(Events) /\ ToldOf(h) # <<>>
  <2> DEFINE e1 == Event("deployment", "update", h.summary)
             e2 == Event("deployments", h.event, h.summary)
  <2>1. h.event \in {"add", "update"} /\ h.summary \in Summaries
    BY <1>3 DEF HeldDepChanges
  <2>2. e1 \in Events /\ e2 \in Events
    BY <2>1 DEF Events, Event
  <2>3. ToldOf(h) = (IF h.event = "update" THEN <<e1>> ELSE <<>>) \o <<e2>>
    BY DEF ToldOf
  <2> HIDE DEF e1, e2
  <2> QED
    BY <2>2, <2>3
<1>5. /\ wire' \in Seq(Events) /\ wire' = wire \o (IF online THEN ToldOf(h) ELSE <<>>)
      /\ Spoilt(IF online \/ ToldOf(h) = <<>> THEN IF h.late THEN {"deployments"} ELSE {} ELSE Views)
  BY <1>2, <1>4, EmitIs
<1>6. deployments' \in Threads(HeldDepChanges) /\ deployments'.held = <<>>
  BY <1>1, <1>2, HoldIs
<1>7. domains' \in Threads(HeldChanges)
  BY <1>1, <1>2, OvertakenIs
<1> QED
  BY <1>2, <1>3, <1>4, <1>5, <1>6, <1>7 DEF h

LEMMA TellDeploymentsTypes ==
    ASSUME TypeOK, TellDeployments
    PROVE  TypeOK'
<1>1. wire' \in Seq(Events) /\ domains' \in Threads(HeldChanges) /\ deployments' \in Threads(HeldDepChanges)
  BY TellDeploymentsIs
<1>2. FetchesTyped'
  <2>1. Spoilt(IF online THEN IF deployments.held[1].late THEN {"deployments"} ELSE {} ELSE Views)
    BY TellDeploymentsIs
  <2> QED
    BY <2>1, SpoiltTyped
<1>3. RowsTyped' /\ QueuesTyped' /\ ListsTyped'
  BY <1>1 DEF TellDeployments, TypeOK, RowsTyped, QueuesTyped, ListsTyped, tables
<1> QED
  BY <1>2, <1>3, TypesOfNextAre

\* A thread that does not listen holds nothing.
Idle == (~ domains.up => domains.held = <<>>) /\ (~ deployments.up => deployments.held = <<>>)

\* What becomes of the feeds when one is lost or opened again, or the socket is.
LEMMA FaultsAre ==
    ASSUME TypeOK, Idle, Faults
    PROVE  /\ UNCHANGED <<row, dep, removed, page, store>>
           /\ \/ /\ changes' = <<>> /\ domains'.held = <<>> /\ UNCHANGED <<depChanges, deployments, wire>>
                 /\ Spoilt(IF changes = <<>> /\ domains.held = <<>> THEN {} ELSE Views)
              \/ /\ depChanges' = <<>> /\ deployments'.held = <<>> /\ UNCHANGED <<changes, domains, wire>>
                 /\ Spoilt(IF depChanges = <<>> /\ deployments.held = <<>> THEN {} ELSE {"deployment", "deployments"})
              \/ /\ wire' = <<>> /\ UNCHANGED <<changes, domains, depChanges, deployments>>
                 /\ Spoilt(IF wire = <<>> THEN {} ELSE Views)
              \/ /\ UNCHANGED <<changes, depChanges, wire, asked, trust>>
                 /\ domains'.held = domains.held /\ deployments'.held = deployments.held
           /\ QueuesTyped' /\ Idle'
<1>0. QueuesTyped
  BY TypesAre
<1>1. /\ domains \in Threads(HeldChanges) /\ deployments \in Threads(HeldDepChanges)
      /\ <<>> \in Seq(Changes) /\ <<>> \in Seq(DepChanges) /\ <<>> \in Seq(Events)
  BY DEF TypeOK
<1>2. CASE DomainsFeedLost
  <2>1. domains' = [Listening EXCEPT !.up = FALSE] /\ changes' = <<>>
        /\ UNCHANGED <<row, dep, removed, page, store, depChanges, deployments, wire, online>>
        /\ Spoil(IF changes = <<>> /\ domains.held = <<>> THEN {} ELSE Views)
    BY <1>2 DEF DomainsFeedLost
  <2>2. domains' \in Threads(HeldChanges) /\ domains'.held = <<>>
    BY <1>1, <2>1, HoldIs
  <2>3. Spoilt(IF changes = <<>> /\ domains.held = <<>> THEN {} ELSE Views)
    BY <2>1, SpoilIs
  <2>4. QueuesTyped' /\ Idle'
    BY <1>0, <1>1, <2>1, <2>2 DEF QueuesTyped, Idle
  <2> QED
    BY <2>1, <2>2, <2>3, <2>4
<1>3. CASE DeploymentsFeedLost
  <2>1. deployments' = [Listening EXCEPT !.up = FALSE] /\ depChanges' = <<>>
        /\ UNCHANGED <<row, dep, removed, page, store, changes, domains, wire, online>>
        /\ Spoil(IF depChanges = <<>> /\ deployments.held = <<>> THEN {} ELSE {"deployment", "deployments"})
    BY <1>3 DEF DeploymentsFeedLost
  <2>2. deployments' \in Threads(HeldDepChanges) /\ deployments'.held = <<>>
    BY <1>1, <2>1, HoldIs
  <2>3. Spoilt(IF depChanges = <<>> /\ deployments.held = <<>> THEN {} ELSE {"deployment", "deployments"})
    BY <2>1, SpoilIs
  <2>4. QueuesTyped' /\ Idle'
    BY <1>0, <1>1, <2>1, <2>2 DEF QueuesTyped, Idle
  <2> QED
    BY <2>1, <2>2, <2>3, <2>4
<1>4. CASE SocketLost
  <2>1. wire' = <<>> /\ online' = FALSE
        /\ UNCHANGED <<row, dep, removed, page, store, changes, depChanges, domains, deployments>>
        /\ Spoil(IF wire = <<>> THEN {} ELSE Views)
    BY <1>4 DEF SocketLost, tables
  <2>2. Spoilt(IF wire = <<>> THEN {} ELSE Views)
    BY <2>1, SpoilIs
  <2>3. QueuesTyped' /\ Idle'
    BY <1>0, <1>1, <2>1 DEF QueuesTyped, Idle
  <2> QED
    BY <2>1, <2>2, <2>3
<1>5. CASE DomainsFeedReopened
  <2>1. domains' = Listening /\ ~ domains.up
        /\ UNCHANGED <<row, dep, removed, page, store, changes, depChanges, deployments, wire, online, asked, trust>>
    BY <1>5 DEF DomainsFeedReopened, tables, browser
  <2>2. domains' \in Threads(HeldChanges) /\ domains'.held = <<>>
    BY <1>1, <2>1, HoldIs
  <2>3. domains'.held = domains.held
    BY <2>1, <2>2 DEF Idle
  <2>4. QueuesTyped' /\ Idle'
    BY <1>0, <2>1, <2>2 DEF QueuesTyped, Idle
  <2> QED
    BY <2>1, <2>3, <2>4
<1>6. CASE DeploymentsFeedReopened
  <2>1. deployments' = Listening /\ ~ deployments.up
        /\ UNCHANGED <<row, dep, removed, page, store, changes, depChanges, domains, wire, online, asked, trust>>
    BY <1>6 DEF DeploymentsFeedReopened, tables, browser
  <2>2. deployments' \in Threads(HeldDepChanges) /\ deployments'.held = <<>>
    BY <1>1, <2>1, HoldIs
  <2>3. deployments'.held = deployments.held
    BY <2>1, <2>2 DEF Idle
  <2>4. QueuesTyped' /\ Idle'
    BY <1>0, <2>1, <2>2 DEF QueuesTyped, Idle
  <2> QED
    BY <2>1, <2>3, <2>4
<1>7. CASE SocketReopened
  <2>1. online' = TRUE
        /\ UNCHANGED <<row, dep, removed, page, store, changes, depChanges, domains, deployments, wire, asked, trust>>
    BY <1>7 DEF SocketReopened, tables, browser
  <2>4. QueuesTyped' /\ Idle'
    BY <1>0, <2>1 DEF QueuesTyped, Idle
  <2> QED
    BY <2>1, <2>4
<1> QED
  BY <1>2, <1>3, <1>4, <1>5, <1>6, <1>7 DEF Faults

LEMMA FaultsTypes ==
    ASSUME TypeOK, Idle, Faults
    PROVE  TypeOK' /\ Idle'
<1>1. QueuesTyped' /\ Idle' /\ UNCHANGED <<row, dep, removed, page, store>>
  BY FaultsAre
<1>2. FetchesTyped'
  <2>1. (\E vs : Spoilt(vs)) \/ UNCHANGED <<asked, trust>>
    BY FaultsAre
  <2>2. CASE UNCHANGED <<asked, trust>>
    BY <2>2, TypesAre DEF FetchesTyped
  <2>3. CASE \E vs : Spoilt(vs)
    <3>1. PICK vs : Spoilt(vs)
      BY <2>3
    <3> QED
      BY <3>1, SpoiltTyped
  <2> QED
    BY <2>1, <2>2, <2>3
<1>3. RowsTyped' /\ ListsTyped'
  BY <1>1, TypesAre DEF RowsTyped, ListsTyped
<1> QED
  BY <1>1, <1>2, <1>3, TypesOfNextAre

\* What is kept for one list is replaced.
LEMMA EachExcept ==
    ASSUME NEW v \in Views
    PROVE  /\ \A x \in Each(Fetches) : \A f \in Fetches(v) :
                 /\ [x EXCEPT ![v] = f] \in Each(Fetches) /\ [x EXCEPT ![v] = f][v] = f
                 /\ \A w \in Views : w # v => [x EXCEPT ![v] = f][w] = x[w]
           /\ \A x \in Each(ListsOf) : \A f \in ListsOf(v) :
                 /\ [x EXCEPT ![v] = f] \in Each(ListsOf) /\ [x EXCEPT ![v] = f][v] = f
                 /\ \A w \in Views : w # v => [x EXCEPT ![v] = f][w] = x[w]
<1>1. ASSUME NEW x, x = [w \in Views |-> x[w]], NEW f
      PROVE  LET y == [x EXCEPT ![v] = f] IN
             y = [w \in Views |-> y[w]] /\ y[v] = f /\ \A w \in Views : w # v => y[w] = x[w]
  BY <1>1
<1>2. ASSUME NEW x \in Each(Fetches), NEW f \in Fetches(v)
      PROVE  LET y == [x EXCEPT ![v] = f] IN
             y \in Each(Fetches) /\ y[v] = f /\ \A w \in Views : w # v => y[w] = x[w]
  <2> DEFINE y == [x EXCEPT ![v] = f]
  <2>1. x = [w \in Views |-> x[w]] /\ \A w \in Views : x[w] \in Fetches(w)
    BY Zenon, EachIs
  <2>2. y = [w \in Views |-> y[w]] /\ y[v] = f /\ \A w \in Views : w # v => y[w] = x[w]
    BY <1>1, <2>1
  <2> HIDE DEF y
  <2>3. \A w \in Views : y[w] \in Fetches(w)
    BY <2>1, <2>2
  <2>4. y \in Each(Fetches)
    BY Zenon, <2>2, <2>3, EachIs
  <2> QED
    BY <2>2, <2>4 DEF y
<1>3. ASSUME NEW x \in Each(ListsOf), NEW f \in ListsOf(v)
      PROVE  LET y == [x EXCEPT ![v] = f] IN
             y \in Each(ListsOf) /\ y[v] = f /\ \A w \in Views : w # v => y[w] = x[w]
  <2> DEFINE y == [x EXCEPT ![v] = f]
  <2>1. x = [w \in Views |-> x[w]] /\ \A w \in Views : x[w] \in ListsOf(w)
    BY Zenon, EachIs
  <2>2. y = [w \in Views |-> y[w]] /\ y[v] = f /\ \A w \in Views : w # v => y[w] = x[w]
    BY <1>1, <2>1
  <2> HIDE DEF y
  <2>3. \A w \in Views : y[w] \in ListsOf(w)
    BY <2>1, <2>2
  <2>4. y \in Each(ListsOf)
    BY Zenon, <2>2, <2>3, EachIs
  <2> QED
    BY <2>2, <2>4 DEF y
<1> QED
  BY <1>2, <1>3

\* Types of a list, and of a fetch that is not under way.
LEMMA ListsAre ==
    /\ "desktops" \in Views /\ "deployment" \in Views /\ "deployments" \in Views
    /\ ListsOf("desktops") = Seq(Cards) /\ ListsOf("deployment") = Pages /\ ListsOf("deployments") = Seq(Summaries)
    /\ NoPage \in Pages
    /\ \A v \in Views : /\ NoFetch \in Fetches(v)
                        /\ v = "desktops" \/ v = "deployment" \/ v = "deployments"
<1>1. NoPage \in Pages
  BY DEF NoPage, Pages
<1>2. "desktops" \in Views /\ "deployment" \in Views /\ "deployments" \in Views
      /\ \A v \in Views : v = "desktops" \/ v = "deployment" \/ v = "deployments"
  BY DEF Views
<1>3. \A v \in Views : NoFetch \in Fetches(v)
  BY DEF NoFetch, Fetches
<1>4. ListsOf("desktops") = Seq(Cards) /\ ListsOf("deployment") = Pages /\ ListsOf("deployments") = Seq(Summaries)
  BY DEF ListsOf
<1> QED
  BY <1>1, <1>2, <1>3, <1>4

\* A page is opened.
LEMMA OpenIs ==
    ASSUME TypeOK, NEW v \in Views, Open(v)
    PROVE  /\ UNCHANGED <<tables, feeds>> /\ page' \in Views \cup {None}
           /\ asked[v].step = "none"
           /\ asked' \in Each(Fetches) /\ asked'[v].step = "sent" /\ asked'[v].crossed = FALSE
           /\ v = "deployment" => asked'[v].of \in Deployments
           /\ store' \in Each(ListsOf)
           /\ trust' \in [Views -> {"due", "kept", "missed"}]
           /\ \A w \in Views :
                 /\ w # v => asked'[w] = asked[w]
                 /\ store'[w] # store[w] => /\ w \in Emptied
                                            /\ store'[w] = IF w = "deployment" THEN NoPage ELSE <<>>
                 /\ trust'[w] = IF trust[w] = "kept" /\ w \in Emptied \cup {v} THEN "due" ELSE trust[w]
<1>1. PICK p \in IF v = "deployment" THEN Deployments ELSE {None} :
         asked' = [asked EXCEPT ![v] = [NoFetch EXCEPT !.step = "sent", !.of = p]]
  BY DEF Open
<1> DEFINE f == [NoFetch EXCEPT !.step = "sent", !.of = p]
<1>2. f \in Fetches(v) /\ f.step = "sent" /\ f.crossed = FALSE /\ f.of = p
  BY <1>1 DEF NoFetch, Fetches
<1>12. asked' = [asked EXCEPT ![v] = f]
  BY <1>1
<1> HIDE DEF f
<1>3. asked \in Each(Fetches) /\ store \in Each(ListsOf) /\ trust \in [Views -> {"due", "kept", "missed"}]
  BY DEF TypeOK
<1>4. asked' \in Each(Fetches) /\ asked'[v] = f /\ \A w \in Views : w # v => asked'[w] = asked[w]
  <2>1. \A x \in Each(Fetches) : \A g \in Fetches(v) :
           /\ [x EXCEPT ![v] = g] \in Each(Fetches) /\ [x EXCEPT ![v] = g][v] = g
           /\ \A w \in Views : w # v => [x EXCEPT ![v] = g][w] = x[w]
    BY EachExcept
  <2> HIDE DEF Fetches, Each
  <2>2. asked \in Each(Fetches) /\ f \in Fetches(v)
    BY <1>2, <1>3
  <2> DEFINE y == [asked EXCEPT ![v] = f]
  <2>3. y \in Each(Fetches) /\ y[v] = f /\ \A w \in Views : w # v => y[w] = asked[w]
    BY <2>1, <2>2
  <2>4. asked' = y
    BY <1>12
  <2> HIDE DEF y
  <2> QED
    BY <2>3, <2>4
<1> DEFINE list(w) == IF w \notin Emptied THEN store[w] ELSE IF w = "deployment" THEN NoPage ELSE <<>>
<1>5. store' = [w \in Views |-> list(w)]
  BY DEF Open
<1>6. \A w \in Views : store[w] \in ListsOf(w)
  BY Zenon, <1>3, EachIs
<1>7. \A w \in Views : list(w) \in ListsOf(w)
  <2>1. <<>> \in Seq(Cards) /\ <<>> \in Seq(Summaries)
    OBVIOUS
  <2>2. ASSUME NEW w \in Views PROVE (IF w = "deployment" THEN NoPage ELSE <<>>) \in ListsOf(w)
    <3>1. w = "desktops" \/ w = "deployment" \/ w = "deployments"
      BY ListsAre
    <3> QED
      BY <2>1, <3>1, ListsAre
  <2> QED
    BY <1>6, <2>2
<1> HIDE DEF list
<1>8. store' = [w \in Views |-> store'[w]] /\ \A w \in Views : store'[w] = list(w)
  BY <1>5
<1>9. store' \in Each(ListsOf)
  BY ZenonT(60), <1>7, <1>8, EachIs
<1>10. /\ trust' \in [Views -> {"due", "kept", "missed"}]
       /\ \A w \in Views : trust'[w] = IF trust[w] = "kept" /\ w \in Emptied \cup {v} THEN "due" ELSE trust[w]
  BY <1>3 DEF Open
<1>11. UNCHANGED <<tables, feeds>> /\ page' \in Views \cup {None} /\ asked[v].step = "none"
  BY DEF Open
<1> QED
  BY <1>1, <1>2, <1>4, <1>8, <1>9, <1>10, <1>11 DEF list

LEMMA OpenTypes ==
    ASSUME TypeOK, NEW v \in Views, Open(v)
    PROVE  TypeOK'
<1>1. FetchesTyped'
  <2>1. /\ FetchesTyped
        /\ asked' \in Each(Fetches) /\ trust' \in [Views -> {"due", "kept", "missed"}]
        /\ asked'[v].step = "sent" /\ (v = "deployment" => asked'[v].of \in Deployments)
        /\ \A w \in Views : w # v => asked'[w] = asked[w]
    BY OpenIs, TypesAre
  <2>2. ASSUME NEW w \in Views, asked'[w].step = "read" PROVE asked'[w].list \in ListsOf(w)
    <3>1. w # v /\ asked'[w] = asked[w]
      BY <2>1, <2>2
    <3>2. \A u \in Views : asked[u].step = "read" => asked[u].list \in ListsOf(u)
      BY <2>1 DEF FetchesTyped
    <3> QED
      BY <2>2, <3>1, <3>2
  <2>3. asked'["deployment"].step # "none" => asked'["deployment"].of \in Deployments
    BY <2>1, ListsAre DEF FetchesTyped
  <2>4. /\ asked' \in Each(Fetches) /\ trust' \in [Views -> {"due", "kept", "missed"}]
        /\ \A w \in Views : asked'[w].step = "read" => asked'[w].list \in ListsOf(w)
    BY <2>1, <2>2
  <2> QED
    BY Zenon, <2>3, <2>4 DEF FetchesTyped
<1>2. ListsTyped' /\ UNCHANGED <<tables, feeds>>
  BY OpenIs DEF ListsTyped
<1>3. RowsTyped' /\ QueuesTyped'
  BY <1>2 DEF TypeOK, RowsTyped, QueuesTyped, tables, feeds
<1> QED
  BY <1>1, <1>2, <1>3, TypesOfNextAre

\* One fetch, or one list, is replaced.
LEMMA AskedExcept ==
    ASSUME asked \in Each(Fetches), NEW v \in Views, NEW f \in Fetches(v), asked' = [asked EXCEPT ![v] = f]
    PROVE  asked' \in Each(Fetches) /\ asked'[v] = f /\ \A w \in Views : w # v => asked'[w] = asked[w]
<1> DEFINE y == [asked EXCEPT ![v] = f]
<1>1. \A x \in Each(Fetches) : \A g \in Fetches(v) :
         /\ [x EXCEPT ![v] = g] \in Each(Fetches) /\ [x EXCEPT ![v] = g][v] = g
         /\ \A w \in Views : w # v => [x EXCEPT ![v] = g][w] = x[w]
  BY EachExcept
<1>2. y \in Each(Fetches) /\ y[v] = f /\ \A w \in Views : w # v => y[w] = asked[w]
  BY <1>1
<1>3. asked' = y
  OBVIOUS
<1> HIDE DEF y
<1> QED
  BY <1>2, <1>3

LEMMA StoreExcept ==
    ASSUME store \in Each(ListsOf), NEW v \in Views, NEW f \in ListsOf(v), store' = [store EXCEPT ![v] = f]
    PROVE  store' \in Each(ListsOf) /\ store'[v] = f /\ \A w \in Views : w # v => store'[w] = store[w]
<1> DEFINE y == [store EXCEPT ![v] = f]
<1>1. \A x \in Each(ListsOf) : \A g \in ListsOf(v) :
         /\ [x EXCEPT ![v] = g] \in Each(ListsOf) /\ [x EXCEPT ![v] = g][v] = g
         /\ \A w \in Views : w # v => [x EXCEPT ![v] = g][w] = x[w]
  BY EachExcept
<1>2. y \in Each(ListsOf) /\ y[v] = f /\ \A w \in Views : w # v => y[w] = store[w]
  BY <1>1
<1>3. store' = y
  OBVIOUS
<1> HIDE DEF y
<1> QED
  BY <1>2, <1>3

\* The cards of rows of the table, in a list.
LEMMA CardsListed ==
    ASSUME TypeOK, NEW ds \in SUBSET Desktops, \A d \in ds : InTable(row[d])
    PROVE  /\ SetToSeq(CardsOf(ds)) \in Seq(Cards) /\ Once(SetToSeq(CardsOf(ds)))
           /\ Range(SetToSeq(CardsOf(ds))) = CardsOf(ds)
           /\ \A d \in ds : Card(d, row[d]) \in CardsOf(ds)
           /\ \A x \in CardsOf(ds) : x.id \in ds /\ x = Card(x.id, row[x.id]) /\ x \in Cards
<1> DEFINE S == CardsOf(ds)
           q == SetToSeq(S)
<1>1. \A d \in ds : Card(d, row[d]) \in Cards /\ Card(d, row[d]).id = d
  BY CardIs
<1>2. S = {Card(d, row[d]) : d \in ds}
  BY DEF CardsOf
<1>3. IsFiniteSet(S)
  <2> DEFINE f == [d \in ds |-> Card(d, row[d])]
  <2>1. f \in Surjection(ds, S)
    BY <1>2 DEF Surjection
  <2>2. IsFiniteSet(ds)
    BY TagAssumption, FS_Subset
  <2> QED
    BY <2>1, <2>2, FS_Surjection
<1>4. \A x \in S : x.id \in ds /\ x = Card(x.id, row[x.id]) /\ x \in Cards
  BY <1>1, <1>2
<1>5. \A d \in ds : Card(d, row[d]) \in S
  BY <1>2
<1> HIDE DEF S
<1>6. q \in Seq(S) /\ Range(q) = S /\ \A i, j \in 1 .. Len(q) : q[i] = q[j] => i = j
  BY <1>3, SetToSeqIs
<1> HIDE DEF q
<1>7. q \in Seq(Cards)
  BY <1>4, <1>6
<1>8. ASSUME NEW i \in 1 .. Len(q), NEW j \in 1 .. Len(q), q[i].id = q[j].id PROVE i = j
  <2>1. q[i] \in S /\ q[j] \in S
    BY <1>6
  <2>2. q[i] = q[j]
    BY <1>4, <1>8, <2>1
  <2> QED
    BY <1>6, <2>2
<1>9. Once(q)
  BY <1>8 DEF Once
<1> QED
  BY <1>4, <1>5, <1>6, <1>7, <1>9 DEF q, S

\* The deployments, in a list.
LEMMA DeploymentsListed ==
    ASSUME TypeOK
    PROVE  /\ SetToSeq(ListOfDeployments) \in Seq(Summaries) /\ Once(SetToSeq(ListOfDeployments))
           /\ Range(SetToSeq(ListOfDeployments)) = ListOfDeployments
           /\ \A p \in Deployments : Exists(p) => Get(p) \in ListOfDeployments
           /\ \A x \in ListOfDeployments : x.id \in Deployments /\ Exists(x.id) /\ x = Get(x.id)
<1> DEFINE S == ListOfDeployments
           q == SetToSeq(S)
           ps == {p \in Deployments : Exists(p)}
<1>1. \A p \in ps : Get(p) \in Summaries /\ Get(p).id = p
  BY GetIs
<1>2. S = {Get(p) : p \in ps}
  BY DEF ListOfDeployments
<1>3. IsFiniteSet(ps)
  BY TagAssumption, FS_Subset
<1>4. IsFiniteSet(S)
  <2> DEFINE f == [p \in ps |-> Get(p)]
  <2>1. f \in Surjection(ps, S)
    BY <1>2 DEF Surjection
  <2> QED
    BY <1>3, <2>1, FS_Surjection
<1>5. \A x \in S : x.id \in ps /\ x = Get(x.id) /\ x \in Summaries
  BY <1>1, <1>2
<1>6. \A p \in ps : Get(p) \in S
  BY <1>2
<1> HIDE DEF S
<1>7. q \in Seq(S) /\ Range(q) = S /\ \A i, j \in 1 .. Len(q) : q[i] = q[j] => i = j
  BY <1>4, SetToSeqIs
<1> HIDE DEF q
<1>8. q \in Seq(Summaries)
  BY <1>5, <1>7
<1>9. ASSUME NEW i \in 1 .. Len(q), NEW j \in 1 .. Len(q), q[i].id = q[j].id PROVE i = j
  <2>1. q[i] \in S /\ q[j] \in S
    BY <1>7
  <2>2. q[i] = q[j]
    BY <1>5, <1>9, <2>1
  <2> QED
    BY <1>7, <2>2
<1>10. Once(q)
  BY <1>9 DEF Once
<1> QED
  BY <1>5, <1>6, <1>7, <1>8, <1>10 DEF q, S

\* What the server answers.
Answered(v, p) ==
    CASE v = "desktops" -> SetToSeq(DesktopsOf)
      [] v = "deployments" -> SetToSeq(ListOfDeployments)
      [] OTHER -> [id |-> p, visible |-> dep[p].visible, desktops |-> SetToSeq(CardsOf(Tagged(p)))]

LEMMA AnsweredIs ==
    ASSUME TypeOK
    PROVE  /\ \A p \in Deployments \cup {None} : \A v \in {"desktops", "deployments"} : Answered(v, p) \in ListsOf(v)
           /\ \A p \in Deployments : /\ Answered("deployment", p) \in Pages
                                     /\ Answered("deployment", p).id = p
                                     /\ Answered("deployment", p).visible = dep[p].visible
                                     /\ Answered("deployment", p).desktops = SetToSeq(CardsOf(Tagged(p)))
           /\ \A p : Answered("desktops", p) = SetToSeq(DesktopsOf)
           /\ \A p : Answered("deployments", p) = SetToSeq(ListOfDeployments)
<1>1. SetToSeq(DesktopsOf) \in Seq(Cards)
  <2>1. \A d \in {e \in Desktops : Seen(e, row[e])} : InTable(row[d])
    BY DEF Seen
  <2> QED
    BY <2>1, CardsListed DEF DesktopsOf
<1>2. SetToSeq(ListOfDeployments) \in Seq(Summaries)
  BY DeploymentsListed
<1>3. ASSUME NEW p \in Deployments PROVE SetToSeq(CardsOf(Tagged(p))) \in Seq(Cards) /\ dep[p].visible \in BOOLEAN
  <2>1. Tagged(p) \in SUBSET Desktops /\ \A d \in Tagged(p) : InTable(row[d])
    BY DEF Tagged
  <2>2. dep[p] \in DepRows
    BY TablesTyped
  <2> QED
    BY <2>1, <2>2, CardsListed DEF DepRows
<1>4. \A p : Answered("desktops", p) = SetToSeq(DesktopsOf) /\ Answered("deployments", p) = SetToSeq(ListOfDeployments)
  BY DEF Answered
<1>5. ASSUME NEW p \in Deployments
      PROVE  /\ Answered("deployment", p) \in Pages
             /\ Answered("deployment", p).id = p
             /\ Answered("deployment", p).visible = dep[p].visible
             /\ Answered("deployment", p).desktops = SetToSeq(CardsOf(Tagged(p)))
  <2> DEFINE r == [id |-> p, visible |-> dep[p].visible, desktops |-> SetToSeq(CardsOf(Tagged(p)))]
  <2>1. Answered("deployment", p) = r
    BY DEF Answered
  <2>2. r \in Pages /\ r.id = p /\ r.visible = dep[p].visible /\ r.desktops = SetToSeq(CardsOf(Tagged(p)))
    BY <1>3 DEF Pages
  <2> HIDE DEF r
  <2> QED
    BY <2>1, <2>2
<1> QED
  BY <1>1, <1>2, <1>4, <1>5, ListsAre

\* A fetch is read.
LEMMA ReadIs ==
    ASSUME TypeOK, NEW v \in Views, Read(v)
    PROVE  LET p == asked[v].of IN
           /\ UNCHANGED <<tables, feeds, page, store>>
           /\ asked[v].step = "sent" /\ (v = "deployment" => p \in Deployments)
           /\ asked' \in Each(Fetches) /\ \A w \in Views : w # v => asked'[w] = asked[w]
           /\ v = "deployment" /\ ~ Exists(p) => asked'[v] = NoFetch
           /\ ~ (v = "deployment" /\ ~ Exists(p)) =>
                 /\ asked'[v].step = "read" /\ asked'[v].list = Answered(v, p) /\ Answered(v, p) \in ListsOf(v)
                 /\ asked'[v].crossed = asked[v].crossed /\ asked'[v].of = asked[v].of
           /\ trust' \in [Views -> {"due", "kept", "missed"}]
           /\ \A w \in Views : trust'[w] = IF w = v /\ Drained THEN "due" ELSE trust[w]
<1> DEFINE p == asked[v].of
           list == Answered(v, p)
           f == IF v = "deployment" /\ ~Exists(p) THEN NoFetch ELSE [asked[v] EXCEPT !.step = "read", !.list = list]
<1>1. asked[v].step = "sent" /\ UNCHANGED <<tables, feeds, page, store>>
  BY DEF Read
<1>2. asked \in Each(Fetches) /\ trust \in [Views -> {"due", "kept", "missed"}]
  BY DEF TypeOK
<1>3. asked[v] \in Fetches(v)
  BY Zenon, <1>2, EachIs
<1>4. v = "deployment" => p \in Deployments
  BY <1>1 DEF TypeOK
<1>5. p \in Deployments \cup {None}
  BY <1>3 DEF Fetches
<1>6. list \in ListsOf(v)
  <2> HIDE DEF p
  <2>1. CASE v = "deployment"
    BY <1>4, <2>1, AnsweredIs, ListsAre
  <2>2. CASE v \in {"desktops", "deployments"}
    BY <1>5, <2>2, AnsweredIs
  <2> QED
    BY <2>1, <2>2, ListsAre
<1>7. asked' = [asked EXCEPT ![v] = f]
  BY DEF Read, Answered
<1> HIDE DEF list
<1>8. /\ f \in Fetches(v)
      /\ v = "deployment" /\ ~ Exists(p) => f = NoFetch
      /\ ~ (v = "deployment" /\ ~ Exists(p)) =>
            f.step = "read" /\ f.list = list /\ f.crossed = asked[v].crossed /\ f.of = asked[v].of
  <2>1. CASE v = "deployment" /\ ~ Exists(p)
    BY <2>1, ListsAre
  <2>2. CASE ~ (v = "deployment" /\ ~ Exists(p))
    <3> DEFINE g == [asked[v] EXCEPT !.step = "read", !.list = list]
    <3>1. f = g
      BY <2>2
    <3> HIDE DEF f
    <3>2. g \in Fetches(v) /\ g.step = "read" /\ g.list = list /\ g.crossed = asked[v].crossed /\ g.of = asked[v].of
      BY <1>3, <1>6 DEF Fetches
    <3> HIDE DEF g
    <3> QED
      BY <2>2, <3>1, <3>2
  <2> QED
    BY <2>1, <2>2
<1> HIDE DEF f
<1>9. asked' \in Each(Fetches) /\ asked'[v] = f /\ \A w \in Views : w # v => asked'[w] = asked[w]
  BY <1>2, <1>7, <1>8, AskedExcept
<1>10. /\ trust' \in [Views -> {"due", "kept", "missed"}]
       /\ \A w \in Views : trust'[w] = IF w = v /\ Drained THEN "due" ELSE trust[w]
  <2>1. trust' = [trust EXCEPT ![v] = IF Drained THEN "due" ELSE trust[v]]
    BY DEF Read
  <2>2. trust' \in [Views -> {"due", "kept", "missed"}]
    BY <1>2, <2>1
  <2>3. \A w \in Views : trust'[w] = IF w = v /\ Drained THEN "due" ELSE trust[w]
    BY <1>2, <2>1
  <2> QED
    BY <2>2, <2>3
<1> HIDE DEF p
<1> QED
  BY <1>1, <1>4, <1>6, <1>8, <1>9, <1>10 DEF p, list

LEMMA ReadTypes ==
    ASSUME TypeOK, NEW v \in Views, Read(v)
    PROVE  TypeOK'
<1>1. FetchesTyped'
  <2>1. /\ FetchesTyped
        /\ asked' \in Each(Fetches) /\ trust' \in [Views -> {"due", "kept", "missed"}]
        /\ \A w \in Views : w # v => asked'[w] = asked[w]
    BY ReadIs, TypesAre
  <2>2. /\ asked'[v].step = "read" => asked'[v].list \in ListsOf(v)
        /\ v = "deployment" /\ asked'[v].step # "none" => asked'[v].of \in Deployments
    <3>1. CASE v = "deployment" /\ ~ Exists(asked[v].of)
      <4>1. asked'[v] = NoFetch
        BY <3>1, ReadIs
      <4>2. NoFetch.step = "none"
        BY DEF NoFetch
      <4> QED
        BY <4>1, <4>2
    <3>2. CASE ~ (v = "deployment" /\ ~ Exists(asked[v].of))
      BY <3>2, ReadIs
    <3> QED
      BY <3>1, <3>2
  <2>3. \A w \in Views : asked[w].step = "read" => asked[w].list \in ListsOf(w)
    BY <2>1 DEF FetchesTyped
  <2>4. ASSUME NEW w \in Views, asked'[w].step = "read" PROVE asked'[w].list \in ListsOf(w)
    <3>1. CASE w = v
      BY <2>2, <2>4, <3>1
    <3>2. CASE w # v
      BY <2>1, <2>3, <2>4, <3>2
    <3> QED
      BY <3>1, <3>2
  <2>5. asked'["deployment"].step # "none" => asked'["deployment"].of \in Deployments
    <3>1. CASE v = "deployment"
      BY <2>2, <3>1
    <3>2. CASE v # "deployment"
      BY <2>1, <3>2, ListsAre DEF FetchesTyped
    <3> QED
      BY <3>1, <3>2
  <2>6. /\ asked' \in Each(Fetches) /\ trust' \in [Views -> {"due", "kept", "missed"}]
        /\ \A w \in Views : asked'[w].step = "read" => asked'[w].list \in ListsOf(w)
    BY <2>1, <2>4
  <2> QED
    BY Zenon, <2>5, <2>6 DEF FetchesTyped
<1>2. UNCHANGED <<tables, feeds, page, store>>
  BY ReadIs
<1>3. RowsTyped' /\ QueuesTyped' /\ ListsTyped'
  BY <1>2 DEF TypeOK, RowsTyped, QueuesTyped, ListsTyped, tables, feeds
<1> QED
  BY <1>1, <1>3, TypesOfNextAre

\* A fetch is answered.
LEMMA AnswerIs ==
    ASSUME TypeOK, NEW v \in Views, Answer(v)
    PROVE  /\ UNCHANGED <<tables, feeds, page>>
           /\ asked[v].step = "read" /\ asked[v].list \in ListsOf(v)
           /\ store' \in Each(ListsOf) /\ store'[v] = asked[v].list
           /\ asked' \in Each(Fetches) /\ asked'[v] = NoFetch
           /\ trust' \in [Views -> {"due", "kept", "missed"}]
           /\ trust'[v] = IF trust[v] = "missed" THEN "missed" ELSE IF asked[v].crossed THEN "due" ELSE "kept"
           /\ \A w \in Views : w # v => store'[w] = store[w] /\ asked'[w] = asked[w] /\ trust'[w] = trust[w]
<1>1. asked[v].step = "read" /\ UNCHANGED <<tables, feeds, page>>
  BY DEF Answer
<1>2. /\ asked \in Each(Fetches) /\ trust \in [Views -> {"due", "kept", "missed"}] /\ store \in Each(ListsOf)
      /\ asked[v].list \in ListsOf(v)
  BY <1>1 DEF TypeOK
<1>3. store' = [store EXCEPT ![v] = asked[v].list] /\ asked' = [asked EXCEPT ![v] = NoFetch]
  BY DEF Answer
<1>4. store' \in Each(ListsOf) /\ store'[v] = asked[v].list /\ \A w \in Views : w # v => store'[w] = store[w]
  BY <1>2, <1>3, StoreExcept
<1>5. asked' \in Each(Fetches) /\ asked'[v] = NoFetch /\ \A w \in Views : w # v => asked'[w] = asked[w]
  BY <1>2, <1>3, AskedExcept, ListsAre
<1> DEFINE t == IF trust[v] = "missed" THEN trust[v] ELSE IF asked[v].crossed THEN "due" ELSE "kept"
<1>6. trust' = [trust EXCEPT ![v] = t]
  BY DEF Answer
<1>7. t \in {"due", "kept", "missed"} /\ t = IF trust[v] = "missed" THEN "missed" ELSE IF asked[v].crossed THEN "due" ELSE "kept"
  OBVIOUS
<1> HIDE DEF t
<1>8. /\ trust' \in [Views -> {"due", "kept", "missed"}] /\ trust'[v] = t
      /\ \A w \in Views : w # v => trust'[w] = trust[w]
  BY <1>2, <1>6, <1>7
<1> QED
  BY <1>1, <1>2, <1>4, <1>5, <1>7, <1>8

LEMMA AnswerTypes ==
    ASSUME TypeOK, NEW v \in Views, Answer(v)
    PROVE  TypeOK'
<1>1. FetchesTyped'
  <2>1. /\ FetchesTyped
        /\ asked' \in Each(Fetches) /\ trust' \in [Views -> {"due", "kept", "missed"}]
        /\ asked'[v].step = "none" /\ \A w \in Views : w # v => asked'[w] = asked[w]
    <3>1. NoFetch.step = "none"
      BY DEF NoFetch
    <3> QED
      BY <3>1, AnswerIs, TypesAre
  <2>3. \A w \in Views : asked[w].step = "read" => asked[w].list \in ListsOf(w)
    BY <2>1 DEF FetchesTyped
  <2>4. ASSUME NEW w \in Views, asked'[w].step = "read" PROVE asked'[w].list \in ListsOf(w)
    <3>2. w # v
      BY <2>1, <2>4
    <3> QED
      BY <2>1, <2>3, <2>4, <3>2
  <2>5. asked'["deployment"].step # "none" => asked'["deployment"].of \in Deployments
    BY <2>1, ListsAre DEF FetchesTyped
  <2>6. /\ asked' \in Each(Fetches) /\ trust' \in [Views -> {"due", "kept", "missed"}]
        /\ \A w \in Views : asked'[w].step = "read" => asked'[w].list \in ListsOf(w)
    BY <2>1, <2>4
  <2> QED
    BY Zenon, <2>5, <2>6 DEF FetchesTyped
<1>2. UNCHANGED <<tables, feeds, page>> /\ store' \in Each(ListsOf)
  BY AnswerIs
<1>3. RowsTyped' /\ QueuesTyped' /\ ListsTyped'
  BY <1>2 DEF TypeOK, RowsTyped, QueuesTyped, ListsTyped, tables, feeds
<1> QED
  BY <1>1, <1>3, TypesOfNextAre

\* What an event may be.
LEMMA EventIs ==
    ASSUME NEW e \in Events
    PROVE  /\ e.subject \in {"desktop", "deploymentdesktop", "deployments", "deployment"}
           /\ e.what \in {"add", "update", "delete"}
           /\ e.subject \in {"desktop", "deploymentdesktop"} => e.data \in Cards
           /\ e.subject = "deployments" /\ e.what # "delete" => e.data \in Summaries
           /\ e.subject = "deployments" => e.data.id \in Deployments
           /\ e.subject = "deployment" => e.what = "update" /\ e.data \in Summaries
           /\ ViewOf(e) = CASE e.subject = "desktop" -> "desktops"
                            [] e.subject = "deployments" -> "deployments"
                            [] e.subject \in {"deployment", "deploymentdesktop"} -> "deployment"
           /\ ViewOf(e) \in Views
<1>1. CASE e \in [subject : {"desktop", "deploymentdesktop"}, what : {"add", "update", "delete"}, data : Cards]
  BY <1>1 DEF ViewOf, Views
<1>2. CASE e \in [subject : {"deployments"}, what : {"add", "update"}, data : Summaries]
  BY <1>2 DEF ViewOf, Views, Summaries
<1>3. CASE e \in [subject : {"deployments"}, what : {"delete"}, data : [id : Deployments]]
  BY <1>3 DEF ViewOf, Views
<1>4. CASE e \in [subject : {"deployment"}, what : {"update"}, data : Summaries]
  BY <1>4 DEF ViewOf, Views
<1> QED
  BY <1>1, <1>2, <1>3, <1>4 DEF Events

\* The lists after an event.
Lists(e) ==
    /\ e.subject = "desktop" =>
          store'["desktops"] = Edited(store["desktops"], e.what, e.data)
    /\ e.subject = "deployments" =>
          store'["deployments"] = Edited(store["deployments"], e.what, e.data)
    /\ e.subject = "deployment" =>
          /\ store'["deployment"].id = e.data.id /\ store'["deployment"].visible = e.data.visible
          /\ store'["deployment"].desktops = store["deployment"].desktops
    /\ e.subject = "deploymentdesktop" =>
          /\ store'["deployment"].id = store["deployment"].id
          /\ store'["deployment"].visible = store["deployment"].visible
          /\ store'["deployment"].desktops =
                IF e.what = "add" /\ Has(store["deployment"].desktops, e.data.id) THEN store["deployment"].desktops
                ELSE Edited(store["deployment"].desktops, e.what, e.data)

LEMMA AppliedIs ==
    ASSUME store \in Each(ListsOf), NEW e \in Events, store' = Applied(e)
    PROVE  /\ store' \in Each(ListsOf) /\ Lists(e)
           /\ \A w \in Views : w # ViewOf(e) => store'[w] = store[w]
<1>1. \A w \in Views : store[w] \in ListsOf(w)
  BY Zenon, EachIs
<1>2. store["desktops"] \in Seq(Cards) /\ store["deployments"] \in Seq(Summaries) /\ store["deployment"] \in Pages
  BY <1>1, ListsAre
<1>3. e.what \in {"add", "update", "delete"}
  BY EventIs
<1>4. CASE e.subject = "desktop"
  <2> DEFINE q == Edited(store["desktops"], e.what, e.data)
  <2>1. store' = [store EXCEPT !["desktops"] = q]
    BY <1>4 DEF Applied
  <2>2. q \in Seq(Cards)
    BY <1>2, <1>3, <1>4, EventIs, EditedTyped
  <2> HIDE DEF q
  <2>3. q \in ListsOf("desktops")
    BY <2>2, ListsAre
  <2>4. store' \in Each(ListsOf) /\ store'["desktops"] = q /\ \A w \in Views : w # "desktops" => store'[w] = store[w]
    BY <2>1, <2>3, ListsAre, StoreExcept
  <2>5. ViewOf(e) = "desktops"
    BY <1>4, EventIs
  <2>6. Lists(e)
    BY <1>4, <2>4 DEF Lists, q
  <2> QED
    BY <2>4, <2>5, <2>6
<1>5. CASE e.subject = "deployments"
  <2> DEFINE q == Edited(store["deployments"], e.what, e.data)
  <2>1. store' = [store EXCEPT !["deployments"] = q]
    BY <1>5 DEF Applied
  <2>2. q \in Seq(Summaries)
    BY <1>2, <1>3, <1>5, EventIs, EditedTyped
  <2> HIDE DEF q
  <2>3. q \in ListsOf("deployments")
    BY <2>2, ListsAre
  <2>4. store' \in Each(ListsOf) /\ store'["deployments"] = q /\ \A w \in Views : w # "deployments" => store'[w] = store[w]
    BY <2>1, <2>3, ListsAre, StoreExcept
  <2>5. ViewOf(e) = "deployments"
    BY <1>5, EventIs
  <2>6. Lists(e)
    BY <1>5, <2>4 DEF Lists, q
  <2> QED
    BY <2>4, <2>5, <2>6
<1>6. CASE e.subject = "deployment"
  <2> DEFINE pg == store["deployment"]
             q == [pg EXCEPT !.id = e.data.id, !.visible = e.data.visible]
  <2>1. store' = [store EXCEPT !["deployment"] = q]
    BY <1>6 DEF Applied
  <2>2. e.data.id \in Deployments /\ e.data.visible \in BOOLEAN
    BY <1>6, EventIs DEF Summaries
  <2>3. q \in Pages /\ q.id = e.data.id /\ q.visible = e.data.visible /\ q.desktops = pg.desktops
    <3> HIDE DEF pg
    <3>1. pg \in Pages
      BY <1>2 DEF pg
    <3> QED
      BY <2>2, <3>1 DEF Pages
  <2> HIDE DEF q
  <2>4. q \in ListsOf("deployment")
    BY <2>3, ListsAre
  <2>5. store' \in Each(ListsOf) /\ store'["deployment"] = q /\ \A w \in Views : w # "deployment" => store'[w] = store[w]
    BY <2>1, <2>4, ListsAre, StoreExcept
  <2>6. ViewOf(e) = "deployment"
    BY <1>6, EventIs
  <2>7. Lists(e)
    BY <1>6, <2>3, <2>5 DEF Lists
  <2> QED
    BY <2>5, <2>6, <2>7
<1>7. CASE e.subject = "deploymentdesktop"
  <2> DEFINE pg == store["deployment"]
             ds == IF e.what = "add" /\ Has(pg.desktops, e.data.id) THEN pg.desktops
                   ELSE Edited(pg.desktops, e.what, e.data)
             q == [pg EXCEPT !.desktops = ds]
  <2>1. store' = [store EXCEPT !["deployment"] = q]
    BY <1>7 DEF Applied
  <2>2. pg.desktops \in Seq(Cards)
    BY <1>2 DEF Pages
  <2>3. ds \in Seq(Cards)
    BY <1>3, <1>7, <2>2, EventIs, EditedTyped
  <2> HIDE DEF ds
  <2>4. q \in Pages /\ q.id = pg.id /\ q.visible = pg.visible /\ q.desktops = ds
    <3> HIDE DEF pg
    <3>1. pg \in Pages
      BY <1>2 DEF pg
    <3> QED
      BY <2>3, <3>1 DEF Pages
  <2> HIDE DEF q
  <2>5. q \in ListsOf("deployment")
    BY <2>4, ListsAre
  <2>6. store' \in Each(ListsOf) /\ store'["deployment"] = q /\ \A w \in Views : w # "deployment" => store'[w] = store[w]
    BY <2>1, <2>5, ListsAre, StoreExcept
  <2>7. ViewOf(e) = "deployment"
    BY <1>7, EventIs
  <2>8. Lists(e)
    BY <1>7, <2>4, <2>6 DEF Lists, ds
  <2> QED
    BY <2>6, <2>7, <2>8
<1> QED
  BY <1>4, <1>5, <1>6, <1>7, EventIs

\* An event comes.
LEMMA DeliverIs ==
    ASSUME TypeOK, Deliver
    PROVE  LET e == Head(wire)
               v == ViewOf(e)
               twin == /\ e.what = "add" /\ e.subject \in {"desktop", "deployments"}
                       /\ Has(store[v], e.data.id)
           IN /\ UNCHANGED <<tables, domains, deployments, online, page>>
              /\ wire # <<>> /\ e \in Events /\ v \in Views
              /\ wire' = Tail(wire) /\ wire' \in Seq(Events)
              /\ store' \in Each(ListsOf) /\ Lists(e)
              /\ asked' \in Each(Fetches)
              /\ trust' \in [Views -> {"due", "kept", "missed"}]
              /\ trust'[v] = IF twin /\ trust[v] = "kept" THEN "due" ELSE trust[v]
              /\ asked'[v].crossed = (asked[v].crossed \/ asked[v].step = "read")
              /\ \A w \in Views :
                    /\ w # v => store'[w] = store[w] /\ trust'[w] = trust[w] /\ asked'[w] = asked[w]
                    /\ asked'[w].step = asked[w].step /\ asked'[w].of = asked[w].of /\ asked'[w].list = asked[w].list
<1> DEFINE e == Head(wire)
           v == ViewOf(e)
           twin == /\ e.what = "add" /\ e.subject \in {"desktop", "deployments"}
                   /\ Has(store[v], e.data.id)
           f == [asked[v] EXCEPT !.crossed = @ \/ asked[v].step = "read"]
           t == IF twin /\ trust[v] = "kept" THEN "due" ELSE trust[v]
<1>1. UNCHANGED <<tables, domains, deployments, online, page>> /\ wire # <<>> /\ wire' = Tail(wire)
  BY DEF Deliver
<1>2. /\ wire \in Seq(Events) /\ store \in Each(ListsOf) /\ asked \in Each(Fetches)
      /\ trust \in [Views -> {"due", "kept", "missed"}]
  BY DEF TypeOK
<1>3. e \in Events /\ wire' \in Seq(Events)
  BY <1>1, <1>2, HeadAndTail
<1>4. v \in Views
  BY <1>3, EventIs
<1>5. store' = Applied(e)
  BY DEF Deliver
<1>6. asked' = [asked EXCEPT ![v] = f]
  BY DEF Deliver
<1>7. trust' = [trust EXCEPT ![v] = t]
  BY DEF Deliver
<1> HIDE DEF e
<1>8. /\ store' \in Each(ListsOf) /\ Lists(e)
      /\ \A w \in Views : w # v => store'[w] = store[w]
  BY <1>2, <1>3, <1>5, AppliedIs
<1> HIDE DEF v, twin
<1>9. t \in {"due", "kept", "missed"}
  BY <1>2, <1>4
<1> HIDE DEF t
<1>10. /\ trust' \in [Views -> {"due", "kept", "missed"}] /\ trust'[v] = t
       /\ \A w \in Views : w # v => trust'[w] = trust[w]
  BY <1>2, <1>4, <1>7, <1>9
<1>11. asked[v] \in Fetches(v)
  BY Zenon, <1>2, <1>4, EachIs
<1>12. /\ f \in Fetches(v) /\ f.crossed = (asked[v].crossed \/ asked[v].step = "read")
       /\ f.step = asked[v].step /\ f.of = asked[v].of /\ f.list = asked[v].list
  BY <1>11 DEF Fetches
<1> HIDE DEF f
<1>13. asked' \in Each(Fetches) /\ asked'[v] = f /\ \A w \in Views : w # v => asked'[w] = asked[w]
  BY <1>2, <1>4, <1>6, <1>12, AskedExcept
<1>14. \A w \in Views : asked'[w].step = asked[w].step /\ asked'[w].of = asked[w].of /\ asked'[w].list = asked[w].list
  <2>1. ASSUME NEW w \in Views
        PROVE  asked'[w].step = asked[w].step /\ asked'[w].of = asked[w].of /\ asked'[w].list = asked[w].list
    <3>1. CASE w = v
      BY <1>12, <1>13, <3>1
    <3>2. CASE w # v
      BY <1>13, <3>2
    <3> QED
      BY <3>1, <3>2
  <2> QED
    BY <2>1
<1>15. asked'[v].crossed = (asked[v].crossed \/ asked[v].step = "read")
  BY <1>12, <1>13
<1>16. trust'[v] = IF twin /\ trust[v] = "kept" THEN "due" ELSE trust[v]
  BY <1>10 DEF t
<1> QED
  BY <1>1, <1>3, <1>4, <1>8, <1>10, <1>13, <1>14, <1>15, <1>16 DEF e, v, twin

LEMMA DeliverTypes ==
    ASSUME TypeOK, Deliver
    PROVE  TypeOK'
<1>1. FetchesTyped'
  <2>1. /\ FetchesTyped
        /\ asked' \in Each(Fetches) /\ trust' \in [Views -> {"due", "kept", "missed"}]
        /\ \A w \in Views : asked'[w].step = asked[w].step /\ asked'[w].of = asked[w].of /\ asked'[w].list = asked[w].list
    BY DeliverIs, TypesAre
  <2> QED
    BY <2>1, ListsAre DEF FetchesTyped
<1>2. /\ UNCHANGED <<tables, domains, deployments, online, page>>
      /\ wire' \in Seq(Events) /\ store' \in Each(ListsOf)
  BY DeliverIs
<1>3. RowsTyped' /\ QueuesTyped' /\ ListsTyped'
  BY <1>2 DEF TypeOK, RowsTyped, QueuesTyped, ListsTyped, tables
<1> QED
  BY <1>1, <1>3, TypesOfNextAre

-----------------------------------------------------------------------------
(* TypeOK is kept. *)

\* Before a deployment is inserted it has nothing, and a thread that is down holds nothing.
Basic == TypeOK /\ DepsServed /\ Idle

LEMMA OvertakenUp ==
    ASSUME NEW Held, Held = HeldChanges \/ Held = HeldDepChanges, NEW t \in Threads(Held), NEW summary
    PROVE  Overtaken(t, summary).up = t.up
<1>1. t \in [up : BOOLEAN, dead : BOOLEAN, held : Seq(Held)]
  BY DEF Threads
<1> QED
  BY <1>1 DEF Overtaken

LEMMA IdleKept ==
    ASSUME TypeOK, Idle, RowStep \/ DepStep \/ OtherStep \/ DomainsThread \/ DeploymentsThread \/ Browser
    PROVE  Idle'
<1>0. domains \in Threads(HeldChanges) /\ deployments \in Threads(HeldDepChanges)
  BY DEF TypeOK
<1>1. CASE RowStep \/ DepStep \/ OtherStep
  BY <1>1 DEF Idle, RowStep, DepStep, OtherStep, feeds
<1>2. CASE TakeChange
  <2>1. UNCHANGED deployments /\ domains.up
    BY <1>2 DEF TakeChange
  <2>2. domains'.up = domains.up
    <3>1. domains' = domains \/ \E h : domains' = [domains EXCEPT !.held = h]
      BY <1>2 DEF TakeChange
    <3>2. domains \in [up : BOOLEAN, dead : BOOLEAN, held : Seq(HeldChanges)]
      BY <1>0 DEF Threads
    <3> QED
      BY <3>1, <3>2
  <2> QED
    BY <2>1, <2>2 DEF Idle
<1>3. CASE TellDeployment
  <2>1. domains'.held = <<>> /\ deployments' = Overtaken(deployments, domains.held[1].summary)
    BY <1>3, TellDeploymentIs
  <2>2. deployments'.up = deployments.up /\ (deployments.held = <<>> => deployments'.held = <<>>)
    BY <1>0, <2>1, OvertakenUp, OvertakenIs
  <2> QED
    BY <2>1, <2>2 DEF Idle
<1>4. CASE TakeDepChange
  <2>1. UNCHANGED domains /\ deployments.up
    BY <1>4 DEF TakeDepChange
  <2>2. deployments' = deployments \/ (\E h : deployments' = [deployments EXCEPT !.held = h]) \/ deployments'.held = <<>>
    <3>1. deployments' = deployments \/ (\E h : deployments' = [deployments EXCEPT !.held = h])
          \/ deployments' = [Listening EXCEPT !.up = FALSE, !.dead = TRUE]
      BY <1>4 DEF TakeDepChange
    <3> QED
      BY <1>0, <3>1, HoldIs
  <2>3. deployments'.up = deployments.up \/ deployments'.held = <<>>
    <3>2. deployments \in [up : BOOLEAN, dead : BOOLEAN, held : Seq(HeldDepChanges)]
      BY <1>0 DEF Threads
    <3> QED
      BY <2>2, <3>2
  <2> QED
    BY <2>1, <2>3 DEF Idle
<1>5. CASE TellDeployments
  <2>1. deployments'.held = <<>> /\ domains' = Overtaken(domains, deployments.held[1].summary)
    BY <1>5, TellDeploymentsIs
  <2>2. domains'.up = domains.up /\ (domains.held = <<>> => domains'.held = <<>>)
    BY <1>0, <2>1, OvertakenUp, OvertakenIs
  <2> QED
    BY <2>1, <2>2 DEF Idle
<1>6. CASE Browser
  <2>1. UNCHANGED <<domains, deployments>>
    BY <1>6 DEF Browser, Deliver, Open, Read, Answer, feeds
  <2> QED
    BY <2>1 DEF Idle
<1> QED
  BY <1>1, <1>2, <1>3, <1>4, <1>5, <1>6 DEF DomainsThread, DeploymentsThread

LEMMA BasicInit == Init => Basic
<1> SUFFICES ASSUME Init PROVE Basic
  OBVIOUS
<1>1. PICK scope \in Scopes : row = scope.row /\ dep = scope.dep /\ left = scope.left
  BY DEF Init
<1>2. /\ row \in [Desktops -> Rows] /\ dep \in [Deployments -> DepRows]
      /\ \A p \in Deployments : dep[p].request = "none" /\ (dep[p].state = "unborn" => dep[p].flags = {})
  BY <1>1, ScopesAssumption
<1>3. DepsServed
  BY <1>2 DEF DepsServed
<1>4. domains.held = <<>> /\ deployments.held = <<>>
  BY DEF Init, Listening
<1>5. QueuesTyped /\ Idle
  <2>1. Listening \in Threads(HeldChanges) /\ Listening \in Threads(HeldDepChanges)
    <3> DEFINE r == [up |-> TRUE, dead |-> FALSE, held |-> <<>>]
    <3>1. \A H : r \in [up : BOOLEAN, dead : BOOLEAN, held : Seq(H)] /\ Len(r.held) <= 1
      OBVIOUS
    <3>2. Listening = r
      BY DEF Listening
    <3> HIDE DEF r
    <3> QED
      BY <3>1, <3>2 DEF Threads
  <2>2. QueuesTyped
    BY <2>1 DEF QueuesTyped, Init
  <2> QED
    BY <1>4, <2>2 DEF Idle
<1>6. FetchesTyped
  <2>1. asked = [v \in Views |-> asked[v]] /\ \A v \in Views : asked[v] = NoFetch
    BY DEF Init
  <2>2. \A v \in Views : asked[v] \in Fetches(v) /\ asked[v].step = "none"
    <3>1. NoFetch.step = "none"
      BY DEF NoFetch
    <3> QED
      BY <2>1, <3>1, ListsAre
  <2>3. asked \in Each(Fetches)
    BY Zenon, <2>1, <2>2, EachIs
  <2>4. trust \in [Views -> {"due", "kept", "missed"}]
    BY DEF Init
  <2> QED
    BY <2>2, <2>3, <2>4, ListsAre DEF FetchesTyped
<1>7. ListsTyped
  <2>1. store = [desktops |-> <<>>, deployment |-> NoPage, deployments |-> <<>>] /\ page = None
    BY DEF Init
  <2>2. <<>> \in Seq(Cards) /\ <<>> \in Seq(Summaries)
    OBVIOUS
  <2>3. store \in Each(ListsOf)
    BY <2>1, <2>2, ListsAre DEF Each
  <2> QED
    BY <2>1, <2>3 DEF ListsTyped
<1>8. RowsTyped
  BY <1>2 DEF Init, RowsTyped
<1> QED
  BY <1>3, <1>5, <1>6, <1>7, <1>8, TypesAre DEF Basic

LEMMA BasicStep == Basic /\ [Next]_vars => Basic'
<1> SUFFICES ASSUME Basic, [Next]_vars PROVE Basic'
  OBVIOUS
<1>0. TypeOK /\ DepsServed /\ Idle
  BY DEF Basic
<1>1. CASE RowStep \/ DepStep \/ OtherStep
  <2>1. TypeOK'
    BY <1>0, <1>1, RowStepTypes, DepStepTypes, OtherStepTypes
  <2>2. DepsServed'
    BY <1>0, <1>1, DepsAreServed DEF OtherStep
  <2> QED
    BY <1>0, <1>1, <2>1, <2>2, IdleKept DEF Basic
<1>2. CASE DomainsThread \/ DeploymentsThread
  <2>1. TypeOK'
    BY <1>0, <1>2, TakeChangeTypes, TellDeploymentTypes, TakeDepChangeTypes, TellDeploymentsTypes
       DEF DomainsThread, DeploymentsThread
  <2>2. dep' = dep
    BY <1>2 DEF DomainsThread, DeploymentsThread, TakeChange, TellDeployment, TakeDepChange, TellDeployments, tables
  <2> QED
    BY <1>0, <1>2, <2>1, <2>2, DepsAreServed, IdleKept DEF Basic
<1>3. CASE Faults
  <2>1. TypeOK' /\ Idle' /\ dep' = dep
    BY <1>0, <1>3, FaultsTypes, FaultsAre
  <2> QED
    BY <1>0, <2>1, DepsAreServed DEF Basic
<1>4. CASE Browser
  <2>1. TypeOK'
    BY <1>0, <1>4, DeliverTypes, OpenTypes, ReadTypes, AnswerTypes DEF Browser
  <2>2. dep' = dep
    BY <1>4 DEF Browser, Deliver, Open, Read, Answer, tables
  <2> QED
    BY <1>0, <1>4, <2>1, <2>2, DepsAreServed, IdleKept DEF Basic
<1>5. CASE UNCHANGED vars
  <2>1. OtherStep
    BY <1>0, <1>5, TablesTyped DEF vars, tables, feeds, browser, OtherStep
  <2> QED
    BY <1>1, <2>1
<1>6. ASSUME Next PROVE Steps
  BY <1>0, <1>6, NextIs
<1> QED
  BY <1>1, <1>2, <1>3, <1>4, <1>5, <1>6 DEF Steps

\* The tables, what the two threads (api_socketio_domains.py, api_socketio_deployments.py)
\* hold and emit, and the lists and pending fetches of the stores keep their types: each
\* subject is told the events that the stores have a mutation for.
THEOREM FeedIsTyped == Spec => []TypeOK
<1>1. Basic => TypeOK
  BY DEF Basic
<1> QED
  BY BasicInit, BasicStep, <1>1, PTL DEF Spec

-----------------------------------------------------------------------------
(* The lists of desktops: what is queued, held or on its way about a desktop. *)

CardViews == {"desktops", "deployment"}
Subject(v) == IF v = "desktops" THEN "desktop" ELSE "deploymentdesktop"

\* Is the desktop in the list, and with which states, when its row is r?
Belongs(v, d, r) == IF v = "desktops" THEN Seen(d, r) ELSE InTable(r)
Shown(r) == IF InTable(r) /\ IsFrontend(r.status) THEN {r.status} ELSE Statuses

\* What adds it to the list or takes it out, and those that end with it in the list iff b.
Turns(v, d) ==
    [wire |-> {e \in Events : e.subject = Subject(v) /\ e.data.id = d /\ e.what # "update"},
     held |-> {h \in HeldChanges : v = "deployment" /\ h.card.id = d /\ h.event # "update"},
     queue |-> {c \in Changes : /\ c.id = d /\ EventOf(c) # "none"
                                /\ EventOf(c) # "update" \/ (v = "desktops" /\ Hides(c))}]
Turned(v, d, b) ==
    [wire |-> {e \in Events : (e.what = "add") <=> b},
     held |-> {h \in HeldChanges : (h.event = "add") <=> b},
     queue |-> {c \in Changes : Belongs(v, d, c.new) <=> b}]

\* What brings a card of it, what replaces its card, and those with a state of S.
News(v, d) ==
    [wire |-> {e \in Events : e.subject = Subject(v) /\ e.data.id = d /\ e.what # "delete"},
     held |-> {h \in HeldChanges : v = "deployment" /\ h.card.id = d /\ h.event # "delete"},
     queue |-> {c \in Changes : c.id = d /\ EventOf(c) \in {"add", "update"}}]
Updates(v, d) ==
    [wire |-> {e \in Events : e.subject = Subject(v) /\ e.data.id = d /\ e.what = "update"},
     held |-> {h \in HeldChanges : v = "deployment" /\ h.card.id = d /\ h.event = "update"},
     queue |-> {c \in Changes : c.id = d /\ EventOf(c) = "update"}]
Current(v, d, S) ==
    [wire |-> {e \in Events : e.subject = Subject(v) /\ e.data.state \in S},
     held |-> {h \in HeldChanges : h.card.state \in S},
     queue |-> {c \in Changes : c.new.status \in S}]

\* All that is about it.
About(d) ==
    [wire |-> {e \in Events : e.subject \in {"desktop", "deploymentdesktop"} /\ e.data.id = d},
     held |-> {h \in HeldChanges : h.card.id = d},
     queue |-> {c \in Changes : c.id = d}]

\* What comes ends with what the row says.
CardLine(v, d, b, S) ==
    /\ Right(wire, domains.held, changes, Turns(v, d), Turns(v, d), Turned(v, d, b))
    /\ Right(wire, domains.held, changes, News(v, d), Updates(v, d), Current(v, d, S))
\* A list is right about it, but for what still comes.
CardListed(v, d, list, b, S) ==
    /\ Clear(wire, domains.held, changes, Turns(v, d)) => (Has(list, d) <=> b)
    /\ Clear(wire, domains.held, changes, Updates(v, d)) =>
          \A x \in Range(list) : x.id = d => x.state \in S

LineRight(v, d) == CardLine(v, d, Belongs(v, d, row[d]), Shown(row[d]))
ListRight(v, d, list) == CardListed(v, d, list, Belongs(v, d, row[d]), Shown(row[d]))

\* A desktop that is not inserted is nowhere.
Nowhere(d) == Clear(wire, domains.held, changes, About(d))
Lists4(d) ==
    /\ ~ Has(store["desktops"], d) /\ ~ Has(store["deployment"].desktops, d)
    /\ asked["desktops"].step = "read" => ~ Has(asked["desktops"].list, d)
    /\ asked["deployment"].step = "read" => ~ Has(asked["deployment"].list.desktops, d)

\* What is about it contains the rest.
LEMMA AboutAll ==
    ASSUME NEW v \in CardViews, NEW d
    PROVE  /\ Turns(v, d).wire \subseteq About(d).wire /\ Turns(v, d).held \subseteq About(d).held
           /\ Turns(v, d).queue \subseteq About(d).queue
           /\ News(v, d).wire \subseteq About(d).wire /\ News(v, d).held \subseteq About(d).held
           /\ News(v, d).queue \subseteq About(d).queue
           /\ Updates(v, d).wire \subseteq About(d).wire /\ Updates(v, d).held \subseteq About(d).held
           /\ Updates(v, d).queue \subseteq About(d).queue
<1>1. Subject(v) \in {"desktop", "deploymentdesktop"}
  BY DEF Subject
<1>2. Turns(v, d).wire \subseteq About(d).wire /\ Turns(v, d).held \subseteq About(d).held
      /\ Turns(v, d).queue \subseteq About(d).queue
  BY <1>1 DEF Turns, About
<1>3. News(v, d).wire \subseteq About(d).wire /\ News(v, d).held \subseteq About(d).held
      /\ News(v, d).queue \subseteq About(d).queue
  BY <1>1 DEF News, About
<1>4. Updates(v, d).wire \subseteq About(d).wire /\ Updates(v, d).held \subseteq About(d).held
      /\ Updates(v, d).queue \subseteq About(d).queue
  BY <1>1 DEF Updates, About
<1> QED
  BY <1>2, <1>3, <1>4

LEMMA FreeSubset ==
    ASSUME NEW q, NEW T, NEW U, Free(q, T), U \subseteq T
    PROVE  Free(q, U)
  BY DEF Free

\* Nothing about it: the line is right whatever it should be.
LEMMA NowhereIsRight ==
    ASSUME NEW v \in CardViews, NEW d, NEW b, NEW S, Nowhere(d)
    PROVE  CardLine(v, d, b, S)
<1>1. Clear(wire, domains.held, changes, Turns(v, d)) /\ Clear(wire, domains.held, changes, News(v, d))
  BY AboutAll, FreeSubset DEF Nowhere, Clear
<1> QED
  BY <1>1, ClearIsRight DEF CardLine

\* What a change of a row does to its desktop.
LEMMA RowChange ==
    ASSUME TypeOK, NEW new \in [Desktops -> Rows], RowMoves(new), NEW d \in Desktops, new[d] # row[d], domains.up,
           NEW v \in CardViews, v \notin Untold(new), NEW c \in Changes, c = [id |-> d, old |-> row[d], new |-> new[d]]
    PROVE  /\ c \notin Turns(v, d).queue => (Belongs(v, d, new[d]) <=> Belongs(v, d, row[d]))
           /\ c \in Turned(v, d, Belongs(v, d, new[d])).queue
           /\ c \notin Updates(v, d).queue => row[d] = Unborn \/ Shown(row[d]) \subseteq Shown(new[d])
           /\ c \in News(v, d).queue => c \in Current(v, d, Shown(new[d])).queue
<1> DEFINE was == row[d]
           is == new[d]
<1>0. c.id = d /\ c.old = was /\ c.new = is
  OBVIOUS
<1>1. was \in Rows /\ is \in Rows
  BY TablesTyped
<1>2. /\ InTable(was) \/ (was = Unborn /\ InTable(is))
      /\ InTable(is) \/ is = Gone
      /\ was # Unborn /\ InTable(is) => is.visible = was.visible \/ (is.status = was.status /\ Tag[d] # None)
  BY DEF RowMoves
<1>3. /\ ~ InTable(Unborn) /\ ~ InTable(Gone) /\ Unborn # Gone /\ Unborn.visible = FALSE /\ Gone.visible = FALSE
      /\ was.visible \in BOOLEAN /\ is.visible \in BOOLEAN
  BY <1>1, RowIs
<1>4. /\ InTable(is) /\ ~ IsFrontend(is.status) /\ v = "desktops" => Seen(d, is) = Seen(d, was)
      /\ InTable(is) /\ ~ IsFrontend(is.status) /\ v = "deployment" => was # Unborn
  <2>1. \A D \in SUBSET Desktops : \A x : x \in D => D # {}
    OBVIOUS
  <2> DEFINE changed == {e \in Desktops : new[e] # row[e]}
             dropped == {e \in changed : InTable(new[e]) /\ ~IsFrontend(new[e].status)}
  <2>2. Untold(new) = (IF \E e \in dropped : Seen(e, new[e]) # Seen(e, row[e]) THEN {"desktops"} ELSE {})
            \cup (IF \E e \in dropped : row[e] = Unborn THEN {"deployment"} ELSE {})
            \cup (IF (\E e \in dropped : row[e] = Unborn) \/ \E e \in dropped : row[e].status = "Started"
                  THEN {"deployments"} ELSE {})
    BY DEF Untold
  <2>3. ASSUME InTable(is), ~ IsFrontend(is.status) PROVE d \in dropped
    BY <2>3
  <2> HIDE DEF dropped
  <2>4. ASSUME InTable(is), ~ IsFrontend(is.status), v = "desktops" PROVE Seen(d, is) = Seen(d, was)
    BY <2>2, <2>3, <2>4
  <2>5. ASSUME InTable(is), ~ IsFrontend(is.status), v = "deployment" PROVE was # Unborn
    BY <2>2, <2>3, <2>5
  <2> QED
    BY <2>4, <2>5
<1>5. /\ EventOf(c) = "none" <=> InTable(is) /\ ~ IsFrontend(is.status)
      /\ EventOf(c) = "delete" <=> is = Gone
      /\ EventOf(c) = "add" <=> InTable(is) /\ IsFrontend(is.status) /\ (was = Unborn \/ (~ was.visible /\ is.visible))
      /\ EventOf(c) = "update" <=> InTable(is) /\ IsFrontend(is.status) /\ was # Unborn /\ (was.visible \/ ~ is.visible)
  <2> HIDE DEF was, is
  <2>1. InTable(is) => is # Gone
    BY <1>3
  <2> HIDE DEF Unborn, Gone
  <2> QED
    BY <1>0, <1>2, <1>3, <2>1 DEF EventOf
<1>6. Hides(c) <=> Tag[d] # None /\ (IF is = Gone THEN ~ was.visible ELSE ~ is.visible) /\ (was = Unborn \/ was.visible)
  BY <1>0 DEF Hides, RowOf
<1> HIDE DEF was, is
<1>7. c \in Turns(v, d).queue <=> /\ EventOf(c) # "none"
                                  /\ EventOf(c) # "update" \/ (v = "desktops" /\ Hides(c))
  BY <1>0 DEF Turns
<1>8. c \in Updates(v, d).queue <=> EventOf(c) = "update"
  BY <1>0 DEF Updates
<1>9. c \in News(v, d).queue <=> EventOf(c) \in {"add", "update"}
  BY <1>0 DEF News
<1>10. c \notin Turns(v, d).queue => (Belongs(v, d, is) <=> Belongs(v, d, was))
  <2> SUFFICES ASSUME c \notin Turns(v, d).queue PROVE Belongs(v, d, is) <=> Belongs(v, d, was)
    OBVIOUS
  <2>1. CASE EventOf(c) = "none"
    <3>1. InTable(is) /\ ~ IsFrontend(is.status)
      BY <1>5, <2>1
    <3>2. CASE v = "desktops"
      BY <1>4, <3>1, <3>2 DEF Belongs, was, is
    <3>3. CASE v = "deployment"
      BY <1>2, <1>4, <3>1, <3>3 DEF Belongs, was, is
    <3> QED
      BY <3>2, <3>3 DEF CardViews
  <2>2. CASE EventOf(c) = "update" /\ ~ (v = "desktops" /\ Hides(c))
    <3>1. InTable(is) /\ InTable(was) /\ (was.visible \/ ~ is.visible) /\ is # Gone /\ was # Unborn
      BY <1>2, <1>3, <1>5, <2>2
    <3>2. CASE v = "desktops"
      <4>1. ~ (Tag[d] # None /\ ~ is.visible /\ was.visible)
        BY <1>6, <2>2, <3>1, <3>2
      <4> QED
        BY <1>3, <3>1, <3>2, <4>1 DEF Belongs, Seen
    <3>3. CASE v = "deployment"
      BY <3>1, <3>3 DEF Belongs
    <3> QED
      BY <3>2, <3>3 DEF CardViews
  <2> QED
    BY <1>7, <2>1, <2>2
<1>11. c \in Turned(v, d, Belongs(v, d, is)).queue
  BY <1>0 DEF Turned, is
<1>12. c \notin Updates(v, d).queue => was = Unborn \/ Shown(was) \subseteq Shown(is)
  <2> SUFFICES ASSUME EventOf(c) # "update", was # Unborn PROVE Shown(was) \subseteq Shown(is)
    BY <1>8
  <2>1. InTable(was) /\ was.status \in Statuses
    BY <1>2 DEF InTable
  <2>2. CASE InTable(is) /\ IsFrontend(is.status)
    <3>1. ~ was.visible /\ is.visible
      BY <1>2, <1>3, <1>5, <2>2
    <3>2. is.status = was.status
      BY <1>2, <2>2, <3>1
    <3> QED
      BY <2>1, <2>2, <3>2 DEF Shown
  <2>3. CASE ~ (InTable(is) /\ IsFrontend(is.status))
    BY <2>1, <2>3 DEF Shown
  <2> QED
    BY <2>2, <2>3
<1>13. c \in News(v, d).queue => c \in Current(v, d, Shown(is)).queue
  <2> SUFFICES ASSUME EventOf(c) \in {"add", "update"} PROVE c \in Current(v, d, Shown(is)).queue
    BY <1>9
  <2>1. InTable(is) /\ IsFrontend(is.status)
    BY <1>5
  <2>2. c.new.status \in Shown(is)
    BY <1>0, <2>1 DEF Shown, is
  <2> QED
    BY <2>2 DEF Current
<1> QED
  BY <1>10, <1>11, <1>12, <1>13 DEF was, is

\* Of the changes that are queued one is about a desktop whose row changes.
LEMMA OneQueued ==
    ASSUME NEW w, NEW h, NEW q \in Seq(Changes), NEW cs \in Seq(Changes), NEW d, NEW c \in Changes, c.id = d,
           \E i \in 1 .. Len(cs) : cs[i] = c,
           \A i, j \in 1 .. Len(cs) : cs[i].id = cs[j].id => i = j,
           NEW A, NEW U, NEW G, \A x \in A.queue : x.id = d, \A x \in U.queue : x.id = d
    PROVE  /\ Clear(w, h, q \o cs, U) <=> Clear(w, h, q, U) /\ c \notin U.queue
           /\ /\ c \in A.queue => c \in G.queue
              /\ c \notin U.queue => Right(w, h, q, A, U, G)
              => Right(w, h, q \o cs, A, U, G)
<1>1. PICK k \in 1 .. Len(cs) : cs[k] = c
  OBVIOUS
<1>2. \A i \in 1 .. Len(cs) : cs[i].id = d => cs[i] = c
  BY <1>1
<1>3. Free(cs, U.queue) <=> c \notin U.queue
  <2>1. ASSUME c \notin U.queue PROVE Free(cs, U.queue)
    BY <1>2, <2>1 DEF Free
  <2>2. ASSUME Free(cs, U.queue) PROVE c \notin U.queue
    BY <1>1, <2>2 DEF Free
  <2> QED
    BY <2>1, <2>2
<1>4. ASSUME c \in A.queue => c \in G.queue PROVE Settled(cs, A.queue, U.queue, G.queue)
  BY <1>2, <1>4 DEF Settled
<1>5. /\ Clear(w, h, q \o cs, U) <=> Clear(w, h, q, U) /\ Free(cs, U.queue)
      /\ Right(w, h, q \o cs, A, U, G) <=>
            /\ Settled(cs, A.queue, U.queue, G.queue)
            /\ Free(cs, U.queue) => Right(w, h, q, A, U, G)
  BY Queued
<1> QED
  BY <1>3, <1>4, <1>5

\* None is about one whose row stays.
LEMMA NoneQueued ==
    ASSUME NEW w, NEW h, NEW q \in Seq(Changes), NEW cs \in Seq(Changes), NEW d,
           \A i \in 1 .. Len(cs) : cs[i].id # d,
           NEW A, NEW U, NEW G, \A x \in A.queue : x.id = d, \A x \in U.queue : x.id = d
    PROVE  /\ Clear(w, h, q \o cs, U) <=> Clear(w, h, q, U)
           /\ Right(w, h, q, A, U, G) => Right(w, h, q \o cs, A, U, G)
<1>1. Free(cs, U.queue)
  BY DEF Free
<1>2. Settled(cs, A.queue, U.queue, G.queue)
  BY DEF Settled
<1>3. /\ Clear(w, h, q \o cs, U) <=> Clear(w, h, q, U) /\ Free(cs, U.queue)
      /\ Right(w, h, q \o cs, A, U, G) <=>
            /\ Settled(cs, A.queue, U.queue, G.queue)
            /\ Free(cs, U.queue) => Right(w, h, q, A, U, G)
  BY Queued
<1> QED
  BY <1>1, <1>2, <1>3

LEMMA QueuesAbout ==
    ASSUME NEW v, NEW d
    PROVE  /\ \A x \in Turns(v, d).queue : x.id = d
           /\ \A x \in Updates(v, d).queue : x.id = d
           /\ \A x \in News(v, d).queue : x.id = d
           /\ \A x \in About(d).queue : x.id = d
  BY DEF Turns, Updates, News, About

\* A state of S is one of a larger set.
LEMMA CurrentGrows ==
    ASSUME NEW v, NEW d, NEW S, NEW R, S \subseteq R
    PROVE  /\ Current(v, d, S).wire \subseteq Current(v, d, R).wire
           /\ Current(v, d, S).held \subseteq Current(v, d, R).held
           /\ Current(v, d, S).queue \subseteq Current(v, d, R).queue
  BY DEF Current

LEMMA NewsGrow ==
    ASSUME NEW v, NEW d, NEW S, NEW R, S \subseteq R, NEW w, NEW h, NEW q,
           Right(w, h, q, News(v, d), Updates(v, d), Current(v, d, S))
    PROVE  Right(w, h, q, News(v, d), Updates(v, d), Current(v, d, R))
<1>1. /\ News(v, d).wire \cap Current(v, d, S).wire \subseteq Current(v, d, R).wire
      /\ News(v, d).held \cap Current(v, d, S).held \subseteq Current(v, d, R).held
      /\ News(v, d).queue \cap Current(v, d, S).queue \subseteq Current(v, d, R).queue
  BY CurrentGrows
<1> QED
  BY <1>1, StillRight

\* A step of the rows: the line of a desktop is right again, and so are the lists, unless they are spoilt.
LEMMA RowsPass ==
    ASSUME TypeOK, RowStep, NEW v \in CardViews, NEW d \in Desktops, trust'[v] # "missed",
           row[d] = Unborn => Nowhere(d)
    PROVE  /\ trust[v] # "missed" /\ asked'[v].crossed = asked[v].crossed
           /\ LineRight(v, d) => LineRight(v, d)'
           /\ \A S : \A list \in Seq(S) :
                 (row[d] = Unborn => ~ Has(list, d)) /\ ListRight(v, d, list) => ListRight(v, d, list)'
<1>0. v \in Views
  BY DEF CardViews, Views
<1>1. PICK new \in [Desktops -> Rows] : RowMoves(new) /\ UpdateRows(new)
  BY DEF RowStep
<1>2. row' = new
  BY <1>1, QueuedRows
<1>3. PICK cs \in Seq(Changes) :
         /\ changes' = IF domains.up THEN changes \o cs ELSE changes
         /\ \A e \in Desktops : new[e] # row[e] =>
               \E i \in 1 .. Len(cs) : cs[i] = [id |-> e, old |-> row[e], new |-> new[e]]
         /\ \A i \in 1 .. Len(cs) :
               /\ cs[i].id \in Desktops /\ new[cs[i].id] # row[cs[i].id]
               /\ cs[i].old = row[cs[i].id] /\ cs[i].new = new[cs[i].id]
         /\ \A i, j \in 1 .. Len(cs) : cs[i].id = cs[j].id => i = j
  BY <1>1, QueuedRows
<1>4. wire' = wire /\ domains' = domains /\ changes \in Seq(Changes)
  BY DEF RowStep, TypeOK
<1>5. v \notin Untold(new) /\ trust'[v] = trust[v] /\ asked'[v].crossed = asked[v].crossed
  <2>1. Spoilt(Untold(new))
    BY <1>1, RowsSpoil
  <2>2. asked[v].crossed \in BOOLEAN
    <3>1. asked \in Each(Fetches)
      BY DEF TypeOK
    <3>2. asked[v] \in Fetches(v)
      BY Zenon, <1>0, <3>1, EachIs
    <3> QED
      BY <3>2 DEF Fetches
  <2> QED
    BY <1>0, <2>1, <2>2 DEF Spoilt
<1>6. CASE new[d] = row[d]
  <2>1. row'[d] = row[d]
    BY <1>2, <1>6
  <2>2. \A i \in 1 .. Len(cs) : cs[i].id # d
    BY <1>3, <1>6
  <2>3. /\ \A U : (\A x \in U.queue : x.id = d) =>
                     (Clear(wire, domains.held, changes', U) <=> Clear(wire, domains.held, changes, U))
        /\ \A A, U, G : (\A x \in A.queue : x.id = d) /\ (\A x \in U.queue : x.id = d) =>
                     (Right(wire, domains.held, changes, A, U, G) => Right(wire, domains.held, changes', A, U, G))
    <3>1. ASSUME NEW A, NEW U, NEW G, \A x \in A.queue : x.id = d, \A x \in U.queue : x.id = d
          PROVE  /\ Clear(wire, domains.held, changes \o cs, U) <=> Clear(wire, domains.held, changes, U)
                 /\ Right(wire, domains.held, changes, A, U, G) => Right(wire, domains.held, changes \o cs, A, U, G)
      BY <1>4, <2>2, <3>1, NoneQueued
    <3>2. CASE domains.up
      <4>1. changes' = changes \o cs
        BY <1>3, <3>2
      <4> QED
        BY <3>1, <4>1
    <3>3. CASE ~ domains.up
      BY <1>3, <3>3
    <3> QED
      BY <3>2, <3>3
  <2>4. LineRight(v, d) => LineRight(v, d)'
    BY <1>4, <2>1, <2>3, QueuesAbout DEF LineRight, CardLine
  <2>5. \A list : ListRight(v, d, list) => ListRight(v, d, list)'
    BY <1>4, <2>1, <2>3, QueuesAbout DEF ListRight, CardListed
  <2> QED
    BY <1>5, <2>4, <2>5
<1>7. CASE new[d] # row[d]
  <2>1. domains.up
    <3>1. ASSUME ~ domains.up PROVE FALSE
      <4>1. Untold(new) = Views
        BY <1>7, <3>1 DEF Untold
      <4> QED
        BY <1>0, <1>5, <4>1
    <3> QED
      BY <3>1
  <2> DEFINE c == [id |-> d, old |-> row[d], new |-> new[d]]
  <2>2. PICK k \in 1 .. Len(cs) : cs[k] = c
    BY <1>3, <1>7
  <2>3. c \in Changes /\ c.id = d /\ c = [id |-> d, old |-> row[d], new |-> new[d]]
    BY <1>3, <2>2
  <2> HIDE DEF c
  <2>4. /\ c \notin Turns(v, d).queue => (Belongs(v, d, new[d]) <=> Belongs(v, d, row[d]))
        /\ c \in Turned(v, d, Belongs(v, d, new[d])).queue
        /\ c \notin Updates(v, d).queue => row[d] = Unborn \/ Shown(row[d]) \subseteq Shown(new[d])
        /\ c \in News(v, d).queue => c \in Current(v, d, Shown(new[d])).queue
    BY <1>1, <1>5, <1>7, <2>1, <2>3, RowChange
  <2>5. changes' = changes \o cs
    BY <1>3, <2>1
  <2> DEFINE b == Belongs(v, d, row[d])
             bb == Belongs(v, d, new[d])
             S == Shown(row[d])
             SS == Shown(new[d])
  <2> HIDE DEF b, bb, S, SS
  <2>6. \A A, U, G : (\A x \in A.queue : x.id = d) /\ (\A x \in U.queue : x.id = d) =>
           /\ Clear(wire, domains.held, changes', U) <=> Clear(wire, domains.held, changes, U) /\ c \notin U.queue
           /\ /\ c \in A.queue => c \in G.queue
              /\ c \notin U.queue => Right(wire, domains.held, changes, A, U, G)
              => Right(wire, domains.held, changes', A, U, G)
    <3>1. \A i, j \in 1 .. Len(cs) : cs[i].id = cs[j].id => i = j
      BY <1>3
    <3>2. ASSUME NEW A, NEW U, NEW G, \A x \in A.queue : x.id = d, \A x \in U.queue : x.id = d
          PROVE  /\ Clear(wire, domains.held, changes \o cs, U) <=> Clear(wire, domains.held, changes, U) /\ c \notin U.queue
                 /\ /\ c \in A.queue => c \in G.queue
                    /\ c \notin U.queue => Right(wire, domains.held, changes, A, U, G)
                    => Right(wire, domains.held, changes \o cs, A, U, G)
      <4>1. \E i \in 1 .. Len(cs) : cs[i] = c
        BY <2>2
      <4>2. c \in Changes /\ c.id = d /\ changes \in Seq(Changes)
        BY <1>4, <2>3
      <4> QED
        BY ZenonT(60), <3>1, <3>2, <4>1, <4>2, OneQueued
    <3> QED
      BY <2>5, <3>2
  <2>7. ASSUME LineRight(v, d) PROVE LineRight(v, d)'
    <3>1. CardLine(v, d, b, S)
      BY <2>7 DEF LineRight, b, S
    <3>2. ASSUME c \notin Turns(v, d).queue
          PROVE  Right(wire, domains.held, changes, Turns(v, d), Turns(v, d), Turned(v, d, bb))
      <4>1. Turned(v, d, b) = Turned(v, d, bb)
        <5>1. b <=> bb
          BY <2>4, <3>2 DEF b, bb
        <5> QED
          BY <5>1 DEF Turned
      <4> QED
        BY <3>1, <4>1 DEF CardLine
    <3>3. Right(wire, domains.held, changes', Turns(v, d), Turns(v, d), Turned(v, d, bb))
      BY <2>4, <2>6, <3>2, QueuesAbout DEF bb
    <3>4. ASSUME c \notin Updates(v, d).queue
          PROVE  Right(wire, domains.held, changes, News(v, d), Updates(v, d), Current(v, d, SS))
      <4>1. CASE row[d] = Unborn
        <5>1. CardLine(v, d, bb, SS)
          BY <4>1, NowhereIsRight
        <5> QED
          BY <5>1 DEF CardLine
      <4>2. CASE S \subseteq SS
        BY <3>1, <4>2, NewsGrow DEF CardLine
      <4> QED
        BY <2>4, <3>4, <4>1, <4>2 DEF S, SS
    <3>5. Right(wire, domains.held, changes', News(v, d), Updates(v, d), Current(v, d, SS))
      BY <2>4, <2>6, <3>4, QueuesAbout DEF SS
    <3> QED
      BY <1>2, <1>4, <3>3, <3>5 DEF LineRight, CardLine, bb, SS
  <2>8. ASSUME NEW T, NEW list \in Seq(T), row[d] = Unborn => ~ Has(list, d), ListRight(v, d, list)
        PROVE  ListRight(v, d, list)'
    <3>1. CardListed(v, d, list, b, S)
      BY <2>8 DEF ListRight, b, S
    <3>2. ASSUME Clear(wire, domains.held, changes', Turns(v, d)) PROVE Has(list, d) <=> bb
      <4>1. Clear(wire, domains.held, changes, Turns(v, d)) /\ c \notin Turns(v, d).queue
        BY <2>6, <3>2, QueuesAbout
      <4>2. bb <=> b
        BY <2>4, <4>1 DEF b, bb
      <4> QED
        BY <3>1, <4>1, <4>2 DEF CardListed
    <3>3. ASSUME Clear(wire, domains.held, changes', Updates(v, d)), NEW x \in Range(list), x.id = d PROVE x.state \in SS
      <4>1. Clear(wire, domains.held, changes, Updates(v, d)) /\ c \notin Updates(v, d).queue
        BY <2>6, <3>3, QueuesAbout
      <4>2. row[d] # Unborn
        BY <2>8, <3>3, HasIs
      <4>3. S \subseteq SS
        BY <2>4, <4>1, <4>2 DEF S, SS
      <4> QED
        BY <3>1, <3>3, <4>1, <4>3 DEF CardListed
    <3> QED
      BY <1>2, <1>4, <3>2, <3>3 DEF ListRight, CardListed, bb, SS
  <2> QED
    BY <1>5, <2>7, <2>8
<1> QED
  BY <1>6, <1>7

\* A queue of two.
LEMMA TwoAre ==
    ASSUME NEW S, NEW x \in S, NEW y \in S
    PROVE  /\ <<x>> \o <<y>> = <<x, y>>
           /\ \A T : Free(<<x>> \o <<y>>, T) <=> x \notin T /\ y \notin T
           /\ \A A, U, G : Settled(<<x>> \o <<y>>, A, U, G) <=>
                 (y \in A => y \in G) /\ (y \notin U => (x \in A => x \in G))
<1>1. <<x>> \in Seq(S) /\ <<y>> \in Seq(S)
  OBVIOUS
<1>2. ASSUME NEW T PROVE Free(<<x>> \o <<y>>, T) <=> x \notin T /\ y \notin T
  <2>1. Free(<<x>> \o <<y>>, T) <=> Free(<<x>>, T) /\ Free(<<y>>, T)
    BY <1>1, FreeConcat
  <2>2. (Free(<<x>>, T) <=> x \notin T) /\ (Free(<<y>>, T) <=> y \notin T)
    BY FreeShort
  <2> QED
    BY <2>1, <2>2
<1>3. ASSUME NEW A, NEW U, NEW G
      PROVE  Settled(<<x>> \o <<y>>, A, U, G) <=> (y \in A => y \in G) /\ (y \notin U => (x \in A => x \in G))
  <2>1. Settled(<<x>> \o <<y>>, A, U, G) <=> Settled(<<y>>, A, U, G) /\ (Free(<<y>>, U) => Settled(<<x>>, A, U, G))
    BY <1>1, SettledConcat
  <2>2. /\ Settled(<<x>>, A, U, G) <=> (x \in A => x \in G)
        /\ Settled(<<y>>, A, U, G) <=> (y \in A => y \in G)
        /\ Free(<<y>>, U) <=> y \notin U
    BY FreeShort, SettledShort
  <2> QED
    BY <2>1, <2>2
<1>4. <<x>> \o <<y>> = <<x, y>>
  <2> DEFINE q == <<x>> \o <<y>>
             r == <<x, y>>
  <2>1. q \in Seq(S) /\ Len(q) = 2 /\ q[1] = x /\ q[2] = y
    BY <1>1
  <2>2. r \in Seq(S) /\ Len(r) = 2 /\ r[1] = x /\ r[2] = y
    OBVIOUS
  <2> HIDE DEF q, r
  <2>3. \A i \in 1 .. 2 : i = 1 \/ i = 2
    OBVIOUS
  <2>4. q = r
    BY <2>1, <2>2, <2>3
  <2> QED
    BY <2>4 DEF q, r
<1> QED
  BY <1>2, <1>3, <1>4

\* The events of a change, as the user's lists count them.
LEMMA UserEventsAre ==
    ASSUME NEW c \in Changes, EventOf(c) # "none"
    PROVE  LET card == Card(c.id, RowOf(c))
               e1 == Event("desktop", EventOf(c), card)
               e2 == Event("desktop", "delete", card)
           IN /\ \A T : Free(UserEvents(c), T) <=> e1 \notin T /\ (Hides(c) => e2 \notin T)
              /\ \A A, U, G : Settled(UserEvents(c), A, U, G) <=>
                    /\ Hides(c) => (e2 \in A => e2 \in G)
                    /\ (Hides(c) => e2 \notin U) => (e1 \in A => e1 \in G)
<1> DEFINE card == Card(c.id, RowOf(c))
           e1 == Event("desktop", EventOf(c), card)
           e2 == Event("desktop", "delete", card)
<1>1. e1 \in Events /\ e2 \in Events
  BY EventsAre
<1>2. UserEvents(c) = <<e1>> \o (IF Hides(c) THEN <<e2>> ELSE <<>>)
  BY DEF UserEvents
<1> HIDE DEF e1, e2
<1>3. CASE Hides(c)
  <2> DEFINE q == <<e1>> \o <<e2>>
  <2>1. UserEvents(c) = q
    BY <1>2, <1>3
  <2>3. ASSUME NEW T PROVE Free(q, T) <=> e1 \notin T /\ e2 \notin T
    BY ZenonT(60), <1>1, TwoAre
  <2>4. ASSUME NEW A, NEW U, NEW G
        PROVE  Settled(q, A, U, G) <=> (e2 \in A => e2 \in G) /\ (e2 \notin U => (e1 \in A => e1 \in G))
    BY <1>1, TwoAre
  <2> HIDE DEF q
  <2>2. /\ \A T : Free(UserEvents(c), T) <=> e1 \notin T /\ e2 \notin T
        /\ \A A, U, G : Settled(UserEvents(c), A, U, G) <=>
              (e2 \in A => e2 \in G) /\ (e2 \notin U => (e1 \in A => e1 \in G))
    BY <2>1, <2>3, <2>4
  <2> QED
    BY <1>3, <2>2 DEF e1, e2
<1>4. CASE ~ Hides(c)
  <2>1. <<e1>> \o <<>> = <<e1>>
    BY <1>1
  <2>2. UserEvents(c) = <<e1>>
    BY <1>2, <1>4, <2>1
  <2>3. /\ \A T : Free(<<e1>>, T) <=> e1 \notin T
        /\ \A A, U, G : Settled(<<e1>>, A, U, G) <=> (e1 \in A => e1 \in G)
    BY FreeShort, SettledShort
  <2> QED
    BY <1>4, <2>2, <2>3 DEF e1, e2
<1> QED
  BY <1>3, <1>4

\* What is emitted and held stands for the change, for each desktop and list.
LEMMA ChangeStands ==
    ASSUME NEW c \in Changes, EventOf(c) # "none", NEW v \in CardViews, NEW d \in Desktops, NEW r, NEW hh,
           hh = <<>> \/ \E h \in HeldChanges : hh = <<h>> /\ h.card = Card(c.id, RowOf(c)) /\ h.event = EventOf(c),
           v = "deployment" /\ c.id = d => hh # <<>>
    PROVE  /\ StandsFor(c, UserEvents(c), hh, Turns(v, d), Turns(v, d), Turned(v, d, Belongs(v, d, r)))
           /\ StandsFor(c, UserEvents(c), hh, News(v, d), Updates(v, d), Current(v, d, Shown(r)))
           /\ CountsFor(c, UserEvents(c), hh, Turns(v, d))
           /\ CountsFor(c, UserEvents(c), hh, Updates(v, d))
<1> DEFINE card == Card(c.id, RowOf(c))
           e1 == Event("desktop", EventOf(c), card)
           e2 == Event("desktop", "delete", card)
           ev == UserEvents(c)
<1>1. /\ \A T : Free(ev, T) <=> e1 \notin T /\ (Hides(c) => e2 \notin T)
      /\ \A A, U, G : Settled(ev, A, U, G) <=>
            /\ Hides(c) => (e2 \in A => e2 \in G)
            /\ (Hides(c) => e2 \notin U) => (e1 \in A => e1 \in G)
  BY UserEventsAre
<1> HIDE DEF ev
<1>2. e1 \in Events /\ e2 \in Events /\ card.id = c.id /\ card \in Cards
  BY EventsAre
<1>3. /\ e1.subject = "desktop" /\ e1.what = EventOf(c) /\ e1.data = card
      /\ e2.subject = "desktop" /\ e2.what = "delete" /\ e2.data = card
  BY DEF Event
<1>4. EventOf(c) \in {"add", "update", "delete"} /\ c.id \in Desktops
  BY RowOfIs
<1>5. /\ c.new = Gone => RowOf(c) = c.old /\ ~ InTable(c.new) /\ EventOf(c) = "delete"
      /\ c.new # Gone => RowOf(c) = c.new /\ InTable(c.new) /\ EventOf(c) # "delete" /\ IsFrontend(c.new.status)
      /\ EventOf(c) = "add" => c.old = Unborn \/ (~ c.old.visible /\ c.new.visible)
      /\ InTable(RowOf(c))
  <2>1. ~ InTable(Gone)
    BY RowOfIs, RowIs
  <2>2. /\ InTable(RowOf(c)) /\ (c.new = Gone => RowOf(c) = c.old)
        /\ c.new # Gone => RowOf(c) = c.new /\ InTable(c.new)
    BY RowOfIs
  <2>3. c.new = Gone => EventOf(c) = "delete"
    BY DEF EventOf
  <2>4. c.new # Gone => EventOf(c) # "delete" /\ IsFrontend(c.new.status)
    BY DEF EventOf
  <2>5. EventOf(c) = "add" => c.old = Unborn \/ (~ c.old.visible /\ c.new.visible)
    BY DEF EventOf
  <2> QED
    BY <2>1, <2>2, <2>3, <2>4, <2>5
<1>6. c.new # Gone => card.state = c.new.status
  BY <1>2, <1>4, <1>5, CardIs
<1>7. /\ hh = <<>> => (\A T : Free(hh, T)) /\ (\A A, U, G : Settled(hh, A, U, G))
      /\ \A h : hh = <<h>> => /\ \A T : Free(hh, T) <=> h \notin T
                              /\ \A A, U, G : Settled(hh, A, U, G) <=> (h \in A => h \in G)
  <2>1. ASSUME hh = <<>> PROVE (\A T : Free(hh, T)) /\ (\A A, U, G : Settled(hh, A, U, G))
    <3>1. (\A T : Free(<<>>, T)) /\ (\A A, U, G : Settled(<<>>, A, U, G))
      BY Zenon, FreeShort, SettledShort
    <3> QED
      BY Zenon, <2>1, <3>1
  <2>2. ASSUME NEW h, hh = <<h>>
        PROVE  /\ \A T : Free(hh, T) <=> h \notin T
               /\ \A A, U, G : Settled(hh, A, U, G) <=> (h \in A => h \in G)
    <3>1. /\ \A T : Free(<<h>>, T) <=> h \notin T
          /\ \A A, U, G : Settled(<<h>>, A, U, G) <=> (h \in A => h \in G)
      BY Zenon, FreeShort, SettledShort
    <3> QED
      BY Zenon, <2>2, <3>1
  <2> QED
    BY Zenon, <2>1, <2>2
<1> HIDE DEF card, e1, e2
<1> DEFINE Tw == Turns(v, d)
           Gw == Turned(v, d, Belongs(v, d, r))
           Nw == News(v, d)
           Uw == Updates(v, d)
           Cw == Current(v, d, Shown(r))
<1>8. CASE c.id # d
  <2>1. /\ e1 \notin Tw.wire /\ e2 \notin Tw.wire /\ e1 \notin Nw.wire /\ e2 \notin Nw.wire
        /\ e1 \notin Uw.wire /\ e2 \notin Uw.wire
    BY <1>2, <1>3, <1>8 DEF Turns, News, Updates
  <2>2. c \notin Tw.queue /\ c \notin Nw.queue /\ c \notin Uw.queue
    BY <1>8 DEF Turns, News, Updates
  <2>3. \A h \in HeldChanges : h.card = card => h \notin Tw.held /\ h \notin Nw.held /\ h \notin Uw.held
    BY <1>2, <1>8 DEF Turns, News, Updates
  <2> HIDE DEF Tw, Gw, Nw, Uw, Cw
  <2>4. /\ Free(ev, Tw.wire) /\ Free(ev, Uw.wire)
        /\ Settled(ev, Tw.wire, Tw.wire, Gw.wire) /\ Settled(ev, Nw.wire, Uw.wire, Cw.wire)
    BY <1>1, <2>1
  <2>5. /\ Free(hh, Tw.held) /\ Free(hh, Uw.held)
        /\ Settled(hh, Tw.held, Tw.held, Gw.held) /\ Settled(hh, Nw.held, Uw.held, Cw.held)
    <3>1. CASE hh = <<>>
      BY <1>7, <3>1
    <3>2. CASE hh # <<>>
      <4>1. PICK h \in HeldChanges : hh = <<h>> /\ h.card = card
        BY <3>2 DEF card
      <4>2. h \notin Tw.held /\ h \notin Nw.held /\ h \notin Uw.held
        BY <2>3, <4>1
      <4> QED
        BY <1>7, <4>1, <4>2
    <3> QED
      BY <3>1, <3>2
  <2>6. StandsFor(c, ev, hh, Tw, Tw, Gw) /\ StandsFor(c, ev, hh, Nw, Uw, Cw) /\ CountsFor(c, ev, hh, Tw) /\ CountsFor(c, ev, hh, Uw)
    BY <2>2, <2>4, <2>5 DEF StandsFor, CountsFor
  <2> QED
    BY <2>6 DEF Tw, Gw, Nw, Uw, Cw, ev
<1>9. CASE c.id = d /\ v = "desktops"
  <2>1. /\ e1 \in Tw.wire <=> EventOf(c) # "update"
        /\ e2 \in Tw.wire /\ e2 \notin Nw.wire /\ e2 \notin Uw.wire
        /\ e1 \in Nw.wire <=> EventOf(c) # "delete"
        /\ e1 \in Uw.wire <=> EventOf(c) = "update"
    BY <1>2, <1>3, <1>9 DEF Turns, News, Updates, Subject
  <2>2. /\ c \in Tw.queue <=> EventOf(c) # "update" \/ Hides(c)
        /\ c \in Nw.queue <=> EventOf(c) # "delete"
        /\ c \in Uw.queue <=> EventOf(c) = "update"
    BY <1>4, <1>9 DEF Turns, News, Updates
  <2>3. Tw.held = {} /\ Nw.held = {} /\ Uw.held = {}
    BY <1>9 DEF Turns, News, Updates
  <2>4. ASSUME c \in Gw.queue, Hides(c) PROVE e2 \in Gw.wire
    <3>1. Seen(d, c.new) <=> Seen(d, r)
      BY <1>9, <2>4 DEF Turned, Belongs
    <3>2. ~ Seen(d, c.new)
      BY <1>5, <1>9, <2>4 DEF Hides, Seen
    <3> QED
      BY <1>2, <1>3, <1>9, <3>1, <3>2 DEF Turned, Belongs
  <2>5. ASSUME c \in Gw.queue, ~ Hides(c), EventOf(c) # "update" PROVE e1 \in Gw.wire
    <3>1. Seen(d, c.new) <=> Seen(d, r)
      BY <1>9, <2>5 DEF Turned, Belongs
    <3>2. CASE EventOf(c) = "delete"
      <4>1. ~ Seen(d, c.new)
        BY <1>5, <3>2 DEF Seen
      <4> QED
        BY <1>2, <1>3, <1>9, <3>1, <3>2, <4>1 DEF Turned, Belongs
    <3>3. CASE EventOf(c) = "add"
      <4>1. RowOf(c) = c.new /\ InTable(c.new)
        BY <1>5, <3>3
      <4>2. Tag[d] = None \/ c.new.visible
        <5>1. ASSUME Tag[d] # None, ~ c.new.visible PROVE FALSE
          <6>1. c.old = Unborn
            BY <1>5, <3>3, <5>1
          <6> QED
            BY <1>9, <2>5, <4>1, <5>1, <6>1 DEF Hides
        <5> QED
          BY <5>1
      <4>3. Seen(d, c.new)
        BY <4>1, <4>2 DEF Seen
      <4> QED
        BY <1>2, <1>3, <1>9, <3>1, <3>3, <4>3 DEF Turned, Belongs
    <3> QED
      BY <1>4, <2>5, <3>2, <3>3
  <2>6. ASSUME c \in Cw.queue, EventOf(c) # "delete" PROVE e1 \in Cw.wire
    <3>1. c.new.status \in Shown(r)
      BY <2>6 DEF Current
    <3>2. card.state = c.new.status
      BY <1>5, <1>6, <2>6
    <3> QED
      BY <1>2, <1>3, <1>9, <3>1, <3>2 DEF Current, Subject
  <2> HIDE DEF Tw, Gw, Nw, Uw, Cw
  <2>7. /\ Free(hh, Tw.held) /\ Free(hh, Uw.held)
        /\ Settled(hh, Tw.held, Tw.held, Gw.held) /\ Settled(hh, Nw.held, Uw.held, Cw.held)
    BY <1>7, <2>3
  <2>8. Free(ev, Tw.wire) <=> c \notin Tw.queue
    BY <1>1, <2>1, <2>2
  <2>9. Free(ev, Uw.wire) <=> c \notin Uw.queue
    BY <1>1, <2>1, <2>2
  <2>10. ASSUME c \in Tw.queue => c \in Gw.queue PROVE Settled(ev, Tw.wire, Tw.wire, Gw.wire)
    BY <1>1, <2>1, <2>2, <2>4, <2>5, <2>10
  <2>11. ASSUME c \in Nw.queue => c \in Cw.queue PROVE Settled(ev, Nw.wire, Uw.wire, Cw.wire)
    BY <1>1, <2>1, <2>2, <2>6, <2>11
  <2>12. StandsFor(c, ev, hh, Tw, Tw, Gw) /\ StandsFor(c, ev, hh, Nw, Uw, Cw) /\ CountsFor(c, ev, hh, Tw) /\ CountsFor(c, ev, hh, Uw)
    BY Zenon, <2>7, <2>8, <2>9, <2>10, <2>11 DEF StandsFor, CountsFor
  <2> QED
    BY <2>12 DEF Tw, Gw, Nw, Uw, Cw, ev
<1>10. CASE c.id = d /\ v = "deployment"
  <2>0. PICK h \in HeldChanges : hh = <<h>> /\ h.card = card /\ h.event = EventOf(c)
    BY <1>10 DEF card
  <2>1. /\ e1 \notin Tw.wire /\ e2 \notin Tw.wire /\ e1 \notin Nw.wire /\ e2 \notin Nw.wire
        /\ e1 \notin Uw.wire /\ e2 \notin Uw.wire
    BY <1>3, <1>10 DEF Turns, News, Updates, Subject
  <2>2. /\ c \in Tw.queue <=> EventOf(c) # "update"
        /\ c \in Nw.queue <=> EventOf(c) # "delete"
        /\ c \in Uw.queue <=> EventOf(c) = "update"
    BY <1>4, <1>10 DEF Turns, News, Updates
  <2>3. /\ h \in Tw.held <=> EventOf(c) # "update"
        /\ h \in Nw.held <=> EventOf(c) # "delete"
        /\ h \in Uw.held <=> EventOf(c) = "update"
    BY <1>2, <1>10, <2>0 DEF Turns, News, Updates
  <2>4. ASSUME c \in Gw.queue, EventOf(c) # "update" PROVE h \in Gw.held
    <3>1. InTable(c.new) <=> InTable(r)
      BY <1>10, <2>4 DEF Turned, Belongs
    <3>2. EventOf(c) = "add" <=> InTable(c.new)
      BY <1>4, <1>5, <2>4
    <3> QED
      BY <1>10, <2>0, <3>1, <3>2 DEF Turned, Belongs
  <2>5. ASSUME c \in Cw.queue, EventOf(c) # "delete" PROVE h \in Cw.held
    <3>1. c.new.status \in Shown(r)
      BY <2>5 DEF Current
    <3>2. card.state = c.new.status
      BY <1>5, <1>6, <2>5
    <3> QED
      BY <2>0, <3>1, <3>2 DEF Current
  <2> HIDE DEF Tw, Gw, Nw, Uw, Cw
  <2>6. /\ Free(ev, Tw.wire) /\ Free(ev, Uw.wire)
        /\ Settled(ev, Tw.wire, Tw.wire, Gw.wire) /\ Settled(ev, Nw.wire, Uw.wire, Cw.wire)
    BY <1>1, <2>1
  <2>7. /\ Free(hh, Tw.held) <=> h \notin Tw.held
        /\ Free(hh, Uw.held) <=> h \notin Uw.held
        /\ Settled(hh, Tw.held, Tw.held, Gw.held) <=> (h \in Tw.held => h \in Gw.held)
        /\ Settled(hh, Nw.held, Uw.held, Cw.held) <=> (h \in Nw.held => h \in Cw.held)
    BY <1>7, <2>0
  <2>8. StandsFor(c, ev, hh, Tw, Tw, Gw) /\ StandsFor(c, ev, hh, Nw, Uw, Cw) /\ CountsFor(c, ev, hh, Tw) /\ CountsFor(c, ev, hh, Uw)
    BY Zenon, <2>2, <2>3, <2>4, <2>5, <2>6, <2>7 DEF StandsFor, CountsFor
  <2> QED
    BY <2>8 DEF Tw, Gw, Nw, Uw, Cw, ev
<1> QED
  BY <1>8, <1>9, <1>10 DEF CardViews

-----------------------------------------------------------------------------
(* What the threads do for the lists of desktops. *)

\* The events about the desktop reach this list: a deployment's only while it is there.
Covered(v, d) == v = "desktops" \/ (Tag[d] # None /\ Exists(Tag[d]))

\* The desktop's line stays right, and so do the lists.
Carried(v, d) ==
    /\ LineRight(v, d) => LineRight(v, d)'
    /\ \A S : \A list \in Seq(S) :
          (row[d] = Unborn => ~ Has(list, d)) /\ ListRight(v, d, list) => ListRight(v, d, list)'

\* It is enough to look at the queues.
LEMMA CarriedIs ==
    ASSUME NEW v, NEW d, row'[d] = row[d],
           Right(wire, domains.held, changes, Turns(v, d), Turns(v, d), Turned(v, d, Belongs(v, d, row[d])))
           => Right(wire', domains'.held, changes', Turns(v, d), Turns(v, d), Turned(v, d, Belongs(v, d, row[d]))),
           Right(wire, domains.held, changes, News(v, d), Updates(v, d), Current(v, d, Shown(row[d])))
           => Right(wire', domains'.held, changes', News(v, d), Updates(v, d), Current(v, d, Shown(row[d]))),
           Clear(wire', domains'.held, changes', Turns(v, d)) => Clear(wire, domains.held, changes, Turns(v, d)),
           Clear(wire', domains'.held, changes', Updates(v, d)) => Clear(wire, domains.held, changes, Updates(v, d))
    PROVE  Carried(v, d)
<1>1. /\ Belongs(v, d, row[d]) = Belongs(v, d, row'[d])
      /\ Shown(row[d]) = Shown(row'[d])
  OBVIOUS
<1>2. LineRight(v, d) => LineRight(v, d)'
  BY <1>1 DEF LineRight, CardLine
<1>3. ASSUME NEW list, ListRight(v, d, list) PROVE ListRight(v, d, list)'
  <2>1. /\ Clear(wire', domains'.held, changes', Turns(v, d)) => (Has(list, d) <=> Belongs(v, d, row'[d]))
        /\ Clear(wire', domains'.held, changes', Updates(v, d)) =>
              \A x \in Range(list) : x.id = d => x.state \in Shown(row'[d])
    BY <1>1, <1>3 DEF ListRight, CardListed
  <2> QED
    BY <2>1 DEF ListRight, CardListed
<1> QED
  BY <1>2, <1>3 DEF Carried

\* Nothing happens to a list, and nothing is missed for it.
Quiet(v) ==
    /\ trust[v] # "missed" /\ trust'[v] = trust[v] /\ store'[v] = store[v]
    /\ asked'[v].step = asked[v].step /\ asked'[v].of = asked[v].of
    /\ asked'[v].list = asked[v].list /\ asked'[v].crossed = asked[v].crossed

LEMMA QuietIs ==
    ASSUME TypeOK, NEW v \in Views, NEW vs, Spoilt(vs), store' = store, trust'[v] # "missed"
    PROVE  v \notin vs /\ Quiet(v)
<1>1. asked[v].crossed \in BOOLEAN
  <2>1. asked \in Each(Fetches)
    BY DEF TypeOK
  <2>2. asked[v] \in Fetches(v)
    BY Zenon, <2>1, EachIs
  <2> QED
    BY <2>2 DEF Fetches
<1> QED
  BY <1>1 DEF Spoilt, Quiet

\* A change is taken.
LEMMA TakeChangeCarries ==
    ASSUME TypeOK, TakeChange, NEW v \in CardViews, NEW d \in Desktops, trust'[v] # "missed", Covered(v, d)
    PROVE  Quiet(v) /\ Carried(v, d)
<1> DEFINE c == Head(changes)
           p == Tag[c.id]
           hh == domains'.held
           r == row[d]
           ev == IF EventOf(c) = "none" THEN <<>> ELSE UserEvents(c)
<1>1. /\ domains.up /\ domains.held = <<>> /\ changes # <<>> /\ c \in Changes /\ changes' = Tail(changes)
      /\ EventOf(c) = "none" => wire' = wire /\ hh = <<>> /\ asked' = asked /\ trust' = trust
      /\ EventOf(c) # "none" =>
            /\ wire' = wire \o (IF online THEN UserEvents(c) ELSE <<>>)
            /\ Spoilt(IF online THEN {} ELSE Views)
            /\ p = None \/ ~ Exists(p) => hh = <<>>
            /\ p # None /\ Exists(p) =>
                  /\ p \in Deployments
                  /\ hh = <<[id |-> p, event |-> EventOf(c), summary |-> Get(p),
                                        late |-> FALSE, card |-> Card(c.id, RowOf(c))]>>
                  /\ domains'.held[1] \in HeldChanges
  BY TakeChangeIs
<1>2. v \in Views /\ wire \in Seq(Events) /\ changes \in Seq(Changes) /\ row' = row
  BY TypesAre DEF CardViews, Views, QueuesTyped, TakeChange
<1>3. EventOf(c) # "none" => online
  BY <1>1, <1>2 DEF Spoilt
<1>4. Quiet(v)
  <2>0. store' = store
    BY DEF TakeChange
  <2>1. CASE EventOf(c) = "none"
    BY <1>1, <2>0, <2>1 DEF Quiet
  <2>2. CASE EventOf(c) # "none"
    <3>1. Spoilt({})
      BY <1>1, <1>3, <2>2
    <3> QED
      BY <1>2, <2>0, <3>1, QuietIs
  <2> QED
    BY <2>1, <2>2
<1>5. ev \in Seq(Events) /\ wire' = wire \o ev
  <2>1. EventOf(c) # "none" => UserEvents(c) \in Seq(Events)
    BY <1>1, EventsAre
  <2>2. wire \o <<>> = wire /\ <<>> \in Seq(Events)
    BY <1>2
  <2>3. CASE EventOf(c) = "none"
    <3>1. ev = <<>> /\ wire' = wire
      BY <1>1, <2>3
    <3> QED
      BY <2>2, <3>1
  <2>4. CASE EventOf(c) # "none"
    <3>1. ev = UserEvents(c)
      BY <2>4
    <3>2. wire' = wire \o UserEvents(c)
      BY <1>1, <1>3, <2>4
    <3> QED
      BY <2>1, <2>4, <3>1, <3>2
  <2> QED
    BY <2>3, <2>4
<1>6. EventOf(c) # "none" =>
         /\ hh = <<>> \/ \E h \in HeldChanges : hh = <<h>> /\ h.card = Card(c.id, RowOf(c)) /\ h.event = EventOf(c)
         /\ v = "deployment" /\ c.id = d => hh # <<>>
  <2> SUFFICES ASSUME EventOf(c) # "none"
               PROVE  /\ hh = <<>> \/ \E h \in HeldChanges : hh = <<h>> /\ h.card = Card(c.id, RowOf(c)) /\ h.event = EventOf(c)
                      /\ v = "deployment" /\ c.id = d => hh # <<>>
    OBVIOUS
  <2>1. CASE p = None \/ ~ Exists(p)
    <3>1. hh = <<>>
      BY <1>1, <2>1
    <3> QED
      BY <2>1, <3>1 DEF Covered
  <2>2. CASE p # None /\ Exists(p)
    <3> DEFINE h == [id |-> p, event |-> EventOf(c), summary |-> Get(p),
                     late |-> FALSE, card |-> Card(c.id, RowOf(c))]
    <3>1. hh = <<h>> /\ hh[1] \in HeldChanges
      BY <1>1, <2>2
    <3>2. h.card = Card(c.id, RowOf(c)) /\ h.event = EventOf(c)
      OBVIOUS
    <3> HIDE DEF h
    <3>3. h \in HeldChanges /\ <<h>> # <<>>
      BY <3>1
    <3> QED
      BY <3>1, <3>2, <3>3
  <2> QED
    BY <2>1, <2>2
<1>7. /\ StandsFor(c, ev, hh, Turns(v, d), Turns(v, d), Turned(v, d, Belongs(v, d, r)))
      /\ StandsFor(c, ev, hh, News(v, d), Updates(v, d), Current(v, d, Shown(r)))
      /\ CountsFor(c, ev, hh, Turns(v, d))
      /\ CountsFor(c, ev, hh, Updates(v, d))
  <2>1. CASE EventOf(c) # "none"
    BY <1>1, <1>6, <2>1, ChangeStands
  <2>2. CASE EventOf(c) = "none"
    <3>1. c \notin Turns(v, d).queue /\ c \notin Updates(v, d).queue
      BY <2>2 DEF Turns, Updates
    <3>2. (\A T : Free(<<>>, T)) /\ (\A A, U, G : Settled(<<>>, A, U, G))
      BY FreeShort, SettledShort
    <3>3. ev = <<>> /\ hh = <<>>
      BY <1>1, <2>2
    <3> QED
      BY Zenon, <3>1, <3>2, <3>3 DEF StandsFor, CountsFor
  <2> QED
    BY <2>1, <2>2
<1> HIDE DEF ev, hh, r, c
<1>8. /\ \A T : CountsFor(c, ev, hh, T) => (Clear(wire, <<>>, changes, T) <=> Clear(wire \o ev, hh, Tail(changes), T))
      /\ \A A, U, G : StandsFor(c, ev, hh, A, U, G) /\ Right(wire, <<>>, changes, A, U, G)
                         => Right(wire \o ev, hh, Tail(changes), A, U, G)
  BY <1>1, <1>2, <1>5, Taken DEF c
<1>9. /\ Right(wire, domains.held, changes, Turns(v, d), Turns(v, d), Turned(v, d, Belongs(v, d, r)))
           => Right(wire', hh, changes', Turns(v, d), Turns(v, d), Turned(v, d, Belongs(v, d, r)))
      /\ Right(wire, domains.held, changes, News(v, d), Updates(v, d), Current(v, d, Shown(r)))
           => Right(wire', hh, changes', News(v, d), Updates(v, d), Current(v, d, Shown(r)))
      /\ Clear(wire', hh, changes', Turns(v, d)) => Clear(wire, domains.held, changes, Turns(v, d))
      /\ Clear(wire', hh, changes', Updates(v, d)) => Clear(wire, domains.held, changes, Updates(v, d))
  BY <1>1, <1>5, <1>7, <1>8
<1>10. Carried(v, d)
  BY <1>2, <1>9, CarriedIs DEF hh, r
<1> QED
  BY <1>4, <1>10

\* The queues of DomainsThread are as they were.
LEMMA StillCarries ==
    ASSUME NEW v, NEW d, row'[d] = row[d], wire' = wire, domains'.held = domains.held, changes' = changes
    PROVE  Carried(v, d)
  BY CarriedIs

\* What DomainsThread tells stands for what it held.
LEMMA ToldStands ==
    ASSUME NEW h \in HeldChanges, NEW v \in CardViews, NEW d, NEW b, NEW S
    PROVE  /\ h \notin Turns(v, d).held <=> Free(ToldEvents(h), Turns(v, d).wire)
           /\ h \notin Updates(v, d).held <=> Free(ToldEvents(h), Updates(v, d).wire)
           /\ (h \in Turns(v, d).held => h \in Turned(v, d, b).held)
                 => Settled(ToldEvents(h), Turns(v, d).wire, Turns(v, d).wire, Turned(v, d, b).wire)
           /\ (h \in News(v, d).held => h \in Current(v, d, S).held)
                 => Settled(ToldEvents(h), News(v, d).wire, Updates(v, d).wire, Current(v, d, S).wire)
<1> DEFINE e1 == Event("deploymentdesktop", h.event, h.card)
           e2 == Event("deployments", "update", h.summary)
           ev == ToldEvents(h)
<1>1. h.event \in {"add", "update", "delete"} /\ h.card \in Cards /\ h.summary \in Summaries
  BY DEF HeldChanges
<1>2. /\ e1 \in Events /\ e1.subject = "deploymentdesktop" /\ e1.what = h.event /\ e1.data = h.card
      /\ e2 \in Events /\ e2.subject = "deployments"
  BY <1>1 DEF Event, Events
<1> HIDE DEF e1, e2
<1>3. ev = <<e1>> \o <<e2>>
  BY <1>2, TwoAre DEF ToldEvents, e1, e2
<1>8. ASSUME NEW T PROVE Free(ev, T) <=> e1 \notin T /\ e2 \notin T
  <2>1. Free(<<e1>> \o <<e2>>, T) <=> e1 \notin T /\ e2 \notin T
    BY <1>2, TwoAre
  <2> QED
    BY <1>3, <2>1
<1>9. ASSUME NEW A, NEW U, NEW G
      PROVE  Settled(ev, A, U, G) <=> (e2 \in A => e2 \in G) /\ (e2 \notin U => (e1 \in A => e1 \in G))
  <2>1. Settled(<<e1>> \o <<e2>>, A, U, G) <=> (e2 \in A => e2 \in G) /\ (e2 \notin U => (e1 \in A => e1 \in G))
    BY <1>2, TwoAre
  <2> QED
    BY <1>3, <2>1
<1> HIDE DEF ev
<1>5. e2 \notin Turns(v, d).wire /\ e2 \notin News(v, d).wire /\ e2 \notin Updates(v, d).wire
  BY <1>2 DEF Turns, News, Updates, Subject
<1>6. /\ e1 \in Turns(v, d).wire <=> h \in Turns(v, d).held
      /\ e1 \in News(v, d).wire <=> h \in News(v, d).held
      /\ e1 \in Updates(v, d).wire <=> h \in Updates(v, d).held
  <2>1. v = "deployment" <=> Subject(v) = "deploymentdesktop"
    BY DEF Subject, CardViews
  <2>2. h \in HeldChanges
    OBVIOUS
  <2>3. e1 \in Turns(v, d).wire <=> h \in Turns(v, d).held
    BY <1>2, <2>1, <2>2 DEF Turns
  <2>4. e1 \in News(v, d).wire <=> h \in News(v, d).held
    BY <1>2, <2>1, <2>2 DEF News
  <2>5. e1 \in Updates(v, d).wire <=> h \in Updates(v, d).held
    BY <1>2, <2>1, <2>2 DEF Updates
  <2> QED
    BY <2>3, <2>4, <2>5
<1>7. /\ h \in Turned(v, d, b).held => e1 \in Turned(v, d, b).wire
      /\ h \in News(v, d).held /\ h \in Current(v, d, S).held => e1 \in Current(v, d, S).wire
  BY <1>2 DEF Turned, Current, Subject, News
<1>10. /\ h \notin Turns(v, d).held <=> Free(ev, Turns(v, d).wire)
       /\ h \notin Updates(v, d).held <=> Free(ev, Updates(v, d).wire)
  BY <1>5, <1>6, <1>8
<1>11. /\ (h \in Turns(v, d).held => h \in Turned(v, d, b).held)
                 => Settled(ev, Turns(v, d).wire, Turns(v, d).wire, Turned(v, d, b).wire)
       /\ (h \in News(v, d).held => h \in Current(v, d, S).held)
                 => Settled(ev, News(v, d).wire, Updates(v, d).wire, Current(v, d, S).wire)
  BY <1>5, <1>6, <1>7, <1>9
<1> QED
  BY <1>10, <1>11 DEF ev

LEMMA TellDeploymentCarries ==
    ASSUME TypeOK, TellDeployment, NEW v \in CardViews, NEW d \in Desktops, trust'[v] # "missed"
    PROVE  Quiet(v) /\ Carried(v, d)
<1> DEFINE h == domains.held[1]
           ev == ToldEvents(h)
           b == Belongs(v, d, row[d])
           S == Shown(row[d])
<1>1. /\ domains.held = <<h>> /\ h \in HeldChanges /\ domains'.held = <<>>
      /\ ev \in Seq(Events)
      /\ wire' = wire \o (IF online THEN ev ELSE <<>>)
      /\ Spoilt(IF online THEN IF h.late THEN {"deployments"} ELSE {} ELSE Views)
  BY TellDeploymentIs
<1>2. v \in Views /\ wire \in Seq(Events) /\ row' = row /\ changes' = changes /\ store' = store
  BY TypesAre DEF CardViews, Views, QueuesTyped, TellDeployment, tables
<1> HIDE DEF h, ev, b, S
<1>3. Quiet(v) /\ online
  BY <1>1, <1>2, QuietIs
<1>4. wire' = wire \o ev
  BY <1>1, <1>3
<1>5. /\ h \notin Turns(v, d).held <=> Free(ev, Turns(v, d).wire)
      /\ h \notin Updates(v, d).held <=> Free(ev, Updates(v, d).wire)
      /\ (h \in Turns(v, d).held => h \in Turned(v, d, b).held)
            => Settled(ev, Turns(v, d).wire, Turns(v, d).wire, Turned(v, d, b).wire)
      /\ (h \in News(v, d).held => h \in Current(v, d, S).held)
            => Settled(ev, News(v, d).wire, Updates(v, d).wire, Current(v, d, S).wire)
  BY <1>1, ToldStands DEF ev
<1>6. \A T : (h \notin T.held <=> Free(ev, T.wire)) => (Clear(wire, <<h>>, changes, T) <=> Clear(wire \o ev, <<>>, changes, T))
  BY <1>1, <1>2, Told
<1>7. \A A, U, G :
        /\ h \notin U.held <=> Free(ev, U.wire)
        /\ (h \in A.held => h \in G.held) => Settled(ev, A.wire, U.wire, G.wire)
        /\ Right(wire, <<h>>, changes, A, U, G)
        => Right(wire \o ev, <<>>, changes, A, U, G)
  BY <1>1, <1>2, Told
<1>8. /\ Right(wire, <<h>>, changes, Turns(v, d), Turns(v, d), Turned(v, d, b))
           => Right(wire \o ev, <<>>, changes, Turns(v, d), Turns(v, d), Turned(v, d, b))
      /\ Right(wire, <<h>>, changes, News(v, d), Updates(v, d), Current(v, d, S))
           => Right(wire \o ev, <<>>, changes, News(v, d), Updates(v, d), Current(v, d, S))
      /\ Clear(wire \o ev, <<>>, changes, Turns(v, d)) => Clear(wire, <<h>>, changes, Turns(v, d))
      /\ Clear(wire \o ev, <<>>, changes, Updates(v, d)) => Clear(wire, <<h>>, changes, Updates(v, d))
  BY <1>5, <1>6, <1>7
<1>9. Carried(v, d)
  BY <1>1, <1>2, <1>4, <1>8, CarriedIs DEF b, S
<1> QED
  BY <1>3, <1>9

\* Events about deployments only.
Foreign(ev) == \A i \in 1 .. Len(ev) : ev[i].subject \in {"deployments", "deployment"}
LEMMA ForeignIsFree ==
    ASSUME NEW ev, Foreign(ev), NEW v, NEW d
    PROVE  /\ Free(ev, Turns(v, d).wire) /\ Free(ev, News(v, d).wire) /\ Free(ev, Updates(v, d).wire)
           /\ Free(ev, About(d).wire)
<1>1. ASSUME NEW i \in 1 .. Len(ev)
      PROVE  ev[i] \notin Turns(v, d).wire /\ ev[i] \notin News(v, d).wire /\ ev[i] \notin Updates(v, d).wire
             /\ ev[i] \notin About(d).wire
  BY DEF Foreign, Turns, News, Updates, About, Subject
<1> QED
  BY <1>1 DEF Free

LEMMA ToldAreForeign ==
    /\ \A p : Foreign(GoneEvents(p))
    /\ \A h \in HeldDepChanges : Foreign(ToldOf(h))
<1>1. ASSUME NEW p PROVE Foreign(GoneEvents(p))
  BY DEF Foreign, GoneEvents, Event
<1>2. ASSUME NEW h \in HeldDepChanges PROVE Foreign(ToldOf(h))
  <2> DEFINE e1 == Event("deployment", "update", h.summary)
             e2 == Event("deployments", h.event, h.summary)
  <2>1. e1.subject = "deployment" /\ e2.subject = "deployments"
    BY DEF Event
  <2> HIDE DEF e1, e2
  <2>2. CASE h.event = "update"
    <3>1. ToldOf(h) = <<e1>> \o <<e2>>
      BY <2>2 DEF ToldOf, e1, e2
    <3> DEFINE q == <<e1>> \o <<e2>>
    <3>2. Len(q) = 2 /\ q[1] = e1 /\ q[2] = e2
      OBVIOUS
    <3> HIDE DEF q
    <3>3. \A i \in 1 .. Len(q) : i = 1 \/ i = 2
      BY <3>2
    <3>4. Foreign(q)
      BY <2>1, <3>2, <3>3 DEF Foreign
    <3> QED
      BY <3>1, <3>4 DEF q
  <2>3. CASE h.event # "update"
    <3>1. ToldOf(h) = <<>> \o <<e2>>
      BY <2>3 DEF ToldOf, e2
    <3> DEFINE q == <<>> \o <<e2>>
    <3>2. Len(q) = 1 /\ q[1] = e2
      OBVIOUS
    <3> HIDE DEF q
    <3>3. \A i \in 1 .. Len(q) : i = 1
      BY <3>2
    <3>4. Foreign(q)
      BY <2>1, <3>2, <3>3 DEF Foreign
    <3> QED
      BY <3>1, <3>4 DEF q
  <2> QED
    BY <2>2, <2>3
<1> QED
  BY <1>1, <1>2

\* What is held stays what it is about when it is overtaken.
LEMMA LateStands ==
    ASSUME NEW h \in HeldChanges, NEW s, NEW v, NEW d, NEW b, NEW S
    PROVE  LET k == Late(h, s) IN
           /\ h \in Turns(v, d).held <=> k \in Turns(v, d).held
           /\ h \in News(v, d).held <=> k \in News(v, d).held
           /\ h \in Updates(v, d).held <=> k \in Updates(v, d).held
           /\ h \in About(d).held <=> k \in About(d).held
           /\ h \in Turned(v, d, b).held <=> k \in Turned(v, d, b).held
           /\ h \in Current(v, d, S).held <=> k \in Current(v, d, S).held
<1> DEFINE k == Late(h, s)
<1>1. k \in HeldChanges /\ k.card = h.card /\ k.event = h.event
  BY LateIs
<1> HIDE DEF k
<1>2. /\ h \in Turns(v, d).held <=> k \in Turns(v, d).held
      /\ h \in News(v, d).held <=> k \in News(v, d).held
      /\ h \in Updates(v, d).held <=> k \in Updates(v, d).held
  BY <1>1 DEF Turns, News, Updates
<1>3. /\ h \in About(d).held <=> k \in About(d).held
      /\ h \in Turned(v, d, b).held <=> k \in Turned(v, d, b).held
      /\ h \in Current(v, d, S).held <=> k \in Current(v, d, S).held
  BY <1>1 DEF About, Turned, Current
<1> QED
  BY <1>2, <1>3 DEF k

\* Events about deployments come, and what is held may be overtaken.
LEMMA ForeignCarries ==
    ASSUME TypeOK, NEW ev \in Seq(Events), Foreign(ev), wire' = wire \o ev, changes' = changes,
           NEW v, NEW d, row'[d] = row[d],
           \/ domains'.held = domains.held
           \/ \E h \in HeldChanges : \E s : domains.held = <<h>> /\ domains'.held = <<Late(h, s)>>
    PROVE  Carried(v, d)
<1> DEFINE b == Belongs(v, d, row[d])
           S == Shown(row[d])
<1>1. wire \in Seq(Events)
  BY TypesAre DEF QueuesTyped
<1>2. /\ Free(ev, Turns(v, d).wire) /\ Free(ev, News(v, d).wire) /\ Free(ev, Updates(v, d).wire)
  BY ForeignIsFree
<1> HIDE DEF b, S
<1>3. \A T : Free(ev, T.wire) => (Clear(wire, domains.held, changes, T) <=> Clear(wire', domains.held, changes, T))
  BY <1>1, OthersEmit
<1>4. \A A, U, G : Free(ev, A.wire) /\ Free(ev, U.wire) /\ Right(wire, domains.held, changes, A, U, G)
                      => Right(wire', domains.held, changes, A, U, G)
  BY <1>1, OthersEmit
<1>5. /\ Right(wire', domains.held, changes, Turns(v, d), Turns(v, d), Turned(v, d, b))
           => Right(wire', domains'.held, changes, Turns(v, d), Turns(v, d), Turned(v, d, b))
      /\ Right(wire', domains.held, changes, News(v, d), Updates(v, d), Current(v, d, S))
           => Right(wire', domains'.held, changes, News(v, d), Updates(v, d), Current(v, d, S))
      /\ Clear(wire', domains'.held, changes, Turns(v, d)) => Clear(wire', domains.held, changes, Turns(v, d))
      /\ Clear(wire', domains'.held, changes, Updates(v, d)) => Clear(wire', domains.held, changes, Updates(v, d))
  <2>1. CASE domains'.held = domains.held
    BY <2>1
  <2>2. ASSUME NEW h \in HeldChanges, NEW s, domains.held = <<h>>, domains'.held = <<Late(h, s)>>
        PROVE  <1>5!1 /\ <1>5!2 /\ <1>5!3 /\ <1>5!4
    <3> DEFINE k == Late(h, s)
    <3>1. /\ h \in Turns(v, d).held <=> k \in Turns(v, d).held
          /\ h \in News(v, d).held <=> k \in News(v, d).held
          /\ h \in Updates(v, d).held <=> k \in Updates(v, d).held
          /\ h \in Turned(v, d, b).held <=> k \in Turned(v, d, b).held
          /\ h \in Current(v, d, S).held <=> k \in Current(v, d, S).held
      BY LateStands
    <3> HIDE DEF k
    <3>2. \A T : (h \in T.held <=> k \in T.held) =>
             (Clear(wire', <<h>>, changes, T) <=> Clear(wire', <<k>>, changes, T))
      BY Replaced
    <3>3. \A A, U, G :
             /\ h \in U.held <=> k \in U.held
             /\ (h \in A.held => h \in G.held) => (k \in A.held => k \in G.held)
             /\ Right(wire', <<h>>, changes, A, U, G)
             => Right(wire', <<k>>, changes, A, U, G)
      BY Replaced
    <3>4. /\ Right(wire', <<h>>, changes, Turns(v, d), Turns(v, d), Turned(v, d, b))
               => Right(wire', <<k>>, changes, Turns(v, d), Turns(v, d), Turned(v, d, b))
          /\ Right(wire', <<h>>, changes, News(v, d), Updates(v, d), Current(v, d, S))
               => Right(wire', <<k>>, changes, News(v, d), Updates(v, d), Current(v, d, S))
      BY <3>1, <3>3
    <3>5. /\ Clear(wire', <<k>>, changes, Turns(v, d)) => Clear(wire', <<h>>, changes, Turns(v, d))
          /\ Clear(wire', <<k>>, changes, Updates(v, d)) => Clear(wire', <<h>>, changes, Updates(v, d))
      BY <3>1, <3>2
    <3> QED
      BY <2>2, <3>4, <3>5 DEF k
  <2> QED
    BY <2>1, <2>2
<1>6. /\ Right(wire, domains.held, changes, Turns(v, d), Turns(v, d), Turned(v, d, b))
           => Right(wire', domains'.held, changes, Turns(v, d), Turns(v, d), Turned(v, d, b))
      /\ Right(wire, domains.held, changes, News(v, d), Updates(v, d), Current(v, d, S))
           => Right(wire', domains'.held, changes, News(v, d), Updates(v, d), Current(v, d, S))
      /\ Clear(wire', domains'.held, changes, Turns(v, d)) => Clear(wire, domains.held, changes, Turns(v, d))
      /\ Clear(wire', domains'.held, changes, Updates(v, d)) => Clear(wire, domains.held, changes, Updates(v, d))
  BY <1>2, <1>3, <1>4, <1>5
<1> QED
  BY <1>6, CarriedIs DEF b, S

\* DeploymentsThread takes a change.
LEMMA TakeDepChangeCarries ==
    ASSUME TypeOK, TakeDepChange, NEW v \in CardViews, NEW d \in Desktops, trust'[v] # "missed"
    PROVE  Quiet(v) /\ Carried(v, d)
<1> DEFINE c == Head(depChanges)
<1>1. /\ c \in DepChanges
      /\ c.event = "delete" =>
            /\ GoneEvents(c.id) \in Seq(Events)
            /\ wire' = wire \o (IF online THEN GoneEvents(c.id) ELSE <<>>) /\ deployments'.held = <<>>
            /\ Spoilt(IF online THEN {} ELSE Views)
      /\ c.event # "delete" /\ Exists(c.id) => wire' = wire /\ asked' = asked /\ trust' = trust
      /\ c.event # "delete" /\ ~ Exists(c.id) => wire' = wire /\ Spoilt({"deployment", "deployments"})
  BY TakeDepChangeIs
<1>2. /\ v \in Views /\ wire \in Seq(Events) /\ store' = store
      /\ row' = row /\ changes' = changes /\ domains' = domains
  BY TypesAre DEF CardViews, Views, QueuesTyped, TakeDepChange
<1> HIDE DEF c
<1>3. CASE c.event = "delete"
  <2>1. Quiet(v) /\ online
    BY <1>1, <1>2, <1>3, QuietIs
  <2>2. wire' = wire \o GoneEvents(c.id) /\ GoneEvents(c.id) \in Seq(Events) /\ Foreign(GoneEvents(c.id))
    BY <1>1, <1>3, <2>1, ToldAreForeign
  <2>3. Carried(v, d)
    BY <1>2, <2>2, ForeignCarries
  <2> QED
    BY <2>1, <2>3
<1>4. CASE c.event # "delete"
  <2>1. wire' = wire
    BY <1>1, <1>4
  <2>2. Carried(v, d)
    BY <1>2, <2>1, StillCarries
  <2>3. Quiet(v)
    <3>1. CASE Exists(c.id)
      BY <1>1, <1>2, <1>4, <3>1 DEF Quiet
    <3>2. CASE ~ Exists(c.id)
      BY <1>1, <1>2, <1>4, <3>2, QuietIs
    <3> QED
      BY <3>1, <3>2
  <2> QED
    BY <2>2, <2>3
<1> QED
  BY <1>3, <1>4

\* DeploymentsThread tells what it holds.
LEMMA TellDeploymentsCarries ==
    ASSUME TypeOK, TellDeployments, NEW v \in CardViews, NEW d \in Desktops, trust'[v] # "missed"
    PROVE  Quiet(v) /\ Carried(v, d)
<1> DEFINE h == deployments.held[1]
<1>1. /\ h \in HeldDepChanges /\ ToldOf(h) \in Seq(Events)
      /\ wire' = wire \o (IF online THEN ToldOf(h) ELSE <<>>)
      /\ Spoilt(IF online THEN IF h.late THEN {"deployments"} ELSE {} ELSE Views)
      /\ domains' = Overtaken(domains, h.summary)
  BY TellDeploymentsIs
<1>2. /\ v \in Views /\ wire \in Seq(Events) /\ store' = store
      /\ row' = row /\ changes' = changes /\ domains \in Threads(HeldChanges)
  BY TypesAre DEF CardViews, Views, QueuesTyped, TellDeployments, tables
<1> HIDE DEF h
<1>3. Quiet(v) /\ online
  BY <1>1, <1>2, QuietIs
<1>4. wire' = wire \o ToldOf(h) /\ Foreign(ToldOf(h))
  BY <1>1, <1>3, ToldAreForeign
<1>5. \/ domains'.held = domains.held
      \/ \E k \in HeldChanges : \E s : domains.held = <<k>> /\ domains'.held = <<Late(k, s)>>
  <2>1. /\ domains.held = <<>> => Overtaken(domains, h.summary).held = <<>>
        /\ domains.held # <<>> => Overtaken(domains, h.summary).held = <<Late(domains.held[1], h.summary)>>
    BY <1>2, OvertakenIs
  <2>2. domains.held = <<>> \/ (domains.held = <<domains.held[1]>> /\ domains.held[1] \in HeldChanges /\ domains.held # <<>>)
    BY <1>2, HeldIs
  <2> QED
    BY <1>1, <2>1, <2>2
<1>6. Carried(v, d)
  BY <1>1, <1>2, <1>4, <1>5, ForeignCarries
<1> QED
  BY <1>3, <1>6

\* A feed or the socket is lost, or opened again.
LEMMA FaultsCarry ==
    ASSUME TypeOK, Idle, Faults, NEW v \in CardViews, NEW d \in Desktops, trust'[v] # "missed"
    PROVE  Quiet(v) /\ Carried(v, d)
<1>1. /\ UNCHANGED <<row, dep, removed, page, store>>
      /\ \/ /\ changes' = <<>> /\ domains'.held = <<>> /\ UNCHANGED <<depChanges, deployments, wire>>
            /\ Spoilt(IF changes = <<>> /\ domains.held = <<>> THEN {} ELSE Views)
         \/ /\ depChanges' = <<>> /\ deployments'.held = <<>> /\ UNCHANGED <<changes, domains, wire>>
            /\ Spoilt(IF depChanges = <<>> /\ deployments.held = <<>> THEN {} ELSE {"deployment", "deployments"})
         \/ /\ wire' = <<>> /\ UNCHANGED <<changes, domains, depChanges, deployments>>
            /\ Spoilt(IF wire = <<>> THEN {} ELSE Views)
         \/ /\ UNCHANGED <<changes, depChanges, wire, asked, trust>>
            /\ domains'.held = domains.held /\ deployments'.held = deployments.held
  BY FaultsAre
<1>2. v \in Views
  BY DEF CardViews, Views
<1>3. /\ Quiet(v) /\ wire' = wire /\ changes' = changes /\ domains'.held = domains.held
  <2>1. CASE /\ changes' = <<>> /\ domains'.held = <<>> /\ UNCHANGED <<depChanges, deployments, wire>>
             /\ Spoilt(IF changes = <<>> /\ domains.held = <<>> THEN {} ELSE Views)
    <3>1. Quiet(v) /\ changes = <<>> /\ domains.held = <<>>
      BY <1>1, <1>2, <2>1, QuietIs
    <3> QED
      BY <2>1, <3>1
  <2>2. CASE /\ depChanges' = <<>> /\ deployments'.held = <<>> /\ UNCHANGED <<changes, domains, wire>>
             /\ Spoilt(IF depChanges = <<>> /\ deployments.held = <<>> THEN {} ELSE {"deployment", "deployments"})
    BY <1>1, <1>2, <2>2, QuietIs
  <2>3. CASE /\ wire' = <<>> /\ UNCHANGED <<changes, domains, depChanges, deployments>>
             /\ Spoilt(IF wire = <<>> THEN {} ELSE Views)
    <3>1. Quiet(v) /\ wire = <<>>
      BY <1>1, <1>2, <2>3, QuietIs
    <3> QED
      BY <2>3, <3>1
  <2>4. CASE /\ UNCHANGED <<changes, depChanges, wire, asked, trust>>
             /\ domains'.held = domains.held /\ deployments'.held = deployments.held
    BY <1>1, <2>4 DEF Quiet
  <2> QED
    BY <1>1, <2>1, <2>2, <2>3, <2>4
<1> QED
  BY <1>1, <1>3, StillCarries

-----------------------------------------------------------------------------
(* What is not inserted yet. *)

\* Nothing is about a desktop before it is inserted, nor does a list have it.
UnbornRows == \A d \in Desktops : row[d] = Unborn => Nowhere(d) /\ Lists4(d)

\* The lists and the answers that are on their way stay.
Untouched ==
    /\ store' = store
    /\ \A v \in Views : asked'[v].step = asked[v].step /\ asked'[v].list = asked[v].list

LEMMA SpoilsOnly ==
    ASSUME TypeOK, Idle, RowStep \/ DepStep \/ OtherStep \/ DomainsThread \/ DeploymentsThread \/ Faults
    PROVE  store' = store /\ ((asked' = asked /\ trust' = trust) \/ \E vs : Spoilt(vs))
<1>1. CASE RowStep
  <2>1. PICK new \in [Desktops -> Rows] : RowMoves(new) /\ UpdateRows(new)
    BY <1>1 DEF RowStep
  <2>2. Spoilt(Untold(new))
    BY <2>1, RowsSpoil
  <2> QED
    BY <1>1, <2>2 DEF RowStep
<1>2. CASE DepStep
  <2>1. PICK p \in Deployments, new \in DepRows, event \in {"none", "add", "update", "delete"} :
           DepMoves(p, new, event) /\ UpdateDep(p, new, event)
    BY <1>2 DEF DepStep
  <2>2. Spoilt(IF deployments.up \/ event = "none" THEN {} ELSE {"deployment", "deployments"})
    BY <2>1, QueuedDeps
  <2> QED
    BY <1>2, <2>2 DEF DepStep
<1>3. CASE OtherStep
  BY <1>3 DEF OtherStep
<1>4. CASE TakeChange
  <2>1. store' = store
    BY <1>4 DEF TakeChange
  <2>2. (asked' = asked /\ trust' = trust) \/ Spoilt(IF online THEN {} ELSE Views)
    BY <1>4, TakeChangeIs
  <2> QED
    BY <2>1, <2>2
<1>5. CASE TellDeployment
  <2>1. store' = store
    BY <1>5 DEF TellDeployment
  <2>2. Spoilt(IF online THEN IF domains.held[1].late THEN {"deployments"} ELSE {} ELSE Views)
    BY <1>5, TellDeploymentIs
  <2> QED
    BY <2>1, <2>2
<1>6. CASE TakeDepChange
  <2>1. store' = store
    BY <1>6 DEF TakeDepChange
  <2>2. \/ asked' = asked /\ trust' = trust
        \/ Spoilt(IF online THEN {} ELSE Views)
        \/ Spoilt({"deployment", "deployments"})
    BY <1>6, TakeDepChangeIs
  <2> QED
    BY <2>1, <2>2
<1>7. CASE TellDeployments
  <2>1. store' = store
    BY <1>7 DEF TellDeployments
  <2>2. Spoilt(IF online THEN IF deployments.held[1].late THEN {"deployments"} ELSE {} ELSE Views)
    BY <1>7, TellDeploymentsIs
  <2> QED
    BY <2>1, <2>2
<1>8. CASE Faults
  BY <1>8, FaultsAre
<1> QED
  BY <1>1, <1>2, <1>3, <1>4, <1>5, <1>6, <1>7, <1>8 DEF DomainsThread, DeploymentsThread

LEMMA UntouchedIs ==
    ASSUME TypeOK, Idle, RowStep \/ DepStep \/ OtherStep \/ DomainsThread \/ DeploymentsThread \/ Faults
    PROVE  Untouched
<1>1. store' = store /\ ((asked' = asked /\ trust' = trust) \/ \E vs : Spoilt(vs))
  BY SpoilsOnly
<1>2. ASSUME NEW vs, Spoilt(vs) PROVE \A v \in Views : asked'[v].step = asked[v].step /\ asked'[v].list = asked[v].list
  BY <1>2 DEF Spoilt
<1> QED
  BY <1>1, <1>2 DEF Untouched

LEMMA StepQuiet ==
    ASSUME TypeOK, Idle, RowStep \/ DepStep \/ OtherStep \/ DomainsThread \/ DeploymentsThread \/ Faults,
           NEW v \in Views, trust'[v] # "missed"
    PROVE  Quiet(v)
<1>1. store' = store /\ ((asked' = asked /\ trust' = trust) \/ \E vs : Spoilt(vs))
  BY SpoilsOnly
<1>2. ASSUME NEW vs, Spoilt(vs) PROVE Quiet(v)
  BY <1>1, <1>2, QuietIs
<1> QED
  BY <1>1, <1>2 DEF Quiet

LEMMA UntouchedLists ==
    ASSUME Untouched, NEW d, Lists4(d)
    PROVE  Lists4(d)'
  BY DEF Untouched, Lists4, Views

\* Nothing about a desktop comes to be where nothing was.
LEMMA RowsNowhere ==
    ASSUME TypeOK, RowStep, NEW d \in Desktops, row'[d] = Unborn, Nowhere(d)
    PROVE  row[d] = Unborn /\ Nowhere(d)'
<1>1. PICK new \in [Desktops -> Rows] : RowMoves(new) /\ UpdateRows(new)
  BY DEF RowStep
<1>2. row' = new
  BY <1>1, QueuedRows
<1>3. PICK cs \in Seq(Changes) :
         /\ changes' = IF domains.up THEN changes \o cs ELSE changes
         /\ \A i \in 1 .. Len(cs) :
               /\ cs[i].id \in Desktops /\ new[cs[i].id] # row[cs[i].id]
               /\ cs[i].old = row[cs[i].id] /\ cs[i].new = new[cs[i].id]
  BY <1>1, QueuedRows
<1>4. wire' = wire /\ domains' = domains /\ changes \in Seq(Changes)
  BY DEF RowStep, TypeOK
<1>5. new[d] = row[d]
  <2>1. ~ InTable(Unborn) /\ Unborn # Gone
    BY RowIs DEF Rows
  <2> HIDE DEF Unborn, Gone
  <2> QED
    BY <1>1, <1>2, <2>1 DEF RowMoves
<1>6. Clear(wire, domains.held, changes \o cs, About(d)) <=> Clear(wire, domains.held, changes, About(d))
  <2>1. \A i \in 1 .. Len(cs) : cs[i].id # d
    BY <1>3, <1>5
  <2>2. \A x \in About(d).queue : x.id = d
    BY QueuesAbout
  <2> QED
    BY <1>4, <2>1, <2>2, NoneQueued
<1> QED
  BY <1>2, <1>3, <1>4, <1>5, <1>6 DEF Nowhere

LEMMA TakeChangeNowhere ==
    ASSUME TypeOK, TakeChange, NEW d \in Desktops, Nowhere(d)
    PROVE  Nowhere(d)'
<1> DEFINE c == Head(changes)
           hh == domains'.held
           T == About(d)
<1>1. /\ domains.held = <<>> /\ changes # <<>> /\ c \in Changes /\ changes' = Tail(changes)
      /\ EventOf(c) = "none" => wire' = wire /\ hh = <<>>
      /\ EventOf(c) # "none" =>
            /\ wire' = wire \o (IF online THEN UserEvents(c) ELSE <<>>)
            /\ hh = <<>> \/ \E h : hh = <<h>> /\ h.card = Card(c.id, RowOf(c))
  <2>1. EventOf(c) # "none" => hh = <<>> \/ \E h : hh = <<h>> /\ h.card = Card(c.id, RowOf(c))
    <3> DEFINE h == [id |-> Tag[c.id], event |-> EventOf(c), summary |-> Get(Tag[c.id]),
                     late |-> FALSE, card |-> Card(c.id, RowOf(c))]
    <3>1. EventOf(c) # "none" => hh = <<>> \/ hh = <<h>>
      BY TakeChangeIs
    <3>2. h.card = Card(c.id, RowOf(c))
      OBVIOUS
    <3> HIDE DEF h
    <3> QED
      BY <3>1, <3>2
  <2> QED
    BY <2>1, TakeChangeIs
<1>2. wire \in Seq(Events) /\ changes \in Seq(Changes)
  BY TypesAre DEF QueuesTyped
<1> HIDE DEF c, hh
<1>3. Head(changes) \notin T.queue
  <2>1. 1 \in 1 .. Len(changes) /\ changes[1] = Head(changes)
    BY <1>1, <1>2
  <2> QED
    BY <2>1 DEF Nowhere, Clear, Free
<1>4. c.id # d /\ Card(c.id, RowOf(c)).id = c.id
  BY <1>1, <1>3 DEF About, c, Card
<1> DEFINE ev == IF EventOf(c) = "none" \/ ~ online THEN <<>> ELSE UserEvents(c)
<1>5. wire' = wire \o ev /\ ev \in Seq(Events) /\ Free(ev, T.wire)
  <2>1. CASE EventOf(c) = "none" \/ ~ online
    <3>1. ev = <<>> /\ wire \o <<>> = wire /\ <<>> \in Seq(Events) /\ Free(<<>>, T.wire)
      BY <1>2, <2>1, FreeShort
    <3>2. EventOf(c) # "none" => wire' = wire \o <<>>
      BY <1>1, <2>1
    <3> QED
      BY <1>1, <3>1, <3>2
  <2>2. CASE EventOf(c) # "none" /\ online
    <3> DEFINE e1 == Event("desktop", EventOf(c), Card(c.id, RowOf(c)))
               e2 == Event("desktop", "delete", Card(c.id, RowOf(c)))
    <3>1. Free(UserEvents(c), T.wire) <=> e1 \notin T.wire /\ (Hides(c) => e2 \notin T.wire)
      BY <1>1, <2>2, UserEventsAre
    <3>2. e1.data.id # d /\ e2.data.id # d
      BY <1>4 DEF Event
    <3> HIDE DEF e1, e2
    <3>3. e1 \notin T.wire /\ e2 \notin T.wire
      BY <3>2 DEF About
    <3>4. ev = UserEvents(c) /\ UserEvents(c) \in Seq(Events)
      BY <1>1, <2>2, EventsAre
    <3>5. wire' = wire \o UserEvents(c)
      BY <1>1, <2>2
    <3> QED
      BY <3>1, <3>3, <3>4, <3>5
  <2> QED
    BY <2>1, <2>2
<1>6. Free(hh, T.held)
  <2>1. CASE hh = <<>>
    BY <2>1, FreeShort
  <2>2. ASSUME NEW h, hh = <<h>>, h.card = Card(c.id, RowOf(c)) PROVE Free(hh, T.held)
    <3>1. h \notin T.held
      BY <1>4, <2>2 DEF About
    <3> QED
      BY <2>2, <3>1, FreeShort
  <2> QED
    BY <1>1, <2>1, <2>2
<1> HIDE DEF ev
<1>7. CountsFor(Head(changes), ev, hh, T)
  BY <1>3, <1>5, <1>6 DEF CountsFor
<1>8. Clear(wire, <<>>, changes, T) <=> Clear(wire \o ev, hh, Tail(changes), T)
  BY <1>1, <1>2, <1>5, <1>7, Taken
<1>9. Clear(wire', hh, changes', T)
  BY <1>1, <1>5, <1>8 DEF Nowhere
<1> QED
  BY <1>9 DEF Nowhere, hh

LEMMA TellDeploymentNowhere ==
    ASSUME TypeOK, TellDeployment, NEW d \in Desktops, Nowhere(d)
    PROVE  Nowhere(d)'
<1> DEFINE h == domains.held[1]
           ev == IF online THEN ToldEvents(h) ELSE <<>>
           T == About(d)
           e1 == Event("deploymentdesktop", h.event, h.card)
           e2 == Event("deployments", "update", h.summary)
<1>1. /\ domains.held = <<h>> /\ h \in HeldChanges /\ domains'.held = <<>>
      /\ ToldEvents(h) \in Seq(Events) /\ wire' = wire \o ev
  BY TellDeploymentIs
<1>2. wire \in Seq(Events) /\ changes' = changes /\ <<>> \in Seq(Events)
  BY TypesAre DEF QueuesTyped, TellDeployment, tables
<1>3. h \notin T.held
  <2>1. Free(<<h>>, T.held)
    BY <1>1 DEF Nowhere, Clear
  <2> QED
    BY <2>1, FreeShort
<1>4. Free(ToldEvents(h), T.wire)
  <2>1. h.card.id # d /\ h.event \in {"add", "update", "delete"} /\ h.card \in Cards /\ h.summary \in Summaries
    BY <1>1, <1>3 DEF About, HeldChanges
  <2>2. e1 \in Events /\ e2 \in Events /\ e1.data.id # d /\ e2.subject = "deployments"
    BY <2>1 DEF Event, Events
  <2>3. ToldEvents(h) = <<e1>> \o <<e2>>
    BY <2>2, TwoAre DEF ToldEvents
  <2> HIDE DEF e1, e2
  <2>4. e1 \notin T.wire /\ e2 \notin T.wire
    BY <2>2 DEF About
  <2>5. ASSUME NEW R PROVE Free(<<e1>> \o <<e2>>, R) <=> e1 \notin R /\ e2 \notin R
    BY ZenonT(60), <2>2, TwoAre
  <2> QED
    BY <2>3, <2>4, <2>5
<1>5. ev \in Seq(Events) /\ Free(ev, T.wire)
  BY <1>1, <1>2, <1>4, FreeShort
<1> HIDE DEF ev, h, T
<1>6. Clear(wire, <<h>>, changes, T) <=> Clear(wire \o ev, <<>>, changes, T)
  BY <1>2, <1>3, <1>5, Told
<1> QED
  BY <1>1, <1>2, <1>6 DEF Nowhere, T

\* Events about deployments come.
LEMMA ForeignNowhere ==
    ASSUME TypeOK, NEW ev \in Seq(Events), Foreign(ev), wire' = wire \o ev, changes' = changes,
           NEW d, Nowhere(d),
           \/ domains'.held = domains.held
           \/ \E h \in HeldChanges : \E s : domains.held = <<h>> /\ domains'.held = <<Late(h, s)>>
    PROVE  Nowhere(d)'
<1> DEFINE T == About(d)
<1>1. wire \in Seq(Events)
  BY TypesAre DEF QueuesTyped
<1>2. Free(ev, T.wire)
  BY ForeignIsFree
<1> HIDE DEF T
<1>3. Clear(wire, domains.held, changes, T) <=> Clear(wire', domains.held, changes, T)
  BY <1>1, <1>2, OthersEmit
<1>4. Clear(wire', domains.held, changes, T) => Clear(wire', domains'.held, changes, T)
  <2>1. CASE domains'.held = domains.held
    BY <2>1
  <2>2. ASSUME NEW h \in HeldChanges, NEW s, domains.held = <<h>>, domains'.held = <<Late(h, s)>>
        PROVE  Clear(wire', domains.held, changes, T) => Clear(wire', domains'.held, changes, T)
    <3> DEFINE k == Late(h, s)
    <3>1. h \in T.held <=> k \in T.held
      BY LateStands DEF T
    <3> HIDE DEF k
    <3>2. Clear(wire', <<h>>, changes, T) <=> Clear(wire', <<k>>, changes, T)
      BY <3>1, Replaced
    <3> QED
      BY <2>2, <3>2 DEF k
  <2> QED
    BY <2>1, <2>2
<1> QED
  BY <1>3, <1>4 DEF Nowhere, T

\* The lists of the store, and of the answers.
LEMMA StoresTyped ==
    ASSUME TypeOK
    PROVE  /\ store["desktops"] \in Seq(Cards) /\ store["deployments"] \in Seq(Summaries)
           /\ store["deployment"] \in Pages /\ store["deployment"].desktops \in Seq(Cards)
           /\ asked["desktops"].step = "read" => asked["desktops"].list \in Seq(Cards)
           /\ asked["deployments"].step = "read" => asked["deployments"].list \in Seq(Summaries)
           /\ asked["deployment"].step = "read" =>
                 asked["deployment"].list \in Pages /\ asked["deployment"].list.desktops \in Seq(Cards)
<1>1. \A v \in Views : store[v] \in ListsOf(v) /\ (asked[v].step = "read" => asked[v].list \in ListsOf(v))
  <2>1. store \in Each(ListsOf) /\ \A v \in Views : asked[v].step = "read" => asked[v].list \in ListsOf(v)
    BY DEF TypeOK
  <2>2. \A v \in Views : store[v] \in ListsOf(v)
    BY Zenon, <2>1, EachIs
  <2> QED
    BY <2>1, <2>2
<1>2. \A pg \in Pages : pg.desktops \in Seq(Cards)
  BY DEF Pages
<1> QED
  BY <1>1, <1>2, ListsAre

\* Cards of rows of the table only.
LEMMA AnsweredUnborn ==
    ASSUME TypeOK, NEW d \in Desktops, row[d] = Unborn
    PROVE  ~ Has(SetToSeq(DesktopsOf), d) /\ \A p : ~ Has(SetToSeq(CardsOf(Tagged(p))), d)
<1>1. ~ InTable(row[d])
  BY RowIs DEF Rows
<1>2. ASSUME NEW ds \in SUBSET Desktops, \A e \in ds : InTable(row[e]) PROVE ~ Has(SetToSeq(CardsOf(ds)), d)
  <2>1. /\ SetToSeq(CardsOf(ds)) \in Seq(Cards)
        /\ Range(SetToSeq(CardsOf(ds))) = CardsOf(ds) /\ \A x \in CardsOf(ds) : x.id \in ds
    BY <1>2, CardsListed
  <2> QED
    BY <1>1, <1>2, <2>1, HasIs
<1>3. ~ Has(SetToSeq(DesktopsOf), d)
  <2> DEFINE ds == {e \in Desktops : Seen(e, row[e])}
  <2>1. ds \in SUBSET Desktops /\ \A e \in ds : InTable(row[e])
    BY DEF Seen
  <2> HIDE DEF ds
  <2>2. ~ Has(SetToSeq(CardsOf(ds)), d)
    BY <1>2, <2>1
  <2> QED
    BY <2>2 DEF ds, DesktopsOf
<1>4. ASSUME NEW p PROVE ~ Has(SetToSeq(CardsOf(Tagged(p))), d)
  <2>1. Tagged(p) \in SUBSET Desktops /\ \A e \in Tagged(p) : InTable(row[e])
    BY DEF Tagged
  <2> QED
    BY <1>2, <2>1
<1> QED
  BY <1>3, <1>4

\* An edit about others.
LEMMA EditedWithout ==
    ASSUME NEW S, NEW list \in Seq(S), NEW what \in {"add", "update", "delete"}, NEW data \in S,
           NEW d, data.id # d, ~ Has(list, d)
    PROVE  ~ Has(Edited(list, what, data), d)
<1>1. /\ Edited(list, what, data) \in Seq(S)
      /\ \A x \in Range(Edited(list, what, data)) : x \in Range(list) \/ x = data
  BY EditedTyped
<1>2. \A x \in Range(list) : x.id # d
  BY HasIs
<1>3. Has(Edited(list, what, data), d) <=> \E x \in Range(Edited(list, what, data)) : x.id = d
  BY <1>1, HasIs
<1> QED
  BY <1>1, <1>2, <1>3

LEMMA DeliverUnborn ==
    ASSUME TypeOK, Deliver, NEW d \in Desktops, Nowhere(d), Lists4(d)
    PROVE  Nowhere(d)' /\ Lists4(d)'
<1> DEFINE e == Head(wire)
<1>1. /\ UNCHANGED <<changes, domains>> /\ wire # <<>> /\ e \in Events /\ wire' = Tail(wire)
      /\ Lists(e) /\ \A w \in Views : w # ViewOf(e) => store'[w] = store[w]
      /\ \A w \in Views : asked'[w].step = asked[w].step /\ asked'[w].list = asked[w].list
  BY DeliverIs DEF tables
<1>2. wire \in Seq(Events)
  BY TypesAre DEF QueuesTyped
<1>3. Clear(wire, domains.held, changes, About(d)) <=> Head(wire) \notin About(d).wire /\ Clear(Tail(wire), domains.held, changes, About(d))
  BY <1>1, <1>2, Delivered
<1>4. Nowhere(d)' /\ e \notin About(d).wire
  BY <1>1, <1>3 DEF Nowhere
<1> HIDE DEF e
<1>5. /\ e.what \in {"add", "update", "delete"}
      /\ e.subject \in {"desktop", "deploymentdesktop"} => e.data \in Cards /\ e.data.id # d
      /\ e.subject \in {"desktop", "deploymentdesktop", "deployments", "deployment"}
  BY <1>1, <1>4, EventIs DEF About
<1>6. /\ ViewOf(e) = "desktops" <=> e.subject = "desktop"
      /\ ViewOf(e) = "deployment" <=> e.subject \in {"deployment", "deploymentdesktop"}
      /\ "desktops" \in Views /\ "deployment" \in Views
  BY <1>5 DEF ViewOf, Views
<1>7. ~ Has(store'["desktops"], d)
  <2>1. CASE e.subject = "desktop"
    <3>1. store'["desktops"] = Edited(store["desktops"], e.what, e.data)
      BY <1>1, <2>1 DEF Lists
    <3> QED
      BY <1>5, <2>1, <3>1, StoresTyped, EditedWithout DEF Lists4
  <2>2. CASE e.subject # "desktop"
    BY <1>1, <1>6, <2>2 DEF Lists4
  <2> QED
    BY <2>1, <2>2
<1>8. ~ Has(store'["deployment"].desktops, d)
  <2>1. CASE e.subject = "deploymentdesktop"
    <3>1. store'["deployment"].desktops = store["deployment"].desktops
          \/ store'["deployment"].desktops = Edited(store["deployment"].desktops, e.what, e.data)
      BY <1>1, <2>1 DEF Lists
    <3> QED
      BY <1>5, <2>1, <3>1, StoresTyped, EditedWithout DEF Lists4
  <2>2. CASE e.subject = "deployment"
    BY <1>1, <2>2 DEF Lists, Lists4
  <2>3. CASE e.subject \in {"desktop", "deployments"}
    BY <1>1, <1>6, <2>3 DEF Lists4
  <2> QED
    BY <1>5, <2>1, <2>2, <2>3
<1> QED
  BY <1>1, <1>4, <1>6, <1>7, <1>8 DEF Lists4

LEMMA BrowserUnborn ==
    ASSUME TypeOK, NEW v \in Views, Open(v) \/ Read(v) \/ Answer(v), NEW d \in Desktops, row[d] = Unborn,
           Nowhere(d), Lists4(d)
    PROVE  Nowhere(d)' /\ Lists4(d)'
<1>1. ~ Has(<<>>, d) /\ ~ Has(NoPage.desktops, d) /\ "desktops" \in Views /\ "deployment" \in Views
  BY DEF Has, NoPage, Views
<1>2. CASE Open(v)
  <2>1. /\ wire' = wire /\ domains' = domains /\ changes' = changes
        /\ asked'[v].step = "sent" /\ \A w \in Views : w # v => asked'[w] = asked[w]
        /\ \A w \in Views : store'[w] # store[w] => store'[w] = IF w = "deployment" THEN NoPage ELSE <<>>
    BY <1>2, OpenIs DEF tables, feeds
  <2>2. Nowhere(d)'
    BY <2>1 DEF Nowhere
  <2>3. \A w \in Views : asked'[w].step = "read" => asked'[w] = asked[w] /\ asked[w].step = "read"
    BY <2>1
  <2>4. ~ Has(store'["desktops"], d) /\ ~ Has(store'["deployment"].desktops, d)
    BY <1>1, <2>1 DEF Lists4
  <2> QED
    BY <1>1, <2>2, <2>3, <2>4 DEF Lists4
<1>3. CASE Read(v)
  <2>1. /\ wire' = wire /\ domains' = domains /\ changes' = changes /\ store' = store
        /\ \A w \in Views : w # v => asked'[w] = asked[w]
        /\ \/ asked'[v] = NoFetch
           \/ asked'[v].list = Answered(v, asked[v].of) /\ (v = "deployment" => asked[v].of \in Deployments)
    BY <1>3, ReadIs DEF tables, feeds
  <2>2. Nowhere(d)'
    BY <2>1 DEF Nowhere
  <2>3. NoFetch.step = "none"
    BY DEF NoFetch
  <2>4. asked'["desktops"].step = "read" => ~ Has(asked'["desktops"].list, d)
    <3>1. CASE v = "desktops"
      <4>1. Answered(v, asked[v].of) = SetToSeq(DesktopsOf)
        BY <3>1, AnsweredIs
      <4> QED
        BY <2>1, <2>3, <3>1, <4>1, AnsweredUnborn
    <3>2. CASE v # "desktops"
      BY <1>1, <2>1, <3>2 DEF Lists4
    <3> QED
      BY <3>1, <3>2
  <2>5. asked'["deployment"].step = "read" => ~ Has(asked'["deployment"].list.desktops, d)
    <3>1. CASE v = "deployment"
      <4>1. asked[v].of \in Deployments => Answered(v, asked[v].of).desktops = SetToSeq(CardsOf(Tagged(asked[v].of)))
        BY <3>1, AnsweredIs
      <4> QED
        BY <2>1, <2>3, <3>1, <4>1, AnsweredUnborn
    <3>2. CASE v # "deployment"
      BY <1>1, <2>1, <3>2 DEF Lists4
    <3> QED
      BY <3>1, <3>2
  <2> QED
    BY <2>1, <2>2, <2>4, <2>5 DEF Lists4
<1>4. CASE Answer(v)
  <2>1. /\ wire' = wire /\ domains' = domains /\ changes' = changes
        /\ asked[v].step = "read" /\ store'[v] = asked[v].list /\ asked'[v] = NoFetch
        /\ \A w \in Views : w # v => store'[w] = store[w] /\ asked'[w] = asked[w]
    BY <1>4, AnswerIs DEF tables, feeds
  <2>2. Nowhere(d)'
    BY <2>1 DEF Nowhere
  <2>3. NoFetch.step = "none"
    BY DEF NoFetch
  <2>4. ~ Has(store'["desktops"], d) /\ ~ Has(store'["deployment"].desktops, d)
    BY <1>1, <2>1 DEF Lists4
  <2>5. /\ asked'["desktops"].step = "read" => ~ Has(asked'["desktops"].list, d)
        /\ asked'["deployment"].step = "read" => ~ Has(asked'["deployment"].list.desktops, d)
    BY <1>1, <2>1, <2>3 DEF Lists4
  <2> QED
    BY <2>2, <2>4, <2>5 DEF Lists4
<1> QED
  BY <1>2, <1>3, <1>4

\* Before a deployment is inserted none of its desktops is.
UnbornDeps ==
    \A p \in Deployments : dep[p].state = "unborn" => \A d \in Desktops : Tag[d] = p => row[d] = Unborn

Unborns == UnbornRows /\ UnbornDeps

LEMMA UnbornInit == Init => Unborns
<1> SUFFICES ASSUME Init PROVE Unborns
  OBVIOUS
<1>1. wire = <<>> /\ domains.held = <<>> /\ changes = <<>>
  BY DEF Init, Listening
<1>2. /\ store["desktops"] = <<>> /\ store["deployment"] = NoPage
      /\ asked = [v \in Views |-> NoFetch]
  BY DEF Init
<1>3. \A d : ~ Has(<<>>, d) /\ ~ Has(NoPage.desktops, d)
  BY DEF Has, NoPage
<1>4. asked["desktops"].step = "none" /\ asked["deployment"].step = "none"
  BY <1>2 DEF Views, NoFetch
<1>5. ASSUME NEW d PROVE Nowhere(d) /\ Lists4(d)
  <2>1. Nowhere(d)
    BY <1>1, NothingQueued DEF Nowhere
  <2>2. Lists4(d)
    BY <1>2, <1>3, <1>4 DEF Lists4
  <2> QED
    BY <2>1, <2>2
<1>6. UnbornDeps
  <2>1. PICK scope \in Scopes : row = scope.row /\ dep = scope.dep
    BY DEF Init
  <2>2. \A p \in Deployments : scope.dep[p].state = "unborn" => \A d \in Desktops : Tag[d] = p => scope.row[d] = Unborn
    BY ScopesAssumption
  <2> QED
    BY <2>1, <2>2 DEF UnbornDeps
<1> QED
  BY <1>5, <1>6 DEF Unborns, UnbornRows

\* What deployments there are, after a step.
LEMMA DepsMove ==
    ASSUME TypeOK, DepsServed, RowStep \/ DepStep \/ dep' = dep
    PROVE  \A p \in Deployments :
              /\ dep'[p].state = "unborn" => dep[p].state = "unborn"
              /\ Exists(p)' /\ ~ Exists(p) => dep[p].state = "unborn"
              /\ dep[p].state = "gone" => dep'[p].state = "gone"
<1>1. ASSUME NEW p \in Deployments, RowStep
      PROVE  dep'[p].state = dep[p].state
  BY <1>1 DEF RowStep
<1>2. ASSUME NEW p \in Deployments, DepStep
      PROVE  /\ dep'[p].state = "unborn" => dep[p].state = "unborn"
             /\ Exists(p)' /\ ~ Exists(p) => dep[p].state = "unborn"
             /\ dep[p].state = "gone" => dep'[p].state = "gone"
  <2>1. PICK q \in Deployments, new \in DepRows, event \in {"none", "add", "update", "delete"} :
           DepMoves(q, new, event) /\ UpdateDep(q, new, event)
    BY <1>2 DEF DepStep
  <2>2. dep'[q] = new /\ \A z \in Deployments : z # q => dep'[z] = dep[z]
    BY <2>1, QueuedDeps
  <2>3. dep[p].state \in {"unborn", "live", "deleting", "gone"}
    BY TablesTyped DEF DepRows
  <2> QED
    BY <2>1, <2>2, <2>3 DEF DepMoves, Exists
<1>3. ASSUME dep' = dep PROVE \A p \in Deployments : dep'[p].state = dep[p].state /\ (Exists(p)' <=> Exists(p))
  BY <1>3 DEF Exists
<1> QED
  BY <1>1, <1>2, <1>3 DEF Exists

LEMMA DepsUnborn ==
    ASSUME TypeOK, DepsServed, UnbornDeps, RowStep \/ DepStep \/ (dep' = dep /\ row' = row)
    PROVE  UnbornDeps'
<1> SUFFICES ASSUME NEW p \in Deployments, dep'[p].state = "unborn", NEW d \in Desktops, Tag[d] = p
             PROVE  row'[d] = Unborn
  BY DEF UnbornDeps
<1>1. dep[p].state = "unborn" /\ row[d] = Unborn /\ dep[p].flags = {} /\ p # None
  BY DepsMove, TagAssumption DEF UnbornDeps, DepsServed
<1>2. CASE RowStep
  <2>1. PICK new \in [Desktops -> Rows] : RowMoves(new) /\ UpdateRows(new)
    BY <1>2 DEF RowStep
  <2>2. row' = new
    BY <2>1, QueuedRows
  <2> HIDE DEF Unborn
  <2>3. new[d] = row[d]
    BY <1>1, <2>1 DEF RowMoves
  <2> QED
    BY <1>1, <2>2, <2>3
<1>3. CASE DepStep \/ row' = row
  BY <1>1, <1>3 DEF DepStep
<1> QED
  BY <1>2, <1>3

\* A step that is none of the rows leaves them.
LEMMA RowsStay ==
    ASSUME DepStep \/ OtherStep \/ DomainsThread \/ DeploymentsThread \/ Faults \/ Browser
    PROVE  row' = row
  BY DEF DepStep, OtherStep, DomainsThread, DeploymentsThread, TakeChange, TellDeployment, TakeDepChange, TellDeployments,
         Faults, DomainsFeedLost, DomainsFeedReopened, DeploymentsFeedLost, DeploymentsFeedReopened, SocketLost,
         SocketReopened, Browser, Deliver, Open, Read, Answer, tables
LEMMA DepsStay ==
    ASSUME OtherStep \/ DomainsThread \/ DeploymentsThread \/ Faults \/ Browser
    PROVE  dep' = dep
  BY DEF OtherStep, DomainsThread, DeploymentsThread, TakeChange, TellDeployment, TakeDepChange, TellDeployments,
         Faults, DomainsFeedLost, DomainsFeedReopened, DeploymentsFeedLost, DeploymentsFeedReopened, SocketLost,
         SocketReopened, Browser, Deliver, Open, Read, Answer, tables

LEMMA FaultsNowhere ==
    ASSUME TypeOK, Idle, Faults, NEW d, Nowhere(d)
    PROVE  Nowhere(d)'
<1>1. \A T : Free(<<>>, T)
  BY FreeShort
<1>2. \/ changes' = <<>> /\ domains'.held = <<>> /\ wire' = wire
      \/ changes' = changes /\ domains'.held = domains.held /\ wire' = wire
      \/ changes' = changes /\ domains'.held = domains.held /\ wire' = <<>>
  BY FaultsAre
<1> QED
  BY Zenon, <1>1, <1>2 DEF Nowhere, Clear

LEMMA DeploymentsThreadNowhere ==
    ASSUME TypeOK, DeploymentsThread, NEW d, Nowhere(d)
    PROVE  Nowhere(d)'
<1>1. wire \in Seq(Events) /\ domains \in Threads(HeldChanges) /\ <<>> \in Seq(Events) /\ wire \o <<>> = wire /\ Foreign(<<>>)
  BY TypesAre DEF QueuesTyped, Foreign
<1>2. CASE TakeDepChange
  <2> DEFINE c == Head(depChanges)
  <2>1. /\ changes' = changes /\ domains' = domains
        /\ \/ GoneEvents(c.id) \in Seq(Events) /\ wire' = wire \o GoneEvents(c.id)
           \/ wire' = wire \o <<>>
    <3>1. changes' = changes /\ domains' = domains
      BY <1>2 DEF TakeDepChange
    <3>2. /\ c.event = "delete" => GoneEvents(c.id) \in Seq(Events) /\ wire' = wire \o (IF online THEN GoneEvents(c.id) ELSE <<>>)
          /\ c.event # "delete" => wire' = wire
      BY <1>2, TakeDepChangeIs
    <3> HIDE DEF c
    <3> QED
      BY <1>1, <3>1, <3>2
  <2>2. Foreign(GoneEvents(c.id))
    BY ToldAreForeign
  <2> HIDE DEF c
  <2> QED
    BY <1>1, <2>1, <2>2, ForeignNowhere
<1>3. CASE TellDeployments
  <2> DEFINE h == deployments.held[1]
  <2>1. /\ changes' = changes /\ h \in HeldDepChanges /\ ToldOf(h) \in Seq(Events)
        /\ wire' = wire \o (IF online THEN ToldOf(h) ELSE <<>>)
        /\ domains' = Overtaken(domains, h.summary)
    BY <1>3, TellDeploymentsIs DEF TellDeployments, tables
  <2>2. Foreign(ToldOf(h))
    BY <2>1, ToldAreForeign
  <2> HIDE DEF h
  <2>3. \/ domains'.held = domains.held
        \/ \E k \in HeldChanges : \E s : domains.held = <<k>> /\ domains'.held = <<Late(k, s)>>
    <3>1. /\ domains.held = <<>> => Overtaken(domains, h.summary).held = <<>>
          /\ domains.held # <<>> => Overtaken(domains, h.summary).held = <<Late(domains.held[1], h.summary)>>
      BY <1>1, OvertakenIs
    <3>2. domains.held = <<>> \/ (domains.held = <<domains.held[1]>> /\ domains.held[1] \in HeldChanges /\ domains.held # <<>>)
      BY <1>1, HeldIs
    <3> QED
      BY <2>1, <3>1, <3>2
  <2> QED
    BY <1>1, <2>1, <2>2, <2>3, ForeignNowhere
<1> QED
  BY <1>2, <1>3 DEF DeploymentsThread

LEMMA UnbornStep == Basic /\ Unborns /\ [Next]_vars => Unborns'
<1> SUFFICES ASSUME Basic, Unborns, [Next]_vars PROVE Unborns'
  OBVIOUS
<1>0. TypeOK /\ DepsServed /\ Idle /\ UnbornRows /\ UnbornDeps
  BY DEF Basic, Unborns
<1>1. CASE Next
  <2>1. Steps
    BY <1>0, <1>1, NextIs
  <2>2. UnbornDeps'
    BY <1>0, <2>1, DepsUnborn, RowsStay, DepsStay DEF Steps
  <2>3. UnbornRows'
    <3> SUFFICES ASSUME NEW d \in Desktops, row'[d] = Unborn PROVE Nowhere(d)' /\ Lists4(d)'
      BY DEF UnbornRows
    <3>1. ASSUME row[d] = Unborn PROVE Nowhere(d) /\ Lists4(d)
      BY <1>0, <3>1 DEF UnbornRows
    <3>2. CASE RowStep
      <4>1. row[d] = Unborn
        <5>1. PICK new \in [Desktops -> Rows] : RowMoves(new) /\ UpdateRows(new)
          BY <3>2 DEF RowStep
        <5>2. row' = new
          BY <1>0, <5>1, QueuedRows
        <5>3. ~ InTable(Unborn) /\ Unborn # Gone
          BY RowIs DEF Rows
        <5> HIDE DEF Unborn, Gone
        <5> QED
          BY <5>1, <5>2, <5>3 DEF RowMoves
      <4> QED
        BY <1>0, <3>1, <3>2, <4>1, RowsNowhere, UntouchedIs, UntouchedLists
    <3>3. CASE ~ RowStep
      <4>1. row' = row
        BY <2>1, <3>3, RowsStay DEF Steps
      <4>2. row[d] = Unborn /\ Nowhere(d) /\ Lists4(d)
        BY <3>1, <4>1
      <4>3. CASE DepStep \/ OtherStep
        <5>1. Nowhere(d)'
          BY <4>2, <4>3 DEF DepStep, OtherStep, feeds, Nowhere
        <5> QED
          BY <1>0, <4>2, <4>3, <5>1, UntouchedIs, UntouchedLists
      <4>4. CASE DomainsThread
        <5>1. Nowhere(d)'
          BY <1>0, <4>2, <4>4, TakeChangeNowhere, TellDeploymentNowhere DEF DomainsThread
        <5> QED
          BY <1>0, <4>2, <4>4, <5>1, UntouchedIs, UntouchedLists
      <4>5. CASE DeploymentsThread
        BY <1>0, <4>2, <4>5, DeploymentsThreadNowhere, UntouchedIs, UntouchedLists
      <4>6. CASE Faults
        BY <1>0, <4>2, <4>6, FaultsNowhere, UntouchedIs, UntouchedLists
      <4>7. CASE Browser
        BY <1>0, <4>2, <4>7, BrowserUnborn, DeliverUnborn DEF Browser
      <4> QED
        BY <2>1, <3>3, <4>3, <4>4, <4>5, <4>6, <4>7 DEF Steps
    <3> QED
      BY <3>2, <3>3
  <2> QED
    BY <2>2, <2>3 DEF Unborns
<1>2. CASE UNCHANGED vars
  <2>1. UNCHANGED <<row, dep, wire, domains, changes, store, asked>>
    BY <1>2 DEF vars, tables, feeds, browser
  <2> QED
    BY <1>0, <2>1 DEF Unborns, UnbornRows, UnbornDeps, Nowhere, Lists4
<1> QED
  BY <1>1, <1>2

-----------------------------------------------------------------------------
(* The lines of all desktops. *)

LinesRight ==
    \A v \in CardViews : \A d \in Desktops : trust[v] # "missed" /\ Covered(v, d) => LineRight(v, d)

\* A step that is none of the browser leaves the list that is not spoilt, and carries its desktops.
LEMMA StepCarries ==
    ASSUME Basic, Unborns, RowStep \/ DepStep \/ OtherStep \/ DomainsThread \/ DeploymentsThread \/ Faults,
           NEW v \in CardViews, NEW d \in Desktops, trust'[v] # "missed"
    PROVE  Quiet(v) /\ (Covered(v, d) => Carried(v, d))
<1>0. TypeOK /\ DepsServed /\ Idle /\ UnbornRows /\ UnbornDeps /\ v \in Views
  BY DEF Basic, Unborns, CardViews, Views
<1>1. CASE RowStep
  <2>1. PICK new \in [Desktops -> Rows] : RowMoves(new) /\ UpdateRows(new)
    BY <1>1 DEF RowStep
  <2>2. Spoilt(Untold(new)) /\ store' = store
    BY <1>0, <1>1, <2>1, RowsSpoil DEF RowStep
  <2>3. Quiet(v)
    BY <1>0, <2>2, QuietIs
  <2>4. row[d] = Unborn => Nowhere(d)
    BY <1>0 DEF UnbornRows
  <2>5. Carried(v, d)
    BY <1>0, <1>1, <2>4, RowsPass DEF Carried
  <2> QED
    BY <2>3, <2>5
<1>2. CASE DepStep
  <2>1. PICK p \in Deployments, new \in DepRows, event \in {"none", "add", "update", "delete"} :
           DepMoves(p, new, event) /\ UpdateDep(p, new, event)
    BY <1>2 DEF DepStep
  <2>2. Spoilt(IF deployments.up \/ event = "none" THEN {} ELSE {"deployment", "deployments"}) /\ store' = store
    BY <1>0, <1>2, <2>1, QueuedDeps DEF DepStep
  <2>3. Quiet(v)
    BY <1>0, <2>2, QuietIs
  <2>4. Carried(v, d)
    BY <1>2, StillCarries DEF DepStep
  <2> QED
    BY <2>3, <2>4
<1>3. CASE OtherStep
  <2>1. Quiet(v)
    BY <1>3 DEF OtherStep, Quiet
  <2>2. Carried(v, d)
    BY <1>3, StillCarries DEF OtherStep, feeds
  <2> QED
    BY <2>1, <2>2
<1>4. CASE DomainsThread
  <2>1. CASE TakeChange
    <3>1. Covered(v, d) => Quiet(v) /\ Carried(v, d)
      BY <1>0, <2>1, TakeChangeCarries
    <3>2. Quiet(v)
      <4>1. store' = store
        BY <2>1 DEF TakeChange
      <4>2. Spoilt(IF online THEN {} ELSE Views) \/ (asked' = asked /\ trust' = trust)
        BY <1>0, <2>1, TakeChangeIs
      <4> QED
        BY <1>0, <4>1, <4>2, QuietIs DEF Quiet
    <3> QED
      BY <3>1, <3>2
  <2>2. CASE TellDeployment
    BY <1>0, <2>2, TellDeploymentCarries
  <2> QED
    BY <1>4, <2>1, <2>2 DEF DomainsThread
<1>5. CASE DeploymentsThread
  BY <1>0, <1>5, TakeDepChangeCarries, TellDeploymentsCarries DEF DeploymentsThread
<1>6. CASE Faults
  BY <1>0, <1>6, FaultsCarry
<1> QED
  BY <1>1, <1>2, <1>3, <1>4, <1>5, <1>6

\* A step of the browser: what was missed is due again only when a fetch is read and all is drained.
LEMMA BrowserTrusts ==
    ASSUME TypeOK, Browser, NEW v \in Views, trust'[v] # "missed", trust[v] = "missed"
    PROVE  Drained /\ Read(v) /\ trust'[v] = "due"
<1>1. ~ Deliver
  <2> SUFFICES ASSUME Deliver PROVE FALSE
    OBVIOUS
  <2> DEFINE e == Head(wire)
             w == ViewOf(e)
             twin == e.what = "add" /\ e.subject \in {"desktop", "deployments"} /\ Has(store[w], e.data.id)
  <2>1. /\ trust'[w] = IF twin /\ trust[w] = "kept" THEN "due" ELSE trust[w]
        /\ v # w => trust'[v] = trust[v]
    BY DeliverIs
  <2> HIDE DEF w, twin
  <2> QED
    BY <2>1
<1>2. ASSUME NEW w \in Views, Open(w) PROVE FALSE
  BY <1>2, OpenIs
<1>3. ASSUME NEW w \in Views, Answer(w) PROVE FALSE
  BY <1>3, AnswerIs
<1>4. PICK w \in Views : Read(w)
  BY <1>1, <1>2, <1>3 DEF Browser
<1>5. trust'[v] = IF v = w /\ Drained THEN "due" ELSE trust[v]
  BY <1>4, ReadIs
<1> QED
  BY <1>4, <1>5

LEMMA BrowserLines ==
    ASSUME TypeOK, Browser, NEW v \in CardViews, NEW d \in Desktops, LineRight(v, d) \/ Drained
    PROVE  LineRight(v, d)'
<1>0. row' = row /\ domains' = domains /\ changes' = changes /\ (wire' = wire \/ (wire # <<>> /\ wire' = Tail(wire)))
  BY DEF Browser, Deliver, Open, Read, Answer, tables, feeds
<1>1. wire \in Seq(Events)
  BY TypesAre DEF QueuesTyped
<1>2. LineRight(v, d)
  <2>1. CASE Drained
    <3>1. wire = <<>> /\ domains.held = <<>> /\ changes = <<>>
      BY <2>1 DEF Drained
    <3> QED
      BY <3>1, NothingQueued DEF LineRight, CardLine
  <2> QED
    BY <2>1
<1>3. CASE wire' = wire
  BY <1>0, <1>2, <1>3 DEF LineRight, CardLine
<1>4. CASE wire # <<>> /\ wire' = Tail(wire)
  <2>1. \A A, U, G : Right(wire, domains.held, changes, A, U, G) => Right(Tail(wire), domains.held, changes, A, U, G)
    BY <1>1, <1>4, Delivered
  <2> QED
    BY <1>0, <1>2, <1>4, <2>1 DEF LineRight, CardLine
<1> QED
  BY <1>0, <1>3, <1>4

LEMMA LinesInit == Init => LinesRight
<1> SUFFICES ASSUME Init PROVE LinesRight
  OBVIOUS
<1>1. wire = <<>> /\ domains.held = <<>> /\ changes = <<>>
  BY DEF Init, Listening
<1> QED
  BY <1>1, NothingQueued DEF LinesRight, LineRight, CardLine

\* A list starts to be covered when its deployment is inserted: nothing is about it then.
LEMMA CoveredIs ==
    ASSUME Basic, Unborns, Steps, NEW v \in CardViews, NEW d \in Desktops, Covered(v, d)', ~ Covered(v, d)
    PROVE  DepStep /\ row[d] = Unborn /\ Nowhere(d) /\ Tag[d] # None /\ dep[Tag[d]].state = "unborn"
<1>0. TypeOK /\ DepsServed /\ UnbornRows /\ UnbornDeps
  BY DEF Basic, Unborns
<1>1. v = "deployment" /\ Tag[d] # None /\ Exists(Tag[d])' /\ ~ Exists(Tag[d])
  BY DEF Covered, CardViews
<1>2. Tag[d] \in Deployments
  BY <1>1, TagAssumption
<1>3. DepStep
  <2>1. RowStep => dep'[Tag[d]].state = dep[Tag[d]].state
    BY <1>2 DEF RowStep
  <2>2. dep' # dep /\ ~ RowStep
    BY <1>1, <2>1 DEF Exists
  <2> QED
    BY <2>2, DepsStay DEF Steps
<1>4. dep[Tag[d]].state = "unborn"
  BY <1>0, <1>1, <1>2, <1>3, DepsMove
<1>5. row[d] = Unborn /\ Nowhere(d)
  BY <1>0, <1>2, <1>4 DEF UnbornDeps, UnbornRows
<1> QED
  BY <1>1, <1>3, <1>4, <1>5

LEMMA LinesStep ==
    ASSUME Basic, Unborns, LinesRight, Steps
    PROVE  LinesRight'
<1>0. TypeOK /\ DepsServed /\ Idle
  BY DEF Basic
<1> SUFFICES ASSUME NEW v \in CardViews, NEW d \in Desktops, trust'[v] # "missed", Covered(v, d)'
             PROVE  LineRight(v, d)'
  BY DEF LinesRight
<1>1. CASE ~ Covered(v, d)
  <2>1. DepStep /\ Nowhere(d)
    BY <1>1, CoveredIs
  <2>2. LineRight(v, d)
    BY <2>1, NowhereIsRight DEF LineRight
  <2> QED
    BY <2>1, <2>2 DEF DepStep, LineRight, CardLine
<1>2. CASE Covered(v, d)
  <2>1. CASE Browser
    <3>1. trust[v] # "missed" \/ Drained
      BY <1>0, <2>1, BrowserTrusts DEF CardViews, Views
    <3>2. LineRight(v, d) \/ Drained
      BY <1>2, <3>1 DEF LinesRight
    <3> QED
      BY <1>0, <2>1, <3>2, BrowserLines
  <2>2. CASE ~ Browser
    <3>1. Quiet(v) /\ Carried(v, d)
      BY <1>2, <2>2, StepCarries DEF Steps
    <3> QED
      BY <1>2, <3>1 DEF Quiet, Carried, LinesRight
  <2> QED
    BY <2>1, <2>2
<1> QED
  BY <1>1, <1>2

-----------------------------------------------------------------------------
(* The lists of desktops. *)

\* A list that is kept, or the answer of a fetch that will be.
Trusted(v, list) ==
    /\ trust[v] # "missed"
    /\ \/ trust[v] = "kept" /\ list = store[v]
       \/ asked[v].step = "read" /\ ~ asked[v].crossed /\ list = asked[v].list

\* It is right about the desktop in what the rest of the wire leaves.
RightAfter(v, d, list) ==
    /\ Clear(Tail(wire), domains.held, changes, Turns(v, d)) => (Has(list, d) <=> Belongs(v, d, row[d]))
    /\ Clear(Tail(wire), domains.held, changes, Updates(v, d)) =>
          \A x \in Range(list) : x.id = d => x.state \in Shown(row[d])

LEMMA AfterIsRight ==
    ASSUME NEW v, NEW d, NEW list, RightAfter(v, d, list), row' = row, wire' = Tail(wire), domains' = domains,
           changes' = changes
    PROVE  ListRight(v, d, list)'
  BY DEF RightAfter, ListRight, CardListed

\* The event is not about it, or only brings its card again.
LEMMA SkippedIsRight ==
    ASSUME TypeOK, wire # <<>>, NEW e, e = Head(wire), NEW v \in CardViews, NEW d, NEW list, ListRight(v, d, list),
           \/ e.subject # Subject(v)
           \/ e.data.id # d
           \/ e.what = "add" /\ Has(list, d) /\ LineRight(v, d)
    PROVE  RightAfter(v, d, list)
<1>1. wire \in Seq(Events)
  BY TypesAre DEF QueuesTyped
<1>2. \A T : Clear(wire, domains.held, changes, T) <=> e \notin T.wire /\ Clear(Tail(wire), domains.held, changes, T)
  BY <1>1, Delivered
<1>3. e \in Events
  BY <1>1
<1>4. e \notin Updates(v, d).wire
       /\ (e \notin Turns(v, d).wire \/ (e \in Turns(v, d).wire /\ e.what = "add" /\ Has(list, d) /\ LineRight(v, d)))
  BY <1>3 DEF Turns, Updates
<1>5. CASE e \notin Turns(v, d).wire
  BY <1>2, <1>4, <1>5 DEF ListRight, CardListed, RightAfter
<1>6. CASE e \in Turns(v, d).wire /\ e.what = "add" /\ Has(list, d) /\ LineRight(v, d)
  <2>1. ASSUME Clear(Tail(wire), domains.held, changes, Turns(v, d)) PROVE Belongs(v, d, row[d])
    <3>1. e \in Turned(v, d, Belongs(v, d, row[d])).wire
      BY <1>1, <1>6, <2>1, Delivered DEF LineRight, CardLine
    <3> QED
      BY <1>6, <3>1 DEF Turned
  <2>2. Clear(Tail(wire), domains.held, changes, Updates(v, d)) => Clear(wire, domains.held, changes, Updates(v, d))
    BY <1>2, <1>4
  <2> QED
    BY <1>6, <2>1, <2>2 DEF ListRight, CardListed, RightAfter
<1> QED
  BY <1>4, <1>5, <1>6

\* The event is about it: the list is edited.
LEMMA EditedIsRight ==
    ASSUME TypeOK, wire # <<>>, NEW e, e = Head(wire), NEW v \in CardViews, e.subject = Subject(v),
           NEW d, LineRight(v, d), NEW list \in Seq(Cards), Once(list), ListRight(v, d, list),
           e.what = "add" => ~ Has(list, e.data.id)
    PROVE  RightAfter(v, d, Edited(list, e.what, e.data)) /\ Once(Edited(list, e.what, e.data))
<1> DEFINE new == Edited(list, e.what, e.data)
           b == Belongs(v, d, row[d])
           S == Shown(row[d])
<1>1. wire \in Seq(Events)
  BY TypesAre DEF QueuesTyped
<1>2. e \in Events
  BY <1>1
<1>3. e.what \in {"add", "update", "delete"} /\ e.data \in Cards
  BY <1>2, EventIs DEF Subject
<1>4. /\ Once(new) /\ new \in Seq(Cards)
      /\ Range(new) = {x \in Range(list) : x.id # e.data.id}
             \cup (IF e.what = "add" \/ (e.what = "update" /\ Has(list, e.data.id)) THEN {e.data} ELSE {})
  <2> DEFINE w == e.what
             z == e.data
  <2>1. w \in {"add", "update", "delete"} /\ z \in Cards /\ (w = "add" => ~ Has(list, z.id))
    BY <1>3
  <2> HIDE DEF w, z
  <2>2. Edited(list, w, z) \in Seq(Cards)
    BY <2>1, EditedTyped
  <2>3. /\ Once(Edited(list, w, z))
        /\ Range(Edited(list, w, z)) = {x \in Range(list) : x.id # z.id}
             \cup (IF w = "add" \/ (w = "update" /\ Has(list, z.id)) THEN {z} ELSE {})
    BY <2>1, EditedIs
  <2> QED
    BY <2>2, <2>3 DEF w, z
<1> HIDE DEF new
<1>5. (Has(new, d) <=> \E x \in Range(new) : x.id = d) /\ (Has(list, d) <=> \E x \in Range(list) : x.id = d)
  <2>1. \A l \in Seq(Cards) : Has(l, d) <=> \E x \in Range(l) : x.id = d
    BY HasIs
  <2> QED
    BY <1>4, <2>1
<1>6. \A T : Clear(wire, domains.held, changes, T) <=> e \notin T.wire /\ Clear(Tail(wire), domains.held, changes, T)
  BY <1>1, Delivered
<1>7. CASE e.data.id # d
  <2>1. Has(new, d) <=> Has(list, d)
    BY <1>4, <1>5, <1>7
  <2>2. \A x \in Range(new) : x.id = d => x \in Range(list)
    BY <1>4, <1>7
  <2>3. RightAfter(v, d, list)
    BY <1>7, SkippedIsRight
  <2> QED
    BY <1>4, <2>1, <2>2, <2>3 DEF RightAfter, new
<1>8. CASE e.data.id = d
  <2>1. /\ e \in Turns(v, d).wire <=> e.what # "update"
        /\ e \in News(v, d).wire <=> e.what # "delete"
        /\ e \in Updates(v, d).wire <=> e.what = "update"
    BY <1>2, <1>8 DEF Turns, News, Updates
  <2>2. ASSUME e.what # "update", Clear(Tail(wire), domains.held, changes, Turns(v, d)) PROVE e.what = "add" <=> b
    <3>1. e \in Turned(v, d, b).wire
      BY <1>1, <2>1, <2>2, Delivered DEF LineRight, CardLine
    <3> QED
      BY <3>1 DEF Turned
  <2>3. ASSUME e.what # "delete", Clear(Tail(wire), domains.held, changes, Updates(v, d)) PROVE e.data.state \in S
    <3>1. e \in Current(v, d, S).wire
      BY <1>1, <2>1, <2>3, Delivered DEF LineRight, CardLine
    <3> QED
      BY <3>1 DEF Current
  <2>4. ASSUME e.what = "update", Clear(Tail(wire), domains.held, changes, Turns(v, d)) PROVE Has(list, d) <=> b
    <3>1. Clear(wire, domains.held, changes, Turns(v, d))
      BY <1>6, <2>1, <2>4
    <3> QED
      BY <3>1 DEF ListRight, CardListed
  <2> HIDE DEF b, S
  <2>5. /\ e.what = "add" => Has(new, d)
        /\ e.what = "delete" => ~ Has(new, d)
        /\ e.what = "update" => (Has(new, d) <=> Has(list, d))
        /\ \A x \in Range(new) : x.id = d => x = e.data /\ e.what # "delete"
    BY <1>3, <1>4, <1>5, <1>8
  <2>6. Clear(Tail(wire), domains.held, changes, Turns(v, d)) => (Has(new, d) <=> b)
    BY <1>3, <2>2, <2>4, <2>5
  <2>7. Clear(Tail(wire), domains.held, changes, Updates(v, d)) => \A x \in Range(new) : x.id = d => x.state \in S
    BY <2>3, <2>5
  <2> QED
    BY <1>4, <2>6, <2>7 DEF RightAfter, new, b, S
<1> QED
  BY <1>7, <1>8

\* What is read is right.
LEMMA ReadIsRight ==
    ASSUME TypeOK, NEW v \in CardViews, NEW ds \in SUBSET Desktops, \A e \in ds : InTable(row[e]),
           NEW d \in Desktops, d \in ds <=> Belongs(v, d, row[d])
    PROVE  ListRight(v, d, SetToSeq(CardsOf(ds))) /\ Once(SetToSeq(CardsOf(ds)))
<1> DEFINE list == SetToSeq(CardsOf(ds))
<1>1. /\ list \in Seq(Cards) /\ Once(list) /\ Range(list) = CardsOf(ds)
      /\ \A e \in ds : Card(e, row[e]) \in CardsOf(ds)
      /\ \A x \in CardsOf(ds) : x.id \in ds /\ x = Card(x.id, row[x.id]) /\ x \in Cards
  BY CardsListed
<1> HIDE DEF list
<1>2. Has(list, d) <=> \E x \in Range(list) : x.id = d
  BY <1>1, HasIs
<1>3. d \in ds => Card(d, row[d]).id = d
  BY CardIs
<1>4. Has(list, d) <=> d \in ds
  BY <1>1, <1>2, <1>3
<1>5. ASSUME NEW x \in Range(list), x.id = d PROVE x.state \in Shown(row[d])
  <2>1. d \in ds /\ x = Card(d, row[d]) /\ x \in Cards /\ InTable(row[d])
    BY <1>1, <1>5
  <2>2. CASE IsFrontend(row[d].status)
    <3>1. x.state = row[d].status
      BY <2>1, <2>2, CardIs
    <3> QED
      BY <2>1, <2>2, <3>1 DEF Shown
  <2>3. CASE ~ IsFrontend(row[d].status)
    BY <2>1, <2>3 DEF Shown, Cards, Statuses
  <2> QED
    BY <2>2, <2>3
<1> QED
  BY <1>1, <1>4, <1>5 DEF ListRight, CardListed, list

\* What is trusted after a quiet step was trusted before it.
LEMMA QuietTrusts ==
    ASSUME NEW v, Quiet(v), NEW list, Trusted(v, list)'
    PROVE  Trusted(v, list)
  BY DEF Quiet, Trusted

\* After a page is opened, after an answer, and after an event that is not for it.
LEMMA OpenTrusts ==
    ASSUME TypeOK, NEW w \in Views, Open(w), NEW v \in Views, NEW list, Trusted(v, list)'
    PROVE  Trusted(v, list)
<1>1. /\ asked'[w].step = "sent"
      /\ w # v => asked'[v] = asked[v]
      /\ store'[v] # store[v] => v \in Emptied
      /\ trust'[v] = IF trust[v] = "kept" /\ v \in Emptied \cup {w} THEN "due" ELSE trust[v]
  BY OpenIs
<1> QED
  BY <1>1 DEF Trusted

LEMMA AnswerTrusts ==
    ASSUME TypeOK, NEW w \in Views, Answer(w), NEW v \in Views, NEW list, Trusted(v, list)'
    PROVE  Trusted(v, list)
<1>1. /\ asked[w].step = "read" /\ store'[w] = asked[w].list /\ asked'[w] = NoFetch
      /\ trust'[w] = IF trust[w] = "missed" THEN "missed" ELSE IF asked[w].crossed THEN "due" ELSE "kept"
      /\ w # v => store'[v] = store[v] /\ asked'[v] = asked[v] /\ trust'[v] = trust[v]
  BY AnswerIs
<1>2. NoFetch.step = "none"
  BY DEF NoFetch
<1> QED
  BY <1>1, <1>2 DEF Trusted

LEMMA ReadTrusts ==
    ASSUME TypeOK, NEW w \in Views, Read(w), NEW v \in Views, NEW list, Trusted(v, list)'
    PROVE  \/ Trusted(v, list)
           \/ /\ v = w /\ list = Answered(v, asked[v].of) /\ ~ (v = "deployment" /\ ~ Exists(asked[v].of))
              /\ v = "deployment" => asked[v].of \in Deployments
<1>1. /\ store' = store
      /\ asked[w].step = "sent" /\ (w = "deployment" => asked[w].of \in Deployments)
      /\ w # v => asked'[v] = asked[v]
      /\ w = "deployment" /\ ~ Exists(asked[w].of) => asked'[w] = NoFetch
      /\ ~ (w = "deployment" /\ ~ Exists(asked[w].of)) => asked'[w].list = Answered(w, asked[w].of)
      /\ trust'[v] = IF v = w /\ Drained THEN "due" ELSE trust[v]
  BY ReadIs
<1>2. NoFetch.step = "none"
  BY DEF NoFetch
<1>3. CASE v # w
  BY <1>1, <1>3 DEF Trusted
<1>4. CASE v = w
  <2>1. CASE trust'[v] = "kept" /\ list = store'[v]
    BY <1>1, <1>4, <2>1 DEF Trusted
  <2>2. CASE asked'[v].step = "read" /\ list = asked'[v].list
    BY <1>1, <1>2, <1>4, <2>2
  <2> QED
    BY <2>1, <2>2 DEF Trusted
<1> QED
  BY <1>3, <1>4

\* After an event: the lists it is not for, and the list it is for, when it is kept.
LEMMA DeliverTrusts ==
    ASSUME TypeOK, Deliver, NEW v \in Views, NEW list, Trusted(v, list)'
    PROVE  LET e == Head(wire) IN
           /\ v # ViewOf(e) => Trusted(v, list)
           /\ v = ViewOf(e) =>
                 /\ Trusted(v, store[v]) /\ list = store'[v]
                 /\ e.what = "add" /\ e.subject \in {"desktop", "deployments"} => ~ Has(store[v], e.data.id)
<1> DEFINE e == Head(wire)
           w == ViewOf(e)
           twin == e.what = "add" /\ e.subject \in {"desktop", "deployments"} /\ Has(store[w], e.data.id)
<1>1. /\ trust'[w] = IF twin /\ trust[w] = "kept" THEN "due" ELSE trust[w]
      /\ asked'[w].crossed = (asked[w].crossed \/ asked[w].step = "read")
      /\ v # w => store'[v] = store[v] /\ trust'[v] = trust[v] /\ asked'[v] = asked[v]
      /\ asked'[v].step = asked[v].step
  BY DeliverIs
<1> HIDE DEF e, w
<1>2. CASE v # w
  BY <1>1, <1>2 DEF Trusted, w, e
<1>3. CASE v = w
  <2>1. ~ (asked'[v].step = "read" /\ ~ asked'[v].crossed)
    BY <1>1, <1>3
  <2>2. trust'[v] = "kept" /\ list = store'[v]
    BY <2>1 DEF Trusted
  <2>3. trust[v] = "kept" /\ ~ twin
    BY <1>1, <1>3, <2>2
  <2> QED
    BY <1>3, <2>2, <2>3 DEF Trusted, w, e
<1> QED
  BY <1>2, <1>3

-----------------------------------------------------------------------------
(* The user's list of desktops. *)

DesktopsRight ==
    \A list : Trusted("desktops", list) => Once(list) /\ \A d \in Desktops : ListRight("desktops", d, list)

\* A list that is trusted is a list of cards, and has nothing that is not inserted.
LEMMA TrustedDesktops ==
    ASSUME TypeOK, UnbornRows, NEW list, Trusted("desktops", list)
    PROVE  list \in Seq(Cards) /\ \A d \in Desktops : row[d] = Unborn => ~ Has(list, d)
  BY StoresTyped DEF Trusted, UnbornRows, Lists4

LEMMA DesktopsStep ==
    ASSUME Basic, Unborns, LinesRight, DesktopsRight, Steps
    PROVE  DesktopsRight'
<1>0. TypeOK /\ Idle /\ UnbornRows /\ "desktops" \in Views /\ "desktops" \in CardViews
  BY DEF Basic, Unborns, Views, CardViews
<1> SUFFICES ASSUME NEW list, Trusted("desktops", list)'
             PROVE  Once(list) /\ \A d \in Desktops : ListRight("desktops", d, list)'
  BY DEF DesktopsRight
<1>1. CASE ~ Browser
  <2>1. Quiet("desktops") /\ trust'["desktops"] # "missed"
    BY <1>0, <1>1, StepQuiet DEF Steps, Trusted
  <2>2. Trusted("desktops", list)
    BY <2>1, QuietTrusts
  <2>3. /\ Once(list) /\ list \in Seq(Cards)
        /\ \A d \in Desktops : ListRight("desktops", d, list) /\ (row[d] = Unborn => ~ Has(list, d))
    BY <1>0, <2>2, TrustedDesktops DEF DesktopsRight
  <2>4. \A d \in Desktops : Carried("desktops", d)
    BY <1>0, <1>1, <2>1, StepCarries DEF Steps, Covered
  <2>5. \A d \in Desktops : ListRight("desktops", d, list)'
    BY <2>3, <2>4 DEF Carried
  <2> QED
    BY <2>3, <2>5
<1>2. CASE \E v \in Views : Open(v) \/ Read(v) \/ Answer(v)
  <2>1. row' = row /\ wire' = wire /\ domains' = domains /\ changes' = changes
    BY <1>2 DEF Open, Read, Answer, tables, feeds
  <2>2. ASSUME NEW d \in Desktops, ListRight("desktops", d, list) PROVE ListRight("desktops", d, list)'
    BY <2>1, <2>2 DEF ListRight, CardListed
  <2>3. Trusted("desktops", list) \/ list = SetToSeq(DesktopsOf)
    BY <1>0, <1>2, OpenTrusts, AnswerTrusts, ReadTrusts, AnsweredIs
  <2>4. CASE Trusted("desktops", list)
    BY <2>2, <2>4 DEF DesktopsRight
  <2>5. CASE list = SetToSeq(DesktopsOf)
    <3> DEFINE ds == {e \in Desktops : Seen(e, row[e])}
    <3>1. ds \in SUBSET Desktops /\ \A e \in ds : InTable(row[e])
      BY DEF Seen
    <3>2. \A d \in Desktops : d \in ds <=> Belongs("desktops", d, row[d])
      BY DEF Belongs
    <3>3. list = SetToSeq(CardsOf(ds))
      BY <2>5 DEF DesktopsOf
    <3> HIDE DEF ds
    <3>4. ASSUME NEW d \in Desktops PROVE ListRight("desktops", d, list)
      BY <1>0, <3>1, <3>2, <3>3, ReadIsRight
    <3>5. Once(list)
      BY <1>0, <3>1, <3>3, CardsListed
    <3> QED
      BY <2>2, <3>4, <3>5
  <2> QED
    BY <2>3, <2>4, <2>5
<1>3. CASE Deliver
  <2> DEFINE e == Head(wire)
  <2>1. /\ row' = row /\ domains' = domains /\ changes' = changes /\ wire # <<>> /\ wire' = Tail(wire)
        /\ e \in Events /\ Lists(e)
    BY <1>0, <1>3, DeliverIs DEF tables
  <2>2. /\ "desktops" # ViewOf(e) => Trusted("desktops", list)
        /\ "desktops" = ViewOf(e) =>
              /\ Trusted("desktops", store["desktops"]) /\ list = store'["desktops"]
              /\ e.what = "add" /\ e.subject \in {"desktop", "deployments"} => ~ Has(store["desktops"], e.data.id)
    BY <1>0, <1>3, DeliverTrusts
  <2> HIDE DEF e
  <2>3. "desktops" = ViewOf(e) <=> e.subject = Subject("desktops")
    BY <2>1, EventIs DEF ViewOf, Subject
  <2>4. CASE "desktops" # ViewOf(e)
    <3>1. Trusted("desktops", list)
      BY <2>2, <2>4
    <3>2. ASSUME NEW d \in Desktops PROVE RightAfter("desktops", d, list)
      BY <1>0, <2>1, <2>3, <2>4, <3>1, SkippedIsRight DEF DesktopsRight, e
    <3> QED
      BY <2>1, <3>1, <3>2, AfterIsRight DEF DesktopsRight
  <2>5. CASE "desktops" = ViewOf(e)
    <3> DEFINE old == store["desktops"]
    <3>1. Trusted("desktops", old) /\ e.subject = "desktop"
      BY <2>2, <2>3, <2>5 DEF Subject
    <3>2. old \in Seq(Cards) /\ Once(old) /\ \A d \in Desktops : ListRight("desktops", d, old)
      BY <1>0, <3>1, TrustedDesktops DEF DesktopsRight
    <3>3. list = Edited(old, e.what, e.data) /\ (e.what = "add" => ~ Has(old, e.data.id))
      BY <2>1, <2>2, <2>5, <3>1 DEF Lists
    <3>4. e.what \in {"add", "update", "delete"} /\ e.data \in Cards
      BY <2>1, <3>1, EventIs
    <3> HIDE DEF old
    <3>5. Once(list)
      BY <3>2, <3>3, <3>4, EditedIs
    <3>6. ASSUME NEW d \in Desktops PROVE RightAfter("desktops", d, list)
      <4>1. LineRight("desktops", d)
        BY <1>0, <3>1 DEF LinesRight, Covered, Trusted
      <4> QED
        BY <1>0, <2>1, <2>3, <2>5, <3>2, <3>3, <4>1, EditedIsRight DEF e
    <3> QED
      BY <2>1, <3>5, <3>6, AfterIsRight
  <2> QED
    BY <2>4, <2>5
<1> QED
  BY <1>1, <1>2, <1>3 DEF Browser

\* A list without an id twice is as long as it has ids.
LEMMA LengthIs ==
    ASSUME NEW S, NEW list \in Seq(S), Once(list), NEW ids, ids = {list[i].id : i \in 1 .. Len(list)}
    PROVE  Len(list) = Cardinality(ids)
<1> DEFINE n == Len(list)
           f == [i \in 1 .. n |-> list[i].id]
<1>1. n \in Nat /\ f \in [1 .. n -> ids]
  OBVIOUS
<1>2. \A i, j \in 1 .. n : f[i] = f[j] => i = j
  BY DEF Once
<1>3. \A x \in ids : \E i \in 1 .. n : f[i] = x
  OBVIOUS
<1> HIDE DEF f, n
<1>4. f \in Bijection(1 .. n, ids)
  BY <1>1, <1>2, <1>3 DEF Bijection, Injection, Surjection, IsInjective
<1>5. ExistsBijection(1 .. n, ids)
  BY <1>4 DEF ExistsBijection
<1> QED
  BY <1>1, <1>5, FS_CountingElements DEF n

\* A list that is right about every desktop, of those there are and with their states.
LEMMA MatchesIs ==
    ASSUME TypeOK, NEW list \in Seq(Cards), Once(list), NEW ds \in SUBSET Desktops,
           \A d \in Desktops : Has(list, d) <=> d \in ds,
           \A x \in Range(list) : x.state \in Shown(row[x.id]),
           \A d \in ds : InTable(row[d])
    PROVE  Matches(list, ds)
<1> DEFINE ids == {list[i].id : i \in 1 .. Len(list)}
<1>1. /\ DOMAIN list = 1 .. Len(list) /\ \A i \in 1 .. Len(list) : list[i] \in Range(list) /\ list[i] \in Cards
      /\ \A x \in Range(list) : \E i \in 1 .. Len(list) : list[i] = x
  BY RangeIs
<1>2. \A x \in Cards : x.id \in Desktops
  BY DEF Cards
<1>3. \A d : Has(list, d) <=> d \in ids
  BY <1>1 DEF Has
<1>4. ids = ds
  <2>1. \A d \in ids : d \in Desktops
    BY <1>1, <1>2
  <2> HIDE DEF ids
  <2> QED
    BY <1>3, <2>1
<1>5. Len(list) = Cardinality(ds)
  BY <1>4, LengthIs
<1>6. ASSUME NEW i \in 1 .. Len(list), IsFrontend(row[list[i].id].status) PROVE list[i].state = row[list[i].id].status
  <2> DEFINE d == list[i].id
  <2>1. d \in ds /\ InTable(row[d])
    BY <1>1, <1>4
  <2>2. list[i].state \in Shown(row[d])
    BY <1>1
  <2> QED
    BY <1>6, <2>1, <2>2 DEF Shown
<1> QED
  BY <1>1, <1>4, <1>5, <1>6 DEF Matches

LEMMA DesktopsAgreeIs ==
    ASSUME TypeOK, UnbornRows, DesktopsRight, Drained
    PROVE  DesktopsAgree
<1> SUFFICES ASSUME trust["desktops"] = "kept" PROVE Matches(store["desktops"], {d \in Desktops : Seen(d, row[d])})
  BY DEF DesktopsAgree, Kept
<1> DEFINE list == store["desktops"]
           ds == {d \in Desktops : Seen(d, row[d])}
<1>1. Trusted("desktops", list)
  BY DEF Trusted
<1>2. list \in Seq(Cards) /\ Once(list) /\ \A d \in Desktops : ListRight("desktops", d, list)
  BY <1>1, TrustedDesktops DEF DesktopsRight
<1>3. wire = <<>> /\ domains.held = <<>> /\ changes = <<>>
  BY DEF Drained
<1>4. \A T : Clear(wire, domains.held, changes, T)
  BY <1>3, NothingQueued
<1> HIDE DEF list
<1>5. \A d \in Desktops : Has(list, d) <=> d \in ds
  BY <1>2, <1>4 DEF ListRight, CardListed, Belongs
<1>6. \A x \in Range(list) : x.state \in Shown(row[x.id])
  <2>1. ASSUME NEW x \in Range(list) PROVE x.id \in Desktops
    <3>1. x \in Cards
      BY <1>2, RangeIs
    <3> QED
      BY <3>1 DEF Cards
  <2> QED
    BY <1>2, <1>4, <2>1 DEF ListRight, CardListed
<1>7. ds \in SUBSET Desktops /\ \A d \in ds : InTable(row[d])
  BY DEF Seen
<1> HIDE DEF ds
<1>8. Matches(list, ds)
  BY <1>2, <1>5, <1>6, <1>7, MatchesIs
<1> QED
  BY <1>8 DEF list, ds

\* The lists of desktops so far.
DesktopsInv == Basic /\ Unborns /\ LinesRight /\ DesktopsRight

LEMMA DesktopsInvInit == Init => DesktopsInv
<1> SUFFICES ASSUME Init PROVE DesktopsRight
  BY BasicInit, UnbornInit, LinesInit DEF DesktopsInv
<1>1. trust["desktops"] = "due" /\ asked["desktops"].step = "none"
  BY DEF Init, Views, NoFetch
<1> QED
  BY <1>1 DEF DesktopsRight, Trusted

LEMMA DesktopsInvStep == DesktopsInv /\ [Next]_vars => DesktopsInv'
<1> SUFFICES ASSUME DesktopsInv, [Next]_vars PROVE DesktopsInv'
  OBVIOUS
<1>1. Basic' /\ Unborns'
  BY BasicStep, UnbornStep DEF DesktopsInv
<1>2. Steps
  <2>1. TypeOK /\ DepsServed
    BY DEF DesktopsInv, Basic
  <2>2. UNCHANGED vars => OtherStep
    BY <2>1, TablesTyped DEF vars, tables, feeds, browser, OtherStep
  <2>3. Next => Steps
    BY <2>1, NextIs
  <2> QED
    BY <2>2, <2>3 DEF Steps
<1>3. LinesRight' /\ DesktopsRight'
  BY <1>2, LinesStep, DesktopsStep DEF DesktopsInv
<1> QED
  BY <1>1, <1>3 DEF DesktopsInv

-----------------------------------------------------------------------------
(* The lists of deployments: what DeploymentsThread queues, holds and tells of one. *)

\* What adds it to the list or takes it out, and those that end with it in the list iff b.
DepTurns(p) ==
    [wire |-> {e \in Events : e.subject = "deployments" /\ e.data.id = p /\ e.what # "update"},
     held |-> {h \in HeldDepChanges : h.id = p /\ h.event = "add"},
     queue |-> {c \in DepChanges : c.id = p /\ c.event # "update"}]
DepTurned(b) ==
    [wire |-> {e \in Events : (e.what = "add") <=> b},
     held |-> {h \in HeldDepChanges : b},
     queue |-> {c \in DepChanges : (c.event = "add") <=> b}]

\* What gives its visibility to its page, and those that give one of S.
Sights(p) ==
    [wire |-> {e \in Events : e.subject = "deployment" /\ e.data.id = p},
     held |-> {h \in HeldDepChanges : h.id = p /\ h.event = "update"},
     queue |-> {c \in DepChanges : c.id = p /\ c.event = "update"}]
Sighted(S) ==
    [wire |-> {e \in Events : e.subject = "deployment" /\ e.data.visible \in S},
     held |-> {h \in HeldDepChanges : h.summary.visible \in S},
     queue |-> {c \in DepChanges : S # {}}]
Visibles(p) == IF Exists(p) THEN {dep[p].visible} ELSE IF dep[p].state = "unborn" THEN {} ELSE BOOLEAN

TurnLine(p, b) == Right(wire, deployments.held, depChanges, DepTurns(p), DepTurns(p), DepTurned(b))
SightLine(p, S) == Right(wire, deployments.held, depChanges, Sights(p), Sights(p), Sighted(S))
TurnClear(p) == Clear(wire, deployments.held, depChanges, DepTurns(p))
SightClear(p) == Clear(wire, deployments.held, depChanges, Sights(p))

\* The queues end with what they ended with.
QueuesCarry(p, b, S) ==
    /\ Right(wire, deployments.held, depChanges, DepTurns(p), DepTurns(p), DepTurned(b))
       => Right(wire', deployments'.held, depChanges', DepTurns(p), DepTurns(p), DepTurned(b))
    /\ Right(wire, deployments.held, depChanges, Sights(p), Sights(p), Sighted(S))
       => Right(wire', deployments'.held, depChanges', Sights(p), Sights(p), Sighted(S))
    /\ Clear(wire', deployments'.held, depChanges', DepTurns(p))
       => Clear(wire, deployments.held, depChanges, DepTurns(p))
    /\ Clear(wire', deployments'.held, depChanges', Sights(p))
       => Clear(wire, deployments.held, depChanges, Sights(p))

LEMMA QueuesStay ==
    ASSUME NEW p, NEW b, NEW S, wire' = wire, deployments'.held = deployments.held, depChanges' = depChanges
    PROVE  QueuesCarry(p, b, S)
  BY DEF QueuesCarry

\* What DeploymentsThread holds stays what it is about when it is overtaken.
LEMMA LateDepStands ==
    ASSUME NEW h \in HeldDepChanges, NEW s, NEW p, NEW b, NEW S
    PROVE  LET k == Late(h, s) IN
           /\ h \in DepTurns(p).held <=> k \in DepTurns(p).held
           /\ h \in Sights(p).held <=> k \in Sights(p).held
           /\ h \in DepTurned(b).held <=> k \in DepTurned(b).held
           /\ h \in Sighted(S).held <=> k \in Sighted(S).held
<1> DEFINE k == Late(h, s)
<1>1. k \in HeldDepChanges /\ k.id = h.id /\ k.event = h.event /\ k.summary = h.summary
  BY LateIs
<1> HIDE DEF k
<1>2. /\ h \in DepTurns(p).held <=> k \in DepTurns(p).held
      /\ h \in Sights(p).held <=> k \in Sights(p).held
  BY <1>1 DEF DepTurns, Sights
<1>3. /\ h \in DepTurned(b).held <=> k \in DepTurned(b).held
      /\ h \in Sighted(S).held <=> k \in Sighted(S).held
  BY <1>1 DEF DepTurned, Sighted
<1> QED
  BY <1>2, <1>3 DEF k

\* Events that neither add nor remove deployments come, and what is held may be overtaken.
Strange(ev) == \A i \in 1 .. Len(ev) : ev[i].subject \in {"desktop", "deploymentdesktop"} \/ (ev[i].subject = "deployments" /\ ev[i].what = "update")
LEMMA StrangeCarry ==
    ASSUME TypeOK, NEW ev \in Seq(Events), Strange(ev), wire' = wire \o ev, depChanges' = depChanges,
           NEW p, NEW b, NEW S,
           \/ deployments'.held = deployments.held
           \/ \E h \in HeldDepChanges : \E s : deployments.held = <<h>> /\ deployments'.held = <<Late(h, s)>>
    PROVE  QueuesCarry(p, b, S)
<1>1. wire \in Seq(Events)
  BY TypesAre DEF QueuesTyped
<1>2. Free(ev, DepTurns(p).wire) /\ Free(ev, Sights(p).wire)
  <2>1. ASSUME NEW i \in 1 .. Len(ev) PROVE ev[i] \notin DepTurns(p).wire /\ ev[i] \notin Sights(p).wire
    BY DEF Strange, DepTurns, Sights
  <2> QED
    BY <2>1 DEF Free
<1>3. \A T : Free(ev, T.wire) =>
         (Clear(wire, deployments.held, depChanges, T) <=> Clear(wire', deployments.held, depChanges, T))
  BY <1>1, OthersEmit
<1>4. \A A, U, G : Free(ev, A.wire) /\ Free(ev, U.wire) /\ Right(wire, deployments.held, depChanges, A, U, G)
                      => Right(wire', deployments.held, depChanges, A, U, G)
  BY <1>1, OthersEmit
<1>5. /\ Right(wire', deployments.held, depChanges, DepTurns(p), DepTurns(p), DepTurned(b))
           => Right(wire', deployments'.held, depChanges, DepTurns(p), DepTurns(p), DepTurned(b))
      /\ Right(wire', deployments.held, depChanges, Sights(p), Sights(p), Sighted(S))
           => Right(wire', deployments'.held, depChanges, Sights(p), Sights(p), Sighted(S))
      /\ Clear(wire', deployments'.held, depChanges, DepTurns(p)) => Clear(wire', deployments.held, depChanges, DepTurns(p))
      /\ Clear(wire', deployments'.held, depChanges, Sights(p)) => Clear(wire', deployments.held, depChanges, Sights(p))
  <2>1. CASE deployments'.held = deployments.held
    BY <2>1
  <2>2. ASSUME NEW h \in HeldDepChanges, NEW s, deployments.held = <<h>>, deployments'.held = <<Late(h, s)>>
        PROVE  <1>5!1 /\ <1>5!2 /\ <1>5!3 /\ <1>5!4
    <3> DEFINE k == Late(h, s)
    <3>1. /\ h \in DepTurns(p).held <=> k \in DepTurns(p).held
          /\ h \in Sights(p).held <=> k \in Sights(p).held
          /\ h \in DepTurned(b).held <=> k \in DepTurned(b).held
          /\ h \in Sighted(S).held <=> k \in Sighted(S).held
      BY LateDepStands
    <3> HIDE DEF k
    <3>2. \A T : (h \in T.held <=> k \in T.held) =>
             (Clear(wire', <<h>>, depChanges, T) <=> Clear(wire', <<k>>, depChanges, T))
      BY Replaced
    <3>3. \A A, U, G :
             /\ h \in U.held <=> k \in U.held
             /\ (h \in A.held => h \in G.held) => (k \in A.held => k \in G.held)
             /\ Right(wire', <<h>>, depChanges, A, U, G)
             => Right(wire', <<k>>, depChanges, A, U, G)
      BY Replaced
    <3>4. /\ Right(wire', <<h>>, depChanges, DepTurns(p), DepTurns(p), DepTurned(b))
               => Right(wire', <<k>>, depChanges, DepTurns(p), DepTurns(p), DepTurned(b))
          /\ Right(wire', <<h>>, depChanges, Sights(p), Sights(p), Sighted(S))
               => Right(wire', <<k>>, depChanges, Sights(p), Sights(p), Sighted(S))
      BY <3>1, <3>3
    <3>5. /\ Clear(wire', <<k>>, depChanges, DepTurns(p)) => Clear(wire', <<h>>, depChanges, DepTurns(p))
          /\ Clear(wire', <<k>>, depChanges, Sights(p)) => Clear(wire', <<h>>, depChanges, Sights(p))
      BY <3>1, <3>2
    <3> QED
      BY <2>2, <3>4, <3>5 DEF k
  <2> QED
    BY <2>1, <2>2
<1>6. /\ Right(wire, deployments.held, depChanges, DepTurns(p), DepTurns(p), DepTurned(b))
           => Right(wire', deployments'.held, depChanges, DepTurns(p), DepTurns(p), DepTurned(b))
      /\ Right(wire, deployments.held, depChanges, Sights(p), Sights(p), Sighted(S))
           => Right(wire', deployments'.held, depChanges, Sights(p), Sights(p), Sighted(S))
      /\ Clear(wire', deployments'.held, depChanges, DepTurns(p)) => Clear(wire, deployments.held, depChanges, DepTurns(p))
      /\ Clear(wire', deployments'.held, depChanges, Sights(p)) => Clear(wire, deployments.held, depChanges, Sights(p))
  BY <1>2, <1>3, <1>4, <1>5
<1> QED
  BY <1>6 DEF QueuesCarry

\* What DomainsThread emits is strange to it.
LEMMA UserEventsAreStrange ==
    ASSUME NEW c \in Changes, EventOf(c) # "none"
    PROVE  Strange(UserEvents(c))
<1> DEFINE card == Card(c.id, RowOf(c))
           e1 == Event("desktop", EventOf(c), card)
           e2 == Event("desktop", "delete", card)
           T == {e \in Events : e.subject # "desktop"}
<1>1. e1 \notin T /\ e2 \notin T
  BY DEF Event
<1>2. Free(UserEvents(c), T) <=> e1 \notin T /\ (Hides(c) => e2 \notin T)
  BY UserEventsAre
<1>3. Free(UserEvents(c), T) /\ UserEvents(c) \in Seq(Events)
  BY <1>1, <1>2, EventsAre
<1> DEFINE ev == UserEvents(c)
<1> HIDE DEF ev
<1>4. ASSUME NEW i \in 1 .. Len(ev) PROVE ev[i].subject = "desktop"
  BY <1>3 DEF ev, Free
<1> QED
  BY <1>4 DEF Strange, ev

LEMMA ToldAreStrange ==
    ASSUME NEW h \in HeldChanges
    PROVE  Strange(ToldEvents(h))
<1> DEFINE e1 == Event("deploymentdesktop", h.event, h.card)
           e2 == Event("deployments", "update", h.summary)
           q == <<e1, e2>>
<1>1. e1.subject = "deploymentdesktop" /\ e2.subject = "deployments" /\ e2.what = "update"
  BY DEF Event
<1>2. Len(q) = 2 /\ q[1] = e1 /\ q[2] = e2 /\ ToldEvents(h) = q
  BY DEF ToldEvents
<1> HIDE DEF q, e1, e2
<1>3. \A i \in 1 .. Len(q) : i = 1 \/ i = 2
  BY <1>2
<1>4. Strange(q)
  BY <1>1, <1>2, <1>3 DEF Strange
<1> QED
  BY <1>2, <1>4

DepViews == {"deployment", "deployments"}

\* What the deployment's thread tells of a change stands for it.
LEMMA GoneStands ==
    ASSUME NEW c \in DepChanges, c.event = "delete", NEW p, NEW b, NEW S
    PROVE  /\ StandsFor(c, GoneEvents(c.id), <<>>, DepTurns(p), DepTurns(p), DepTurned(b))
           /\ StandsFor(c, GoneEvents(c.id), <<>>, Sights(p), Sights(p), Sighted(S))
           /\ CountsFor(c, GoneEvents(c.id), <<>>, DepTurns(p))
           /\ CountsFor(c, GoneEvents(c.id), <<>>, Sights(p))
<1> DEFINE e == Event("deployments", "delete", [id |-> c.id])
<1>1. e.subject = "deployments" /\ e.what = "delete" /\ e.data.id = c.id /\ e \in Events
  BY DEF Event, Events, DepChanges
<1>2. GoneEvents(c.id) = <<e>>
  BY DEF GoneEvents
<1> HIDE DEF e
<1>3. /\ \A T : Free(<<e>>, T) <=> e \notin T
      /\ \A A, U, G : Settled(<<e>>, A, U, G) <=> (e \in A => e \in G)
      /\ \A T : Free(<<>>, T)
      /\ \A A, U, G : Settled(<<>>, A, U, G)
  BY FreeShort, SettledShort
<1>4. /\ e \in DepTurns(p).wire <=> c \in DepTurns(p).queue
      /\ e \notin Sights(p).wire /\ c \notin Sights(p).queue
      /\ c \in DepTurned(b).queue => e \in DepTurned(b).wire
  BY <1>1 DEF DepTurns, Sights, DepTurned
<1>5. /\ StandsFor(c, <<e>>, <<>>, DepTurns(p), DepTurns(p), DepTurned(b))
      /\ CountsFor(c, <<e>>, <<>>, DepTurns(p))
  BY <1>3, <1>4 DEF StandsFor, CountsFor
<1>6. /\ StandsFor(c, <<e>>, <<>>, Sights(p), Sights(p), Sighted(S))
      /\ CountsFor(c, <<e>>, <<>>, Sights(p))
  BY <1>3, <1>4 DEF StandsFor, CountsFor
<1> QED
  BY <1>2, <1>5, <1>6

LEMMA HeldStands ==
    ASSUME NEW c \in DepChanges, c.event # "delete", NEW p, NEW b, NEW S, NEW h \in HeldDepChanges,
           h.id = c.id, h.event = c.event, c.id = p /\ S # {} => h.summary.visible \in S
    PROVE  /\ StandsFor(c, <<>>, <<h>>, DepTurns(p), DepTurns(p), DepTurned(b))
           /\ StandsFor(c, <<>>, <<h>>, Sights(p), Sights(p), Sighted(S))
           /\ CountsFor(c, <<>>, <<h>>, DepTurns(p))
           /\ CountsFor(c, <<>>, <<h>>, Sights(p))
<1>3. /\ \A T : Free(<<h>>, T) <=> h \notin T
      /\ \A A, U, G : Settled(<<h>>, A, U, G) <=> (h \in A => h \in G)
      /\ \A T : Free(<<>>, T)
      /\ \A A, U, G : Settled(<<>>, A, U, G)
  BY FreeShort, SettledShort
<1>4. c.event \in {"add", "update"}
  BY DEF DepChanges
<1>5. /\ h \in DepTurns(p).held <=> c \in DepTurns(p).queue
      /\ h \in Sights(p).held <=> c \in Sights(p).queue
      /\ c \in DepTurns(p).queue /\ c \in DepTurned(b).queue => h \in DepTurned(b).held
      /\ c \in Sights(p).queue /\ c \in Sighted(S).queue => h \in Sighted(S).held
  BY <1>4 DEF DepTurns, Sights, DepTurned, Sighted
<1>6. /\ StandsFor(c, <<>>, <<h>>, DepTurns(p), DepTurns(p), DepTurned(b))
      /\ CountsFor(c, <<>>, <<h>>, DepTurns(p))
  BY <1>3, <1>5 DEF StandsFor, CountsFor
<1>7. /\ StandsFor(c, <<>>, <<h>>, Sights(p), Sights(p), Sighted(S))
      /\ CountsFor(c, <<>>, <<h>>, Sights(p))
  BY <1>3, <1>5 DEF StandsFor, CountsFor
<1> QED
  BY <1>6, <1>7

\* What is emitted, and then held, is carried.
LEMMA TakenCarries ==
    ASSUME TypeOK, depChanges # <<>>, deployments.held = <<>>, NEW ev \in Seq(Events), NEW hh,
           wire' = wire \o ev, deployments'.held = hh, depChanges' = Tail(depChanges),
           NEW c, c = Head(depChanges), NEW p, NEW b, NEW S,
           StandsFor(c, ev, hh, DepTurns(p), DepTurns(p), DepTurned(b)),
           StandsFor(c, ev, hh, Sights(p), Sights(p), Sighted(S)),
           CountsFor(c, ev, hh, DepTurns(p)), CountsFor(c, ev, hh, Sights(p))
    PROVE  QueuesCarry(p, b, S)
<1>1. wire \in Seq(Events) /\ depChanges \in Seq(DepChanges)
  BY TypesAre DEF QueuesTyped
<1>2. /\ \A T : CountsFor(c, ev, hh, T) => (Clear(wire, <<>>, depChanges, T) <=> Clear(wire \o ev, hh, Tail(depChanges), T))
      /\ \A A, U, G : StandsFor(c, ev, hh, A, U, G) /\ Right(wire, <<>>, depChanges, A, U, G)
                         => Right(wire \o ev, hh, Tail(depChanges), A, U, G)
  BY <1>1, Taken
<1>3. /\ Right(wire, <<>>, depChanges, DepTurns(p), DepTurns(p), DepTurned(b))
           => Right(wire', hh, depChanges', DepTurns(p), DepTurns(p), DepTurned(b))
      /\ Right(wire, <<>>, depChanges, Sights(p), Sights(p), Sighted(S))
           => Right(wire', hh, depChanges', Sights(p), Sights(p), Sighted(S))
      /\ Clear(wire', hh, depChanges', DepTurns(p)) => Clear(wire, <<>>, depChanges, DepTurns(p))
      /\ Clear(wire', hh, depChanges', Sights(p)) => Clear(wire, <<>>, depChanges, Sights(p))
  BY <1>2
<1> QED
  BY <1>3 DEF QueuesCarry

LEMMA TakeDepChangeQueues ==
    ASSUME TypeOK, TakeDepChange, NEW v \in DepViews, trust'[v] # "missed", NEW p \in Deployments
    PROVE  QueuesCarry(p, Exists(p), Visibles(p))
<1> DEFINE c == Head(depChanges)
           k == [id |-> c.id, event |-> c.event, summary |-> Get(c.id), late |-> FALSE]
<1>1. /\ deployments.held = <<>> /\ depChanges # <<>> /\ c \in DepChanges
      /\ depChanges' = Tail(depChanges)
      /\ c.event = "delete" =>
            /\ GoneEvents(c.id) \in Seq(Events)
            /\ wire' = wire \o (IF online THEN GoneEvents(c.id) ELSE <<>>) /\ deployments'.held = <<>>
            /\ Spoilt(IF online THEN {} ELSE Views)
      /\ c.event # "delete" /\ Exists(c.id) =>
            wire' = wire /\ deployments'.held = <<k>> /\ deployments'.held[1] \in HeldDepChanges
      /\ c.event # "delete" /\ ~ Exists(c.id) => Spoilt({"deployment", "deployments"})
  BY TakeDepChangeIs
<1>2. v \in Views /\ v \in {"deployment", "deployments"} /\ wire \in Seq(Events)
  BY TypesAre DEF DepViews, Views, QueuesTyped
<1> DEFINE b == Exists(p)
           S == Visibles(p)
<1>3. c.event # "delete" => k \in HeldDepChanges /\ k.id = c.id /\ k.event = c.event
                            /\ (c.id = p /\ S # {} => k.summary.visible \in S)
  <2> SUFFICES ASSUME c.event # "delete" PROVE k \in HeldDepChanges /\ k.id = c.id /\ k.event = c.event
                            /\ (c.id = p /\ S # {} => k.summary.visible \in S)
    OBVIOUS
  <2>0. Exists(c.id)
    BY <1>1, <1>2 DEF Spoilt
  <2>1. <<k>>[1] = k /\ k.id = c.id /\ k.event = c.event /\ k.summary = Get(c.id)
    OBVIOUS
  <2>2. k \in HeldDepChanges
    <3>1. deployments'.held = <<k>> /\ deployments'.held[1] \in HeldDepChanges
      BY <1>1, <2>0
    <3> HIDE DEF k
    <3> QED
      BY <3>1
  <2>3. c.id = p => Get(c.id).visible \in S
    <3>1. c.id = p => Get(c.id).visible = dep[p].visible
      BY GetIs
    <3> QED
      BY <2>0, <3>1 DEF Visibles
  <2> HIDE DEF k, c, S
  <2> QED
    BY <2>1, <2>2, <2>3
<1>4. c.event # "delete" => Exists(c.id)
  BY <1>1, <1>2 DEF Spoilt
<1> HIDE DEF k, b, S, c
<1>5. CASE c.event = "delete"
  <2>1. online
    BY <1>1, <1>2, <1>5 DEF Spoilt
  <2>2. wire' = wire \o GoneEvents(c.id) /\ GoneEvents(c.id) \in Seq(Events) /\ deployments'.held = <<>>
    BY <1>1, <1>5, <2>1
  <2>3. /\ StandsFor(c, GoneEvents(c.id), <<>>, DepTurns(p), DepTurns(p), DepTurned(b))
        /\ StandsFor(c, GoneEvents(c.id), <<>>, Sights(p), Sights(p), Sighted(S))
        /\ CountsFor(c, GoneEvents(c.id), <<>>, DepTurns(p))
        /\ CountsFor(c, GoneEvents(c.id), <<>>, Sights(p))
    BY <1>1, <1>5, GoneStands
  <2> QED
    BY <1>1, <2>2, <2>3, TakenCarries DEF b, S, c
<1>6. CASE c.event # "delete"
  <2>1. wire' = wire \o <<>> /\ <<>> \in Seq(Events) /\ deployments'.held = <<k>>
    BY <1>1, <1>2, <1>4, <1>6
  <2>2. /\ StandsFor(c, <<>>, <<k>>, DepTurns(p), DepTurns(p), DepTurned(b))
        /\ StandsFor(c, <<>>, <<k>>, Sights(p), Sights(p), Sighted(S))
        /\ CountsFor(c, <<>>, <<k>>, DepTurns(p))
        /\ CountsFor(c, <<>>, <<k>>, Sights(p))
    BY <1>1, <1>3, <1>6, HeldStands
  <2> QED
    BY <1>1, <2>1, <2>2, TakenCarries DEF b, S, c
<1> QED
  BY <1>5, <1>6

\* What DeploymentsThread tells stands for what it held.
LEMMA ToldDepStands ==
    ASSUME NEW h \in HeldDepChanges, h.summary.id = h.id, NEW p, NEW b, NEW S
    PROVE  /\ h \notin DepTurns(p).held <=> Free(ToldOf(h), DepTurns(p).wire)
           /\ h \notin Sights(p).held <=> Free(ToldOf(h), Sights(p).wire)
           /\ (h \in DepTurns(p).held => h \in DepTurned(b).held)
                 => Settled(ToldOf(h), DepTurns(p).wire, DepTurns(p).wire, DepTurned(b).wire)
           /\ (h \in Sights(p).held => h \in Sighted(S).held)
                 => Settled(ToldOf(h), Sights(p).wire, Sights(p).wire, Sighted(S).wire)
<1> DEFINE e1 == Event("deployment", "update", h.summary)
           e2 == Event("deployments", h.event, h.summary)
           ev == ToldOf(h)
<1>1. h.event \in {"add", "update"} /\ h.summary \in Summaries
  BY DEF HeldDepChanges
<1>2. /\ e1 \in Events /\ e1.subject = "deployment" /\ e1.data = h.summary
      /\ e2 \in Events /\ e2.subject = "deployments" /\ e2.what = h.event /\ e2.data = h.summary
  BY <1>1 DEF Event, Events
<1> HIDE DEF e1, e2
<1>3. /\ e1 \notin DepTurns(p).wire /\ e2 \notin Sights(p).wire
      /\ e2 \in DepTurns(p).wire <=> h \in DepTurns(p).held
      /\ h.event = "update" => (e1 \in Sights(p).wire <=> h \in Sights(p).held)
      /\ h.event # "update" => h \notin Sights(p).held
      /\ h \in DepTurns(p).held /\ h \in DepTurned(b).held => e2 \in DepTurned(b).wire
      /\ h \in Sighted(S).held => e1 \in Sighted(S).wire
  BY <1>1, <1>2 DEF DepTurns, Sights, DepTurned, Sighted
<1>4. CASE h.event = "update"
  <2>1. ev = <<e1>> \o <<e2>>
    <3>1. ToldOf(h) = <<e1>> \o <<e2>>
      BY ONLY <1>4 DEF ToldOf, e1, e2
    <3> QED
      BY <3>1
  <2>2. ASSUME NEW T PROVE Free(ev, T) <=> e1 \notin T /\ e2 \notin T
    <3>1. Free(<<e1>> \o <<e2>>, T) <=> e1 \notin T /\ e2 \notin T
      BY <1>2, TwoAre
    <3> QED
      BY <2>1, <3>1
  <2>3. ASSUME NEW A, NEW U, NEW G
        PROVE  Settled(ev, A, U, G) <=> (e2 \in A => e2 \in G) /\ (e2 \notin U => (e1 \in A => e1 \in G))
    <3>1. Settled(<<e1>> \o <<e2>>, A, U, G) <=> (e2 \in A => e2 \in G) /\ (e2 \notin U => (e1 \in A => e1 \in G))
      BY <1>2, TwoAre
    <3> QED
      BY <2>1, <3>1
  <2> HIDE DEF ev
  <2>4. /\ h \notin DepTurns(p).held <=> Free(ev, DepTurns(p).wire)
        /\ h \notin Sights(p).held <=> Free(ev, Sights(p).wire)
    BY <1>3, <1>4, <2>2
  <2>5. /\ (h \in DepTurns(p).held => h \in DepTurned(b).held)
              => Settled(ev, DepTurns(p).wire, DepTurns(p).wire, DepTurned(b).wire)
        /\ (h \in Sights(p).held => h \in Sighted(S).held)
              => Settled(ev, Sights(p).wire, Sights(p).wire, Sighted(S).wire)
    BY <1>3, <1>4, <2>3
  <2> QED
    BY <2>4, <2>5 DEF ev
<1>5. CASE h.event # "update"
  <2>1. ev = <<e2>>
    <3>1. <<>> \o <<e2>> = <<e2>>
      OBVIOUS
    <3> QED
      BY <1>5, <3>1 DEF ToldOf, e2
  <2> HIDE DEF ev
  <2>2. /\ \A T : Free(<<e2>>, T) <=> e2 \notin T
        /\ \A A, U, G : Settled(<<e2>>, A, U, G) <=> (e2 \in A => e2 \in G)
    BY FreeShort, SettledShort
  <2>3. /\ h \notin DepTurns(p).held <=> Free(ev, DepTurns(p).wire)
        /\ h \notin Sights(p).held <=> Free(ev, Sights(p).wire)
    BY <1>3, <1>5, <2>1, <2>2
  <2>4. /\ (h \in DepTurns(p).held => h \in DepTurned(b).held)
              => Settled(ev, DepTurns(p).wire, DepTurns(p).wire, DepTurned(b).wire)
        /\ (h \in Sights(p).held => h \in Sighted(S).held)
              => Settled(ev, Sights(p).wire, Sights(p).wire, Sighted(S).wire)
    BY <1>3, <1>5, <2>1, <2>2
  <2> QED
    BY <2>3, <2>4 DEF ev
<1> QED
  BY <1>4, <1>5

\* What a thread holds is of the deployment it names, and so is the desktop.
Named ==
    /\ \A h \in HeldChanges : domains.held = <<h>> => h.summary.id = h.id /\ Tag[h.card.id] = h.id
    /\ \A h \in HeldDepChanges : deployments.held = <<h>> => h.summary.id = h.id

\* What is held is overtaken or not.
LEMMA OvertakenHolds ==
    ASSUME TypeOK, NEW s
    PROVE  /\ domains' = Overtaken(domains, s) =>
                 \/ domains'.held = domains.held
                 \/ \E k \in HeldChanges : domains.held = <<k>> /\ domains'.held = <<Late(k, s)>>
           /\ deployments' = Overtaken(deployments, s) =>
                 \/ deployments'.held = deployments.held
                 \/ \E k \in HeldDepChanges : deployments.held = <<k>> /\ deployments'.held = <<Late(k, s)>>
<1>1. domains \in Threads(HeldChanges) /\ deployments \in Threads(HeldDepChanges)
  BY TypesAre DEF QueuesTyped
<1>2. /\ domains.held = <<>> => Overtaken(domains, s).held = <<>>
      /\ domains.held # <<>> => Overtaken(domains, s).held = <<Late(domains.held[1], s)>>
  BY <1>1, OvertakenIs
<1>3. domains.held = <<>> \/ (domains.held = <<domains.held[1]>> /\ domains.held[1] \in HeldChanges /\ domains.held # <<>>)
  BY <1>1, HeldIs
<1>4. /\ deployments.held = <<>> => Overtaken(deployments, s).held = <<>>
      /\ deployments.held # <<>> => Overtaken(deployments, s).held = <<Late(deployments.held[1], s)>>
  BY <1>1, OvertakenIs
<1>5. deployments.held = <<>>
      \/ (deployments.held = <<deployments.held[1]>> /\ deployments.held[1] \in HeldDepChanges /\ deployments.held # <<>>)
  BY <1>1, HeldIs
<1> QED
  BY <1>2, <1>3, <1>4, <1>5

LEMMA TellDeploymentsQueues ==
    ASSUME TypeOK, Named, TellDeployments, NEW v \in DepViews, trust'[v] # "missed", NEW p \in Deployments
    PROVE  QueuesCarry(p, Exists(p), Visibles(p))
<1> DEFINE h == deployments.held[1]
           ev == ToldOf(h)
           b == Exists(p)
           S == Visibles(p)
<1>1. /\ deployments.held = <<h>> /\ h \in HeldDepChanges /\ deployments'.held = <<>>
      /\ ev \in Seq(Events)
      /\ wire' = wire \o (IF online THEN ev ELSE <<>>)
      /\ Spoilt(IF online THEN IF h.late THEN {"deployments"} ELSE {} ELSE Views)
  BY TellDeploymentsIs
<1>2. v \in Views /\ wire \in Seq(Events) /\ depChanges' = depChanges
  BY TypesAre DEF DepViews, Views, QueuesTyped, TellDeployments, tables
<1> HIDE DEF h, ev, b, S
<1>3. online
  BY <1>1, <1>2 DEF Spoilt
<1>4. wire' = wire \o ev /\ h.summary.id = h.id
  BY <1>1, <1>3 DEF Named
<1>5. /\ h \notin DepTurns(p).held <=> Free(ev, DepTurns(p).wire)
      /\ h \notin Sights(p).held <=> Free(ev, Sights(p).wire)
      /\ (h \in DepTurns(p).held => h \in DepTurned(b).held)
            => Settled(ev, DepTurns(p).wire, DepTurns(p).wire, DepTurned(b).wire)
      /\ (h \in Sights(p).held => h \in Sighted(S).held)
            => Settled(ev, Sights(p).wire, Sights(p).wire, Sighted(S).wire)
  BY <1>1, <1>4, ToldDepStands DEF ev
<1>6. \A T : (h \notin T.held <=> Free(ev, T.wire))
                => (Clear(wire, <<h>>, depChanges, T) <=> Clear(wire \o ev, <<>>, depChanges, T))
  BY <1>1, <1>2, Told
<1>7. \A A, U, G :
        /\ h \notin U.held <=> Free(ev, U.wire)
        /\ (h \in A.held => h \in G.held) => Settled(ev, A.wire, U.wire, G.wire)
        /\ Right(wire, <<h>>, depChanges, A, U, G)
        => Right(wire \o ev, <<>>, depChanges, A, U, G)
  BY <1>1, <1>2, Told
<1>8. /\ Right(wire, <<h>>, depChanges, DepTurns(p), DepTurns(p), DepTurned(b))
           => Right(wire \o ev, <<>>, depChanges, DepTurns(p), DepTurns(p), DepTurned(b))
      /\ Right(wire, <<h>>, depChanges, Sights(p), Sights(p), Sighted(S))
           => Right(wire \o ev, <<>>, depChanges, Sights(p), Sights(p), Sighted(S))
      /\ Clear(wire \o ev, <<>>, depChanges, DepTurns(p)) => Clear(wire, <<h>>, depChanges, DepTurns(p))
      /\ Clear(wire \o ev, <<>>, depChanges, Sights(p)) => Clear(wire, <<h>>, depChanges, Sights(p))
  BY <1>5, <1>6, <1>7
<1>9. QueuesCarry(p, b, S)
  BY <1>1, <1>2, <1>4, <1>8 DEF QueuesCarry
<1> QED
  BY <1>9 DEF b, S

LEMMA DomainsThreadQueues ==
    ASSUME TypeOK, DomainsThread, NEW v \in DepViews, trust'[v] # "missed", NEW p, NEW b, NEW S
    PROVE  QueuesCarry(p, b, S)
<1>0. v \in Views /\ wire \in Seq(Events)
  BY TypesAre DEF DepViews, Views, QueuesTyped
<1>1. CASE TakeChange
  <2> DEFINE c == Head(changes)
  <2>1. /\ c \in Changes
        /\ EventOf(c) = "none" => wire' = wire
        /\ EventOf(c) # "none" =>
              /\ wire' = wire \o (IF online THEN UserEvents(c) ELSE <<>>)
              /\ Spoilt(IF online THEN {} ELSE Views)
    BY <1>1, TakeChangeIs
  <2>2. deployments' = deployments /\ depChanges' = depChanges
    BY <1>1 DEF TakeChange
  <2> HIDE DEF c
  <2>3. CASE EventOf(c) = "none"
    BY <2>1, <2>2, <2>3, QueuesStay
  <2>4. CASE EventOf(c) # "none"
    <3>1. online
      BY <1>0, <2>1, <2>4 DEF Spoilt
    <3>2. wire' = wire \o UserEvents(c) /\ UserEvents(c) \in Seq(Events) /\ Strange(UserEvents(c))
      BY <2>1, <2>4, <3>1, EventsAre, UserEventsAreStrange
    <3> QED
      BY <2>2, <3>2, StrangeCarry
  <2> QED
    BY <2>3, <2>4
<1>2. CASE TellDeployment
  <2> DEFINE h == domains.held[1]
  <2>1. /\ h \in HeldChanges /\ ToldEvents(h) \in Seq(Events)
        /\ wire' = wire \o (IF online THEN ToldEvents(h) ELSE <<>>)
        /\ Spoilt(IF online THEN IF h.late THEN {"deployments"} ELSE {} ELSE Views)
        /\ deployments' = Overtaken(deployments, h.summary)
    BY <1>2, TellDeploymentIs
  <2>2. depChanges' = depChanges
    BY <1>2 DEF TellDeployment, tables
  <2> HIDE DEF h
  <2>3. online
    BY <1>0, <2>1 DEF Spoilt
  <2>4. wire' = wire \o ToldEvents(h) /\ Strange(ToldEvents(h))
    BY <2>1, <2>3, ToldAreStrange
  <2>5. \/ deployments'.held = deployments.held
        \/ \E k \in HeldDepChanges : deployments.held = <<k>> /\ deployments'.held = <<Late(k, h.summary)>>
    BY <2>1, OvertakenHolds
  <2> QED
    BY <2>1, <2>2, <2>4, <2>5, StrangeCarry
<1> QED
  BY <1>1, <1>2 DEF DomainsThread

LEMMA FaultsQueues ==
    ASSUME TypeOK, Idle, Faults, NEW v \in DepViews, trust'[v] # "missed", NEW p, NEW b, NEW S
    PROVE  /\ QueuesCarry(p, b, S) /\ wire' = wire /\ changes' = changes /\ depChanges' = depChanges
           /\ domains'.held = domains.held /\ deployments'.held = deployments.held
<1>1. \/ /\ changes' = <<>> /\ domains'.held = <<>> /\ UNCHANGED <<depChanges, deployments, wire>>
         /\ Spoilt(IF changes = <<>> /\ domains.held = <<>> THEN {} ELSE Views)
      \/ /\ depChanges' = <<>> /\ deployments'.held = <<>> /\ UNCHANGED <<changes, domains, wire>>
         /\ Spoilt(IF depChanges = <<>> /\ deployments.held = <<>> THEN {} ELSE {"deployment", "deployments"})
      \/ /\ wire' = <<>> /\ UNCHANGED <<changes, domains, depChanges, deployments>>
         /\ Spoilt(IF wire = <<>> THEN {} ELSE Views)
      \/ /\ UNCHANGED <<changes, depChanges, wire, asked, trust>>
         /\ domains'.held = domains.held /\ deployments'.held = deployments.held
  BY FaultsAre
<1>2. v \in Views /\ v \in {"deployment", "deployments"}
  BY DEF DepViews, Views
<1>3. /\ wire' = wire /\ changes' = changes /\ depChanges' = depChanges
      /\ domains'.held = domains.held /\ deployments'.held = deployments.held
  <2>1. CASE /\ changes' = <<>> /\ domains'.held = <<>> /\ UNCHANGED <<depChanges, deployments, wire>>
             /\ Spoilt(IF changes = <<>> /\ domains.held = <<>> THEN {} ELSE Views)
    <3>1. changes = <<>> /\ domains.held = <<>>
      BY <1>2, <2>1 DEF Spoilt
    <3> QED
      BY <2>1, <3>1
  <2>2. CASE /\ depChanges' = <<>> /\ deployments'.held = <<>> /\ UNCHANGED <<changes, domains, wire>>
             /\ Spoilt(IF depChanges = <<>> /\ deployments.held = <<>> THEN {} ELSE {"deployment", "deployments"})
    <3>1. depChanges = <<>> /\ deployments.held = <<>>
      BY <1>2, <2>2 DEF Spoilt
    <3> QED
      BY <2>2, <3>1
  <2>3. CASE /\ wire' = <<>> /\ UNCHANGED <<changes, domains, depChanges, deployments>>
             /\ Spoilt(IF wire = <<>> THEN {} ELSE Views)
    <3>1. wire = <<>>
      BY <1>2, <2>3 DEF Spoilt
    <3> QED
      BY <2>3, <3>1
  <2>4. CASE /\ UNCHANGED <<changes, depChanges, wire, asked, trust>>
             /\ domains'.held = domains.held /\ deployments'.held = deployments.held
    BY <2>4
  <2> QED
    BY <1>1, <2>1, <2>2, <2>3, <2>4
<1> QED
  BY <1>3, QueuesStay

\* The lines of a deployment stay right, and with nothing more to come it is as it was.
DepCarried(p) ==
    /\ TurnLine(p, Exists(p)) => TurnLine(p, Exists(p))'
    /\ SightLine(p, Visibles(p)) => SightLine(p, Visibles(p))'
    /\ TurnClear(p)' => TurnClear(p) /\ (Exists(p)' <=> Exists(p))
    /\ SightClear(p)' /\ Exists(p)' /\ dep[p].state # "unborn" =>
          SightClear(p) /\ Exists(p) /\ dep'[p].visible = dep[p].visible

LEMMA DepCarriedIs ==
    ASSUME NEW p, QueuesCarry(p, Exists(p), Visibles(p)), Exists(p)' <=> Exists(p), Visibles(p)' = Visibles(p),
           Exists(p) => dep'[p].visible = dep[p].visible
    PROVE  DepCarried(p)
<1>0. Exists(p)' \in BOOLEAN /\ Exists(p) \in BOOLEAN
  BY DEF Exists
<1>1. DepTurned(Exists(p)') = DepTurned(Exists(p))
  BY <1>0
<1>2. TurnLine(p, Exists(p)) => TurnLine(p, Exists(p))'
  BY <1>1 DEF QueuesCarry, TurnLine
<1>3. SightLine(p, Visibles(p)) => SightLine(p, Visibles(p))'
  BY DEF QueuesCarry, SightLine
<1>4. (TurnClear(p)' => TurnClear(p)) /\ (SightClear(p)' => SightClear(p))
  BY DEF QueuesCarry, TurnClear, SightClear
<1> QED
  BY <1>2, <1>3, <1>4 DEF DepCarried

\* A change of it is queued.
LEMMA QueuedDep ==
    ASSUME TypeOK, NEW c \in DepChanges, NEW cs \in Seq(DepChanges), cs = <<c>>, NEW A, NEW G,
           wire' = wire, deployments' = deployments, depChanges' = depChanges \o cs
    PROVE  /\ Clear(wire', deployments'.held, depChanges', A)
                <=> Clear(wire, deployments.held, depChanges, A) /\ c \notin A.queue
           /\ Right(wire', deployments'.held, depChanges', A, A, G)
                <=> /\ c \in A.queue => c \in G.queue
                    /\ c \notin A.queue => Right(wire, deployments.held, depChanges, A, A, G)
<1>1. depChanges \in Seq(DepChanges)
  BY TypesAre DEF QueuesTyped
<1>2. /\ Clear(wire, deployments.held, depChanges \o cs, A)
            <=> Clear(wire, deployments.held, depChanges, A) /\ Free(cs, A.queue)
      /\ Right(wire, deployments.held, depChanges \o cs, A, A, G) <=>
            /\ Settled(cs, A.queue, A.queue, G.queue)
            /\ Free(cs, A.queue) => Right(wire, deployments.held, depChanges, A, A, G)
  BY <1>1, Queued
<1>3. Free(cs, A.queue) <=> c \notin A.queue
  BY FreeShort
<1>4. Settled(cs, A.queue, A.queue, G.queue) <=> (c \in A.queue => c \in G.queue)
  BY SettledShort
<1> QED
  BY <1>2, <1>3, <1>4

\* More visibilities are allowed.
LEMMA SightsGrow ==
    ASSUME NEW w, NEW h, NEW q, NEW p, NEW R, NEW S, R \subseteq S,
           Right(w, h, q, Sights(p), Sights(p), Sighted(R))
    PROVE  Right(w, h, q, Sights(p), Sights(p), Sighted(S))
<1>1. /\ Sights(p).wire \cap Sighted(R).wire \subseteq Sighted(S).wire
      /\ Sights(p).held \cap Sighted(R).held \subseteq Sighted(S).held
      /\ Sights(p).queue \cap Sighted(R).queue \subseteq Sighted(S).queue
  BY DEF Sighted
<1> QED
  BY <1>1, StillRight

LEMMA DepStepQueues ==
    ASSUME TypeOK, DepStep, NEW v \in DepViews, trust'[v] # "missed", NEW p \in Deployments
    PROVE  DepCarried(p)
<1>0. v \in Views /\ v \in {"deployment", "deployments"} /\ depChanges \in Seq(DepChanges)
  BY TypesAre DEF DepViews, Views, QueuesTyped
<1>1. PICK o \in Deployments, new \in DepRows, event \in {"none", "add", "update", "delete"} :
         DepMoves(o, new, event) /\ UpdateDep(o, new, event)
  BY DEF DepStep
<1>2. /\ dep' \in [Deployments -> DepRows]
      /\ dep'[o] = new /\ \A q \in Deployments : q # o => dep'[q] = dep[q]
      /\ Spoilt(IF deployments.up \/ event = "none" THEN {} ELSE {"deployment", "deployments"})
  BY <1>1, QueuedDeps
<1>3. PICK cs \in Seq(DepChanges) :
         /\ depChanges' = depChanges \o cs
         /\ cs = IF deployments.up /\ event # "none" THEN <<[id |-> o, event |-> event]>> ELSE <<>>
  BY <1>1, QueuedDeps
<1>4. wire' = wire /\ deployments' = deployments
  BY DEF DepStep
<1>5. deployments.up \/ event = "none"
  BY <1>0, <1>2 DEF Spoilt
<1>6. dep[p] \in DepRows /\ dep[p].visible \in BOOLEAN
  BY TablesTyped DEF DepRows
<1>7. CASE event = "none"
  <2>1. cs = <<>>
    BY <1>3, <1>7
  <2>2. depChanges' = depChanges
    BY <1>0, <1>3, <2>1
  <2>3. dep'[p].state = dep[p].state /\ (Exists(p) => dep'[p].visible = dep[p].visible)
    BY <1>1, <1>2, <1>7 DEF DepMoves
  <2>4. Exists(p)' <=> Exists(p)
    BY <2>3 DEF Exists
  <2>5. Visibles(p)' = Visibles(p)
    BY <2>3, <2>4 DEF Visibles
  <2>6. QueuesCarry(p, Exists(p), Visibles(p))
    BY <1>4, <2>2, QueuesStay
  <2> QED
    BY <2>3, <2>4, <2>5, <2>6, DepCarriedIs
<1>8. CASE event # "none"
  <2> DEFINE c == [id |-> o, event |-> event]
  <2>1. cs = <<c>> /\ c.id = o /\ c.event = event /\ c \in DepChanges
    BY <1>3, <1>5, <1>8 DEF DepChanges
  <2> HIDE DEF c
  <2>2. ASSUME NEW A, NEW G
        PROVE  /\ Clear(wire', deployments'.held, depChanges', A)
                    <=> Clear(wire, deployments.held, depChanges, A) /\ c \notin A.queue
               /\ Right(wire', deployments'.held, depChanges', A, A, G)
                    <=> /\ c \in A.queue => c \in G.queue
                        /\ c \notin A.queue => Right(wire, deployments.held, depChanges, A, A, G)
    BY <1>3, <1>4, <2>1, QueuedDep
  <2>3. CASE o # p
    <3>1. c \notin DepTurns(p).queue /\ c \notin Sights(p).queue
      BY <2>1, <2>3 DEF DepTurns, Sights
    <3>2. QueuesCarry(p, Exists(p), Visibles(p))
      BY <2>2, <3>1 DEF QueuesCarry
    <3>3. dep'[p] = dep[p]
      BY <1>2, <2>3
    <3>4. /\ Exists(p)' <=> Exists(p)
          /\ Visibles(p)' = Visibles(p)
      BY <3>3 DEF Exists, Visibles
    <3> QED
      BY <3>2, <3>3, <3>4, DepCarriedIs
  <2>4. CASE o = p
    <3>0. dep'[p] = new
      BY <1>2, <2>4
    <3>1. CASE event = "add"
      <4>1. dep[p].state = "unborn" /\ ~ Exists(p) /\ Exists(p)'
        BY <1>1, <2>4, <3>0, <3>1 DEF DepMoves, Exists
      <4>2. c \in DepTurns(p).queue /\ c \notin Sights(p).queue /\ c \in DepTurned(Exists(p)').queue
        BY <2>1, <2>4, <3>1, <4>1 DEF DepTurns, Sights, DepTurned
      <4>3. TurnLine(p, Exists(p))' /\ ~ TurnClear(p)'
        BY <2>2, <4>2 DEF TurnLine, TurnClear
      <4>4. ASSUME SightLine(p, Visibles(p)) PROVE SightLine(p, Visibles(p))'
        <5>1. Visibles(p) \subseteq Visibles(p)'
          BY <4>1 DEF Visibles
        <5>2. Right(wire, deployments.held, depChanges, Sights(p), Sights(p), Sighted(Visibles(p)'))
          BY <4>4, <5>1, SightsGrow DEF SightLine
        <5> QED
          BY <2>2, <4>2, <5>2 DEF SightLine
      <4> QED
        BY <4>1, <4>3, <4>4 DEF DepCarried
    <3>2. CASE event = "update"
      <4>1. Exists(p) /\ Exists(p)'
        BY <1>1, <2>4, <3>0, <3>2 DEF DepMoves, Exists
      <4>2. Visibles(p)' # {}
        BY <4>1 DEF Visibles
      <4>3. c \notin DepTurns(p).queue /\ c \in Sights(p).queue /\ c \in Sighted(Visibles(p)').queue
        BY <2>1, <2>4, <3>2, <4>2 DEF DepTurns, Sights, Sighted
      <4>4. SightLine(p, Visibles(p))' /\ ~ SightClear(p)'
        BY <2>2, <4>3 DEF SightLine, SightClear
      <4>5. DepTurned(Exists(p)') = DepTurned(Exists(p))
        BY <4>1 DEF DepTurned
      <4>6. (TurnLine(p, Exists(p)) => TurnLine(p, Exists(p))') /\ (TurnClear(p)' => TurnClear(p))
        BY <2>2, <4>3, <4>5 DEF TurnLine, TurnClear
      <4> QED
        BY <4>1, <4>4, <4>6 DEF DepCarried
    <3>3. CASE event = "delete"
      <4>1. Exists(p) /\ ~ Exists(p)' /\ dep'[p].state = "gone"
        BY <1>1, <2>4, <3>0, <3>3 DEF DepMoves, Exists
      <4>2. c \in DepTurns(p).queue /\ c \notin Sights(p).queue /\ c \in DepTurned(Exists(p)').queue
        BY <2>1, <2>4, <3>3, <4>1 DEF DepTurns, Sights, DepTurned
      <4>3. TurnLine(p, Exists(p))' /\ ~ TurnClear(p)'
        BY <2>2, <4>2 DEF TurnLine, TurnClear
      <4>4. ASSUME SightLine(p, Visibles(p)) PROVE SightLine(p, Visibles(p))'
        <5>1. Visibles(p) \subseteq Visibles(p)'
          BY <1>6, <4>1 DEF Visibles
        <5>2. Right(wire, deployments.held, depChanges, Sights(p), Sights(p), Sighted(Visibles(p)'))
          BY <4>4, <5>1, SightsGrow DEF SightLine
        <5> QED
          BY <2>2, <4>2, <5>2 DEF SightLine
      <4> QED
        BY <4>1, <4>3, <4>4 DEF DepCarried
    <3> QED
      BY <1>8, <3>1, <3>2, <3>3
  <2> QED
    BY <2>3, <2>4
<1> QED
  BY <1>7, <1>8

LEMMA DepSameIs ==
    ASSUME NEW p, dep'[p].state = dep[p].state, dep'[p].visible = dep[p].visible, QueuesCarry(p, Exists(p), Visibles(p))
    PROVE  DepCarried(p)
<1>1. /\ Exists(p)' <=> Exists(p)
      /\ Visibles(p)' = Visibles(p)
  BY DEF Exists, Visibles
<1> QED
  BY <1>1, DepCarriedIs

\* A step that is none of the browser carries each deployment for the lists that are not spoilt.
LEMMA StepDeps ==
    ASSUME TypeOK, Idle, Named, RowStep \/ DepStep \/ OtherStep \/ DomainsThread \/ DeploymentsThread \/ Faults,
           NEW v \in DepViews, trust'[v] # "missed", NEW p \in Deployments
    PROVE  DepCarried(p)
<1>1. CASE RowStep
  <2>1. dep'[p].state = dep[p].state /\ dep'[p].visible = dep[p].visible
    BY <1>1 DEF RowStep
  <2>2. QueuesCarry(p, Exists(p), Visibles(p))
    BY <1>1, QueuesStay DEF RowStep
  <2> QED
    BY <2>1, <2>2, DepSameIs
<1>2. CASE DepStep
  BY <1>2, DepStepQueues
<1>3. CASE OtherStep
  <2>1. QueuesCarry(p, Exists(p), Visibles(p))
    BY <1>3, QueuesStay DEF OtherStep, feeds
  <2> QED
    BY <1>3, <2>1, DepSameIs DEF OtherStep
<1>4. CASE DomainsThread
  <2>1. QueuesCarry(p, Exists(p), Visibles(p))
    BY <1>4, DomainsThreadQueues
  <2>2. dep' = dep
    BY <1>4, DepsStay
  <2> QED
    BY <2>1, <2>2, DepSameIs
<1>5. CASE DeploymentsThread
  <2>1. QueuesCarry(p, Exists(p), Visibles(p))
    BY <1>5, TakeDepChangeQueues, TellDeploymentsQueues DEF DeploymentsThread
  <2>2. dep' = dep
    BY <1>5, DepsStay
  <2> QED
    BY <2>1, <2>2, DepSameIs
<1>6. CASE Faults
  <2>1. QueuesCarry(p, Exists(p), Visibles(p))
    BY <1>6, FaultsQueues
  <2>2. dep' = dep
    BY <1>6, DepsStay
  <2> QED
    BY <2>1, <2>2, DepSameIs
<1> QED
  BY <1>1, <1>2, <1>3, <1>4, <1>5, <1>6

DepLinesRight ==
    \A p \in Deployments :
        /\ trust["deployments"] # "missed" => TurnLine(p, Exists(p))
        /\ trust["deployment"] # "missed" => SightLine(p, Visibles(p))

\* What is emptied is right.
LEMMA DrainedLines ==
    ASSUME Drained, NEW p
    PROVE  TurnLine(p, Exists(p)) /\ SightLine(p, Visibles(p))
<1>1. wire = <<>> /\ deployments.held = <<>> /\ depChanges = <<>>
  BY DEF Drained
<1> QED
  BY <1>1, NothingQueued DEF TurnLine, SightLine

\* An event comes, or none.
LEMMA BrowserDepLines ==
    ASSUME TypeOK, Browser, NEW p
    PROVE  /\ TurnLine(p, Exists(p)) => TurnLine(p, Exists(p))'
           /\ SightLine(p, Visibles(p)) => SightLine(p, Visibles(p))'
<1>0. /\ dep' = dep /\ deployments' = deployments /\ depChanges' = depChanges
      /\ wire' = wire \/ (wire # <<>> /\ wire' = Tail(wire))
  BY DEF Browser, Deliver, Open, Read, Answer, tables, feeds
<1>1. wire \in Seq(Events)
  BY TypesAre DEF QueuesTyped
<1>2. (Exists(p)' <=> Exists(p)) /\ Visibles(p)' = Visibles(p) /\ DepTurned(Exists(p)') = DepTurned(Exists(p))
  BY <1>0 DEF Exists, Visibles, DepTurned
<1>3. CASE wire' = wire
  BY <1>0, <1>2, <1>3 DEF TurnLine, SightLine
<1>4. CASE wire # <<>> /\ wire' = Tail(wire)
  <2>1. \A A, U, G : Right(wire, deployments.held, depChanges, A, U, G) => Right(Tail(wire), deployments.held, depChanges, A, U, G)
    BY <1>1, <1>4, Delivered
  <2> QED
    BY <1>0, <1>2, <1>4, <2>1 DEF TurnLine, SightLine
<1> QED
  BY <1>0, <1>3, <1>4

LEMMA DepLinesInit == Init => DepLinesRight
<1> SUFFICES ASSUME Init PROVE DepLinesRight
  OBVIOUS
<1>1. Drained
  BY DEF Init, Listening, Drained
<1> QED
  BY <1>1, DrainedLines DEF DepLinesRight

LEMMA DepLinesStep ==
    ASSUME Basic, Named, DepLinesRight, Steps
    PROVE  DepLinesRight'
<1>0. TypeOK /\ Idle /\ {"deployments", "deployment"} \subseteq DepViews /\ {"deployments", "deployment"} \subseteq Views
  BY DEF Basic, DepViews, Views
<1> SUFFICES ASSUME NEW p \in Deployments
             PROVE  /\ trust'["deployments"] # "missed" => TurnLine(p, Exists(p))'
                    /\ trust'["deployment"] # "missed" => SightLine(p, Visibles(p))'
  BY DEF DepLinesRight
<1>1. CASE Browser
  <2>1. \A v \in DepViews : trust'[v] # "missed" => trust[v] # "missed" \/ Drained
    BY <1>0, <1>1, BrowserTrusts DEF DepViews
  <2>2. /\ trust'["deployments"] # "missed" => TurnLine(p, Exists(p))
        /\ trust'["deployment"] # "missed" => SightLine(p, Visibles(p))
    BY <1>0, <2>1, DrainedLines DEF DepLinesRight
  <2> QED
    BY <1>0, <1>1, <2>2, BrowserDepLines
<1>2. CASE ~ Browser
  <2>1. \A v \in DepViews : trust'[v] # "missed" => trust[v] # "missed" /\ DepCarried(p)
    <3> TAKE v \in DepViews
    <3> HAVE trust'[v] # "missed"
    <3>1. v \in Views
      BY DEF DepViews, Views
    <3>2. Quiet(v)
      BY <1>0, <1>2, <3>1, StepQuiet DEF Steps
    <3>3. DepCarried(p)
      BY <1>0, <1>2, StepDeps DEF Steps
    <3> QED
      BY <3>2, <3>3 DEF Quiet
  <2> QED
    BY <1>0, <2>1 DEF DepLinesRight, DepCarried
<1> QED
  BY <1>1, <1>2

\* What the threads hold is named as they hold it.
LEMMA NamedInit == Init => Named
<1> SUFFICES ASSUME Init PROVE Named
  OBVIOUS
<1>1. domains.held = <<>> /\ deployments.held = <<>>
  BY DEF Init, Listening
<1>2. \A h : <<>> # <<h>>
  OBVIOUS
<1> QED
  BY <1>1, <1>2 DEF Named

LEMMA NamedKept ==
    ASSUME TypeOK, Named,
           \/ domains'.held = domains.held \/ domains'.held = <<>>
           \/ \E s : \E k \in HeldChanges : domains.held = <<k>> /\ domains'.held = <<Late(k, s)>>
           \/ \E k \in HeldChanges : domains'.held = <<k>> /\ k.summary.id = k.id /\ Tag[k.card.id] = k.id,
           \/ deployments'.held = deployments.held \/ deployments'.held = <<>>
           \/ \E s : \E k \in HeldDepChanges : deployments.held = <<k>> /\ deployments'.held = <<Late(k, s)>>
           \/ \E k \in HeldDepChanges : deployments'.held = <<k>> /\ k.summary.id = k.id
    PROVE  Named'
<1>0. (\A h : <<>> # <<h>>) /\ (\A h, k : <<h>> = <<k>> => h = k)
  <2>1. \A h, k : <<h>> = <<k>> => <<h>>[1] = <<k>>[1]
    OBVIOUS
  <2> QED
    BY <2>1
<1>1. ASSUME NEW h \in HeldChanges, domains'.held = <<h>> PROVE h.summary.id = h.id /\ Tag[h.card.id] = h.id
  <2>1. CASE domains'.held = domains.held \/ domains'.held = <<>>
    BY <1>0, <1>1, <2>1 DEF Named
  <2>2. ASSUME NEW s, NEW k \in HeldChanges, domains.held = <<k>>, domains'.held = <<Late(k, s)>>
        PROVE  h.summary.id = h.id /\ Tag[h.card.id] = h.id
    <3>1. h = Late(k, s)
      BY <1>0, <1>1, <2>2
    <3>2. h.summary = k.summary /\ h.id = k.id /\ h.card = k.card
      BY <3>1, LateIs
    <3> QED
      BY <2>2, <3>2 DEF Named
  <2>3. ASSUME NEW k \in HeldChanges, domains'.held = <<k>>, k.summary.id = k.id, Tag[k.card.id] = k.id
        PROVE  h.summary.id = h.id /\ Tag[h.card.id] = h.id
    <3>1. h = k
      BY <1>0, <1>1, <2>3
    <3> QED
      BY <2>3, <3>1
  <2> QED
    BY <2>1, <2>2, <2>3
<1>2. ASSUME NEW h \in HeldDepChanges, deployments'.held = <<h>> PROVE h.summary.id = h.id
  <2>1. CASE deployments'.held = deployments.held \/ deployments'.held = <<>>
    BY <1>0, <1>2, <2>1 DEF Named
  <2>2. ASSUME NEW s, NEW k \in HeldDepChanges, deployments.held = <<k>>, deployments'.held = <<Late(k, s)>>
        PROVE  h.summary.id = h.id
    <3>1. h = Late(k, s)
      BY <1>0, <1>2, <2>2
    <3>2. h.summary = k.summary /\ h.id = k.id
      BY <3>1, LateIs
    <3> QED
      BY <2>2, <3>2 DEF Named
  <2>3. ASSUME NEW k \in HeldDepChanges, deployments'.held = <<k>>, k.summary.id = k.id
        PROVE  h.summary.id = h.id
    <3>1. h = k
      BY <1>0, <1>2, <2>3
    <3> QED
      BY <2>3, <3>1
  <2> QED
    BY <2>1, <2>2, <2>3
<1> QED
  BY <1>1, <1>2 DEF Named

LEMMA NamedStep ==
    ASSUME Basic, Named, Steps
    PROVE  Named'
<1>0. TypeOK /\ Idle
  BY DEF Basic
<1>1. CASE RowStep \/ DepStep \/ OtherStep \/ Browser
  <2>1. domains' = domains /\ deployments' = deployments
    BY <1>1 DEF RowStep, DepStep, OtherStep, feeds, Browser, Deliver, Open, Read, Answer
  <2> QED
    BY <1>0, <2>1, NamedKept
<1>2. CASE TakeChange
  <2> DEFINE c == Head(changes)
             p == Tag[c.id]
             k == [id |-> p, event |-> EventOf(c), summary |-> Get(p), late |-> FALSE, card |-> Card(c.id, RowOf(c))]
  <2>1. /\ EventOf(c) = "none" => domains'.held = <<>>
        /\ EventOf(c) # "none" =>
              /\ p = None \/ ~ Exists(p) => domains'.held = <<>>
              /\ p # None /\ Exists(p) => p \in Deployments /\ domains'.held = <<k>> /\ domains'.held[1] \in HeldChanges
    BY <1>0, <1>2, TakeChangeIs
  <2>2. deployments' = deployments
    BY <1>2 DEF TakeChange
  <2>3. CASE domains'.held = <<>>
    BY <1>0, <2>2, <2>3, NamedKept
  <2>4. CASE p \in Deployments /\ domains'.held = <<k>> /\ domains'.held[1] \in HeldChanges
    <3>1. k.summary = Get(p) /\ k.id = p /\ k.card.id = c.id
      BY DEF Card
    <3>2. Get(p).id = p
      BY DEF Get
    <3>3. k.summary.id = k.id /\ Tag[k.card.id] = k.id
      BY <3>1, <3>2
    <3> HIDE DEF k
    <3>4. k \in HeldChanges
      BY <2>4
    <3> QED
      BY <1>0, <2>2, <2>4, <3>3, <3>4, NamedKept
  <2> QED
    BY <2>1, <2>3, <2>4
<1>3. CASE TellDeployment
  <2>1. domains'.held = <<>> /\ deployments' = Overtaken(deployments, domains.held[1].summary)
    BY <1>0, <1>3, TellDeploymentIs
  <2> DEFINE s == domains.held[1].summary
  <2>2. \/ deployments'.held = deployments.held
        \/ \E k \in HeldDepChanges : deployments.held = <<k>> /\ deployments'.held = <<Late(k, s)>>
    BY <1>0, <2>1, OvertakenHolds
  <2> HIDE DEF s
  <2> QED
    BY <1>0, <2>1, <2>2, NamedKept
<1>4. CASE TakeDepChange
  <2> DEFINE c == Head(depChanges)
             k == [id |-> c.id, event |-> c.event, summary |-> Get(c.id), late |-> FALSE]
  <2>1. /\ c.event = "delete" => deployments'.held = <<>>
        /\ c.event # "delete" /\ Exists(c.id) => deployments'.held = <<k>> /\ deployments'.held[1] \in HeldDepChanges
        /\ c.event # "delete" /\ ~ Exists(c.id) => deployments'.held = <<>>
    BY <1>0, <1>4, TakeDepChangeIs
  <2>2. domains' = domains
    BY <1>4 DEF TakeDepChange
  <2>3. CASE deployments'.held = <<>>
    BY <1>0, <2>2, <2>3, NamedKept
  <2>4. CASE deployments'.held = <<k>> /\ deployments'.held[1] \in HeldDepChanges
    <3>1. k.summary = Get(c.id) /\ k.id = c.id
      OBVIOUS
    <3>2. Get(c.id).id = c.id
      BY DEF Get
    <3>3. k.summary.id = k.id
      BY <3>1, <3>2
    <3> HIDE DEF k
    <3>4. k \in HeldDepChanges
      BY <2>4
    <3> QED
      BY <1>0, <2>2, <2>4, <3>3, <3>4, NamedKept
  <2> QED
    BY <2>1, <2>3, <2>4
<1>5. CASE TellDeployments
  <2>1. deployments'.held = <<>> /\ domains' = Overtaken(domains, deployments.held[1].summary)
    BY <1>0, <1>5, TellDeploymentsIs
  <2> DEFINE s == deployments.held[1].summary
  <2>2. \/ domains'.held = domains.held
        \/ \E k \in HeldChanges : domains.held = <<k>> /\ domains'.held = <<Late(k, s)>>
    BY <1>0, <2>1, OvertakenHolds
  <2> HIDE DEF s
  <2> QED
    BY <1>0, <2>1, <2>2, NamedKept
<1>6. CASE Faults
  <2>1. /\ domains'.held = domains.held \/ domains'.held = <<>>
        /\ deployments'.held = deployments.held \/ deployments'.held = <<>>
    BY <1>0, <1>6, FaultsAre
  <2> QED
    BY <1>0, <2>1, NamedKept
<1> QED
  BY <1>1, <1>2, <1>3, <1>4, <1>5, <1>6 DEF Steps, DomainsThread, DeploymentsThread

\* A removal that is queued is of a deployment that is gone.
GoneDeps == Free(depChanges, {c \in DepChanges : c.event = "delete" /\ dep[c.id].state # "gone"})

LEMMA GoneDepsStep ==
    ASSUME Basic, GoneDeps, Steps
    PROVE  GoneDeps'
<1>0. TypeOK /\ Idle /\ DepsServed /\ depChanges \in Seq(DepChanges)
  BY TypesAre DEF Basic, QueuesTyped
<1> DEFINE T == {c \in DepChanges : c.event = "delete" /\ dep[c.id].state # "gone"}
           N == {c \in DepChanges : c.event = "delete" /\ dep'[c.id].state # "gone"}
<1>1. N \subseteq T
  <2>1. RowStep \/ DepStep \/ dep' = dep
    BY DepsStay DEF Steps
  <2>2. \A p \in Deployments : dep[p].state = "gone" => dep'[p].state = "gone"
    BY <1>0, <2>1, DepsMove
  <2> QED
    BY <2>2 DEF DepChanges
<1>2. Free(depChanges, N)
  <2>1. Free(depChanges, T)
    BY DEF GoneDeps
  <2> HIDE DEF T, N
  <2> QED
    BY <1>1, <2>1, FreeSubset
<1>3. CASE depChanges' = depChanges
  BY <1>2, <1>3 DEF GoneDeps
<1>4. CASE depChanges' = <<>>
  BY <1>4, FreeShort DEF GoneDeps
<1>5. CASE depChanges # <<>> /\ depChanges' = Tail(depChanges)
  <2>1. /\ depChanges = <<Head(depChanges)>> \o Tail(depChanges)
        /\ <<Head(depChanges)>> \in Seq(DepChanges) /\ Tail(depChanges) \in Seq(DepChanges)
    BY <1>0, <1>5, HeadAndTail
  <2> HIDE DEF N
  <2>2. Free(<<Head(depChanges)>> \o Tail(depChanges), N)
           <=> Free(<<Head(depChanges)>>, N) /\ Free(Tail(depChanges), N)
    BY <2>1, FreeConcat
  <2>3. Free(Tail(depChanges), N)
    BY <1>2, <2>1, <2>2
  <2> QED
    BY <1>5, <2>3 DEF GoneDeps, N
<1>6. CASE DepStep
  <2>1. PICK o \in Deployments, new \in DepRows, event \in {"none", "add", "update", "delete"} :
           DepMoves(o, new, event) /\ UpdateDep(o, new, event)
    BY <1>6 DEF DepStep
  <2>2. dep'[o] = new
    BY <1>0, <2>1, QueuedDeps
  <2>3. PICK cs \in Seq(DepChanges) :
           /\ depChanges' = depChanges \o cs
           /\ cs = IF deployments.up /\ event # "none" THEN <<[id |-> o, event |-> event]>> ELSE <<>>
    BY <1>0, <2>1, QueuedDeps
  <2>4. Free(cs, N)
    <3>1. CASE cs = <<>>
      BY <3>1, FreeShort
    <3>2. CASE cs = <<[id |-> o, event |-> event]>>
      <4>1. event = "delete" => dep'[o].state = "gone"
        BY <2>1, <2>2 DEF DepMoves
      <4>2. [id |-> o, event |-> event] \notin N
        BY <4>1
      <4> HIDE DEF N
      <4> QED
        BY <3>2, <4>2, FreeShort
    <3> QED
      BY <2>3, <3>1, <3>2
  <2> HIDE DEF N
  <2>5. Free(depChanges \o cs, N)
    BY <1>0, <1>2, <2>4, FreeConcat
  <2> QED
    BY <2>3, <2>5 DEF GoneDeps, N
<1>7. RowStep \/ OtherStep \/ DomainsThread \/ Browser \/ TellDeployments => depChanges' = depChanges
  BY DEF RowStep, OtherStep, DomainsThread, TakeChange, TellDeployment, Browser, Deliver, Open, Read, Answer, tables,
         TellDeployments
<1>8. TakeDepChange => depChanges # <<>> /\ depChanges' = Tail(depChanges)
  BY DEF TakeDepChange
<1>9. Faults => depChanges' = depChanges \/ depChanges' = <<>>
  BY <1>0, FaultsAre
<1> QED
  BY <1>3, <1>4, <1>5, <1>6, <1>7, <1>8, <1>9 DEF Steps, DeploymentsThread

-----------------------------------------------------------------------------
(* The summaries of a deployment: what it says is read again, held or on its way. *)

\* The changes that make a thread read it again: none is queued.
ToRead(p) == {c \in Changes : Tag[c.id] = p /\ EventOf(c) # "none"}
ToReadDep(p) == {c \in DepChanges : c.id = p}
AllRead(p) == Free(changes, ToRead(p)) /\ Free(depChanges, ToReadDep(p))

\* A thread holds a summary of it: one it will not tell as the last, or what it is now.
Holds(held, p) == held # <<>> /\ held[1].id = p
HoldsRight(held, p, g) == Holds(held, p) /\ (held[1].late \/ held[1].summary = g)

\* The summaries on their way, and those that are g.
Sums(p) == {e \in Events : e.subject = "deployments" /\ e.what # "delete" /\ e.data.id = p}
Fresh(g) == {e \in Events : e.data = g}

\* When all is read, what is told last of it is what it is.
SumRight(p) ==
    Exists(p) /\ AllRead(p) =>
        /\ Holds(domains.held, p) \/ Holds(deployments.held, p) =>
              HoldsRight(domains.held, p, Get(p)) \/ HoldsRight(deployments.held, p, Get(p))
        /\ ~ Holds(domains.held, p) /\ ~ Holds(deployments.held, p) =>
              Settled(wire, Sums(p), Sums(p), Fresh(Get(p)))

\* When nothing more is told of it a list has it as it is.
SumListed(p, list) ==
    /\ Exists(p) /\ AllRead(p) /\ Free(wire, Sums(p))
    /\ ~ Holds(domains.held, p) /\ ~ Holds(deployments.held, p)
    => \A x \in Range(list) : x.id = p => x = Get(p)

SumCarried(p) ==
    /\ SumRight(p) => SumRight(p)'
    /\ \A list : SumListed(p, list) => SumListed(p, list)'

\* Nothing is read or told, of this deployment.
LEMMA SumCarriedIs ==
    ASSUME TypeOK, NEW p, NEW ev \in Seq(Events), Free(ev, Sums(p)), wire' = wire \o ev,
           Exists(p)' /\ AllRead(p)' => Exists(p) /\ AllRead(p) /\ Get(p)' = Get(p),
           Holds(domains'.held, p) <=> Holds(domains.held, p),
           Holds(deployments'.held, p) <=> Holds(deployments.held, p),
           \A g : HoldsRight(domains.held, p, g) => HoldsRight(domains'.held, p, g),
           \A g : HoldsRight(deployments.held, p, g) => HoldsRight(deployments'.held, p, g)
    PROVE  SumCarried(p)
<1>1. wire \in Seq(Events)
  BY TypesAre DEF QueuesTyped
<1>2. Free(wire', Sums(p)) <=> Free(wire, Sums(p))
  BY <1>1, FreeConcat
<1>3. ASSUME NEW g, Settled(wire, Sums(p), Sums(p), Fresh(g)) PROVE Settled(wire', Sums(p), Sums(p), Fresh(g))
  <2>1. Settled(ev, Sums(p), Sums(p), Fresh(g))
    BY NothingIsSettled
  <2>2. Settled(wire \o ev, Sums(p), Sums(p), Fresh(g)) <=>
           Settled(ev, Sums(p), Sums(p), Fresh(g)) /\ (Free(ev, Sums(p)) => Settled(wire, Sums(p), Sums(p), Fresh(g)))
    BY <1>1, SettledConcat
  <2> QED
    BY <1>3, <2>1, <2>2
<1>4. ASSUME SumRight(p) PROVE SumRight(p)'
  <2> SUFFICES ASSUME Exists(p)', AllRead(p)'
               PROVE  /\ Holds(domains'.held, p) \/ Holds(deployments'.held, p) =>
                            HoldsRight(domains'.held, p, Get(p)') \/ HoldsRight(deployments'.held, p, Get(p)')
                      /\ ~ Holds(domains'.held, p) /\ ~ Holds(deployments'.held, p) =>
                            Settled(wire', Sums(p), Sums(p), Fresh(Get(p)'))
    BY DEF SumRight
  <2>1. Exists(p) /\ AllRead(p) /\ Get(p)' = Get(p)
    OBVIOUS
  <2> DEFINE g == Get(p)
  <2>2. /\ Holds(domains.held, p) \/ Holds(deployments.held, p) =>
              HoldsRight(domains.held, p, g) \/ HoldsRight(deployments.held, p, g)
        /\ ~ Holds(domains.held, p) /\ ~ Holds(deployments.held, p) =>
              Settled(wire, Sums(p), Sums(p), Fresh(g))
    BY <1>4, <2>1 DEF SumRight
  <2>3. Get(p)' = g
    BY <2>1
  <2> HIDE DEF g
  <2>4. Settled(wire, Sums(p), Sums(p), Fresh(g)) => Settled(wire', Sums(p), Sums(p), Fresh(g))
    BY <1>3
  <2> QED
    BY <2>2, <2>3, <2>4
<1>5. ASSUME NEW list, SumListed(p, list) PROVE SumListed(p, list)'
  <2> SUFFICES ASSUME Exists(p)', AllRead(p)', Free(wire', Sums(p)),
                      ~ Holds(domains'.held, p), ~ Holds(deployments'.held, p)
               PROVE  \A x \in Range(list) : x.id = p => x = Get(p)'
    BY DEF SumListed
  <2> QED
    BY <1>2, <1>5 DEF SumListed
<1> QED
  BY <1>4, <1>5 DEF SumCarried

\* It is to be read again, a thread holds it as it is, or it does not exist.
LEMMA SumVacant ==
    ASSUME NEW p,
           \/ ~ Exists(p)' \/ ~ AllRead(p)'
           \/ HoldsRight(domains'.held, p, Get(p)') \/ HoldsRight(deployments'.held, p, Get(p)')
    PROVE  SumCarried(p)
  BY DEF SumCarried, SumRight, SumListed, HoldsRight

\* The summary is of the rows of the deployment's desktops and of its own.
LEMMA GetStays ==
    ASSUME NEW p, dep'[p].visible = dep[p].visible,
           \A d \in Desktops : Tag[d] = p =>
               /\ InTable(row'[d]) <=> InTable(row[d])
               /\ InTable(row[d]) => (row'[d].status = "Started" <=> row[d].status = "Started")
    PROVE  Get(p)' = Get(p)
<1>1. Tagged(p)' = Tagged(p)
  BY DEF Tagged
<1>2. {d \in Tagged(p) : row'[d].status = "Started"} = {d \in Tagged(p) : row[d].status = "Started"}
  BY DEF Tagged
<1> QED
  BY <1>1, <1>2 DEF Get

\* A step of the rows after which all is read leaves the summary, unless the lists are spoilt.
LEMMA RowsGet ==
    ASSUME TypeOK, RowStep, trust'["deployments"] # "missed", NEW p \in Deployments, AllRead(p)'
    PROVE  AllRead(p) /\ Get(p)' = Get(p)
<1>1. PICK new \in [Desktops -> Rows] : RowMoves(new) /\ UpdateRows(new)
  BY DEF RowStep
<1>2. row' = new
  BY <1>1, QueuedRows
<1>3. PICK cs \in Seq(Changes) :
         /\ changes' = IF domains.up THEN changes \o cs ELSE changes
         /\ \A e \in Desktops : new[e] # row[e] =>
               \E i \in 1 .. Len(cs) : cs[i] = [id |-> e, old |-> row[e], new |-> new[e]]
  BY <1>1, QueuedRows
<1>4. "deployments" \notin Untold(new)
  BY <1>1, RowsSpoil DEF Spoilt, Views
<1>5. dep'[p].visible = dep[p].visible /\ depChanges' = depChanges /\ changes \in Seq(Changes)
  BY TypesAre DEF RowStep, QueuesTyped
<1>6. Free(changes, ToRead(p)) /\ (domains.up => Free(cs, ToRead(p)))
  <2>1. Free(changes', ToRead(p))
    BY DEF AllRead
  <2>2. Free(changes \o cs, ToRead(p)) <=> Free(changes, ToRead(p)) /\ Free(cs, ToRead(p))
    BY <1>5, FreeConcat
  <2> QED
    BY <1>3, <2>1, <2>2
<1>7. AllRead(p)
  BY <1>5, <1>6 DEF AllRead
<1>8. ASSUME NEW d \in Desktops, Tag[d] = p
      PROVE  /\ InTable(new[d]) <=> InTable(row[d])
             /\ InTable(row[d]) => (new[d].status = "Started" <=> row[d].status = "Started")
  <2>1. CASE new[d] = row[d]
    BY <2>1
  <2>2. CASE new[d] # row[d]
    <3> DEFINE c == [id |-> d, old |-> row[d], new |-> new[d]]
    <3>1. domains.up
      BY <1>4, <2>2 DEF Untold, Views
    <3>2. PICK i \in 1 .. Len(cs) : cs[i] = c
      BY <1>3, <2>2
    <3>3. c \in Changes /\ c \notin ToRead(p)
      <4>1. cs[i] \in Changes /\ cs[i] \notin ToRead(p)
        BY <1>6, <3>1 DEF Free
      <4> QED
        BY <3>2, <4>1
    <3>4. c.id = d /\ c.old = row[d] /\ c.new = new[d]
      OBVIOUS
    <3> HIDE DEF c
    <3>5. EventOf(c) = "none"
      BY <1>8, <3>3, <3>4 DEF ToRead
    <3>6. new[d] # Gone /\ ~ IsFrontend(new[d].status)
      BY <3>4, <3>5 DEF EventOf
    <3>7. InTable(new[d]) /\ (InTable(row[d]) \/ row[d] = Unborn)
      BY <1>1, <2>2, <3>6 DEF RowMoves
    <3>8. row[d] # Unborn /\ row[d].status # "Started"
      BY <1>4, <2>2, <3>1, <3>6, <3>7 DEF Untold
    <3>9. new[d].status # "Started"
      BY <3>6 DEF IsFrontend
    <3> QED
      BY <3>7, <3>8, <3>9
  <2> QED
    BY <2>1, <2>2
<1>9. Get(p)' = Get(p)
  BY <1>2, <1>5, <1>8, GetStays
<1> QED
  BY <1>7, <1>9

\* The threads hold and the wire has what they had.
LEMMA SumStays ==
    ASSUME TypeOK, NEW p, wire' = wire, domains'.held = domains.held, deployments'.held = deployments.held,
           Exists(p)' /\ AllRead(p)' => Exists(p) /\ AllRead(p) /\ Get(p)' = Get(p)
    PROVE  SumCarried(p)
<1>1. wire \in Seq(Events)
  BY TypesAre DEF QueuesTyped
<1>2. wire' = wire \o <<>> /\ <<>> \in Seq(Events) /\ Free(<<>>, Sums(p))
  BY <1>1, FreeShort
<1> QED
  BY <1>2, SumCarriedIs

LEMMA RowStepSums ==
    ASSUME TypeOK, RowStep, trust'["deployments"] # "missed", NEW p \in Deployments
    PROVE  SumCarried(p)
<1>1. wire' = wire /\ domains' = domains /\ deployments' = deployments /\ dep'[p].state = dep[p].state
  BY DEF RowStep
<1>2. Exists(p)' /\ AllRead(p)' => Exists(p) /\ AllRead(p) /\ Get(p)' = Get(p)
  BY <1>1, RowsGet DEF Exists
<1> QED
  BY <1>1, <1>2, SumStays

LEMMA DepStepSums ==
    ASSUME TypeOK, DepStep, trust'["deployments"] # "missed", NEW p \in Deployments
    PROVE  SumCarried(p)
<1>0. "deployments" \in Views /\ depChanges \in Seq(DepChanges)
  BY TypesAre DEF Views, QueuesTyped
<1>1. PICK o \in Deployments, new \in DepRows, event \in {"none", "add", "update", "delete"} :
         DepMoves(o, new, event) /\ UpdateDep(o, new, event)
  BY DEF DepStep
<1>2. /\ dep'[o] = new /\ \A q \in Deployments : q # o => dep'[q] = dep[q]
      /\ Spoilt(IF deployments.up \/ event = "none" THEN {} ELSE {"deployment", "deployments"})
  BY <1>1, QueuedDeps
<1>3. PICK cs \in Seq(DepChanges) :
         /\ depChanges' = depChanges \o cs
         /\ cs = IF deployments.up /\ event # "none" THEN <<[id |-> o, event |-> event]>> ELSE <<>>
  BY <1>1, QueuedDeps
<1>4. wire' = wire /\ domains' = domains /\ deployments' = deployments /\ row' = row /\ changes' = changes
  BY DEF DepStep
<1>5. deployments.up \/ event = "none"
  BY <1>0, <1>2 DEF Spoilt
<1>6. Free(depChanges', ToReadDep(p)) => Free(depChanges, ToReadDep(p)) /\ Free(cs, ToReadDep(p))
  <2>1. Free(depChanges \o cs, ToReadDep(p)) <=> Free(depChanges, ToReadDep(p)) /\ Free(cs, ToReadDep(p))
    BY <1>0, FreeConcat
  <2> QED
    BY <1>3, <2>1
<1>7. AllRead(p)' => AllRead(p) /\ Free(cs, ToReadDep(p))
  BY <1>4, <1>6 DEF AllRead
<1>8. CASE event # "none" /\ o = p
  <2> DEFINE c == [id |-> o, event |-> event]
  <2>1. cs = <<c>> /\ c \in ToReadDep(p)
    BY <1>3, <1>5, <1>8 DEF DepChanges, ToReadDep
  <2> HIDE DEF c
  <2>2. ~ Free(cs, ToReadDep(p))
    BY <2>1, FreeShort
  <2> QED
    BY <1>7, <2>2, SumVacant
<1>9. CASE event = "none" \/ o # p
  <2>1. dep'[p].state = dep[p].state /\ (Exists(p) => dep'[p].visible = dep[p].visible)
    BY <1>1, <1>2, <1>9 DEF DepMoves
  <2>2. Exists(p)' => Exists(p)
    BY <2>1 DEF Exists
  <2>3. Exists(p) => Get(p)' = Get(p)
    BY <1>4, <2>1, GetStays
  <2> QED
    BY <1>4, <1>7, <2>2, <2>3, SumStays
<1> QED
  BY <1>8, <1>9

\* The tables are read as they are.
LEMMA TablesStay ==
    ASSUME row' = row, dep' = dep, NEW p
    PROVE  (Exists(p)' <=> Exists(p)) /\ Get(p)' = Get(p)
  BY GetStays DEF Exists

\* What a thread reads.
LEMMA TakenFree ==
    ASSUME NEW S, NEW q \in Seq(S), q # <<>>, NEW T
    PROVE  Free(q, T) <=> Head(q) \notin T /\ Free(Tail(q), T)
<1>1. q = <<Head(q)>> \o Tail(q) /\ <<Head(q)>> \in Seq(S) /\ Tail(q) \in Seq(S)
  BY HeadAndTail
<1>2. Free(<<Head(q)>> \o Tail(q), T) <=> Free(<<Head(q)>>, T) /\ Free(Tail(q), T)
  BY <1>1, FreeConcat
<1>3. Free(<<Head(q)>>, T) <=> Head(q) \notin T
  BY FreeShort
<1> QED
  BY <1>1, <1>2, <1>3

LEMMA UserEventsFree ==
    ASSUME NEW c \in Changes, EventOf(c) # "none", NEW p
    PROVE  Free(UserEvents(c), Sums(p))
<1> DEFINE card == Card(c.id, RowOf(c))
           e1 == Event("desktop", EventOf(c), card)
           e2 == Event("desktop", "delete", card)
<1>1. e1 \notin Sums(p) /\ e2 \notin Sums(p)
  BY DEF Event, Sums
<1> QED
  BY <1>1, UserEventsAre

LEMMA TakeChangeSums ==
    ASSUME TypeOK, TakeChange, trust'["deployments"] # "missed", NEW p \in Deployments
    PROVE  SumCarried(p)
<1> DEFINE c == Head(changes)
           o == Tag[c.id]
           k == [id |-> o, event |-> EventOf(c), summary |-> Get(o), late |-> FALSE, card |-> Card(c.id, RowOf(c))]
<1>1. /\ domains.held = <<>> /\ changes # <<>> /\ c \in Changes /\ changes' = Tail(changes)
      /\ EventOf(c) = "none" => wire' = wire /\ domains'.held = <<>>
      /\ EventOf(c) # "none" =>
            /\ wire' = wire \o (IF online THEN UserEvents(c) ELSE <<>>)
            /\ Spoilt(IF online THEN {} ELSE Views)
            /\ o = None \/ ~ Exists(o) => domains'.held = <<>>
            /\ o # None /\ Exists(o) => domains'.held = <<k>>
  BY TakeChangeIs
<1>2. /\ row' = row /\ dep' = dep /\ depChanges' = depChanges /\ deployments' = deployments
      /\ "deployments" \in Views /\ changes \in Seq(Changes) /\ wire \in Seq(Events)
  BY TypesAre DEF TakeChange, Views, QueuesTyped
<1>3. (Exists(p)' <=> Exists(p)) /\ Get(p)' = Get(p)
  BY <1>2, TablesStay
<1>4. k.id = o /\ k.summary = Get(o) /\ <<k>>[1] = k /\ <<k>> # <<>>
  OBVIOUS
<1>5. c \in ToRead(p) <=> o = p /\ EventOf(c) # "none"
  BY <1>1 DEF ToRead
<1>6. Free(changes, ToRead(p)) <=> c \notin ToRead(p) /\ Free(changes', ToRead(p))
  BY <1>1, <1>2, TakenFree
<1> HIDE DEF c, k, o
<1>7. CASE o = p /\ EventOf(c) # "none"
  <2>1. p # None
    BY TagAssumption
  <2>2. CASE Exists(p)
    <3>1. domains'.held = <<k>>
      BY <1>1, <1>7, <2>1, <2>2
    <3>2. HoldsRight(<<k>>, p, Get(p))
      BY <1>4, <1>7 DEF HoldsRight, Holds
    <3>3. HoldsRight(domains'.held, p, Get(p)')
      BY <1>3, <3>1, <3>2
    <3> QED
      BY <3>3, SumVacant
  <2>3. CASE ~ Exists(p)
    BY <1>3, <2>3, SumVacant
  <2> QED
    BY <2>2, <2>3
<1>8. CASE o # p \/ EventOf(c) = "none"
  <2>1. AllRead(p)' => AllRead(p)
    BY <1>2, <1>5, <1>6, <1>8 DEF AllRead
  <2>2. ~ Holds(domains.held, p) /\ ~ Holds(domains'.held, p)
    BY <1>1, <1>4, <1>8 DEF Holds
  <2>3. \E ev \in Seq(Events) : Free(ev, Sums(p)) /\ wire' = wire \o ev
    <3>1. CASE EventOf(c) = "none"
      <4>1. wire' = wire \o <<>> /\ <<>> \in Seq(Events) /\ Free(<<>>, Sums(p))
        BY <1>1, <1>2, <3>1, FreeShort
      <4> QED
        BY <4>1
    <3>2. CASE EventOf(c) # "none"
      <4>1. online
        BY <1>1, <1>2, <3>2 DEF Spoilt
      <4>2. wire' = wire \o UserEvents(c) /\ UserEvents(c) \in Seq(Events) /\ Free(UserEvents(c), Sums(p))
        BY <1>1, <3>2, <4>1, EventsAre, UserEventsFree
      <4> QED
        BY <4>2
    <3> QED
      BY <3>1, <3>2
  <2>4. \A g : ~ HoldsRight(domains.held, p, g)
    BY <2>2 DEF HoldsRight
  <2> QED
    BY <1>2, <1>3, <2>1, <2>2, <2>3, <2>4, SumCarriedIs
<1> QED
  BY <1>7, <1>8

\* What the other thread holds, after a summary is told.
LEMMA OtherHolds ==
    ASSUME NEW Held, Held = HeldChanges \/ Held = HeldDepChanges, NEW t \in Threads(Held), NEW s, NEW p, NEW g
    PROVE  LET u == Overtaken(t, s) IN
           /\ Holds(u.held, p) <=> Holds(t.held, p)
           /\ HoldsRight(t.held, p, g) => HoldsRight(u.held, p, g)
           /\ s.id = p /\ s = g /\ Holds(u.held, p) => HoldsRight(u.held, p, g)
<1> DEFINE u == Overtaken(t, s)
           k == t.held[1]
<1>1. /\ t.held = <<>> => u.held = <<>>
      /\ t.held # <<>> => u.held = <<Late(k, s)>>
  BY OvertakenIs
<1>2. t.held = <<>> \/ (t.held = <<k>> /\ t.held # <<>> /\ k \in Held)
  BY HeldIs
<1> HIDE DEF u, k
<1>3. CASE t.held = <<>>
  BY <1>1, <1>3 DEF Holds, HoldsRight, u
<1>4. CASE t.held # <<>>
  <2>1. /\ Late(k, s).id = k.id /\ Late(k, s).summary = k.summary
        /\ Late(k, s).late = (k.late \/ (k.id = s.id /\ k.summary # s))
    BY <1>2, <1>4, LateIs
  <2>2. u.held[1] = Late(k, s) /\ u.held # <<>> /\ t.held[1] = k
    BY <1>1, <1>4 DEF k
  <2>3. Holds(u.held, p) <=> Holds(t.held, p)
    BY <1>4, <2>1, <2>2 DEF Holds
  <2>4. HoldsRight(t.held, p, g) => HoldsRight(u.held, p, g)
    BY <2>1, <2>2, <2>3 DEF HoldsRight
  <2>5. s.id = p /\ s = g /\ Holds(u.held, p) => HoldsRight(u.held, p, g)
    BY <2>1, <2>2 DEF HoldsRight, Holds
  <2> QED
    BY <2>3, <2>4, <2>5 DEF u
<1> QED
  BY <1>3, <1>4

\* What a thread and the other one hold, before it tells and after.
Tells(mine, mineNext, his, hisNext) ==
    \/ mine = domains.held /\ his = deployments.held /\ mineNext = domains'.held /\ hisNext = deployments'.held
    \/ mine = deployments.held /\ his = domains.held /\ mineNext = deployments'.held /\ hisNext = domains'.held

\* A thread tells its summary, that no other has overtaken.
LEMMA ToldSums ==
    ASSUME TypeOK, NEW p, UNCHANGED <<row, dep, changes, depChanges>>,
           NEW ev \in Seq(Events), wire' = wire \o ev,
           NEW mine, NEW his, NEW mineNext, NEW hisNext,
           Tells(mine, mineNext, his, hisNext),
           NEW s, ~ Free(ev, Sums(p)), \A g : s = g => Settled(ev, Sums(p), Sums(p), Fresh(g)),
           Holds(mine, p), \A g : HoldsRight(mine, p, g) => s = g, ~ Holds(mineNext, p),
           \A g : HoldsRight(his, p, g) => HoldsRight(hisNext, p, g),
           \A g : s = g /\ Holds(hisNext, p) => HoldsRight(hisNext, p, g),
           Holds(hisNext, p) <=> Holds(his, p)
    PROVE  SumCarried(p)
<1>1. wire \in Seq(Events)
  BY TypesAre DEF QueuesTyped
<1>2. ~ Free(wire', Sums(p))
  BY <1>1, FreeConcat
<1>3. \A list : SumListed(p, list)'
  BY <1>2 DEF SumListed
<1>4. (Exists(p)' <=> Exists(p)) /\ Get(p)' = Get(p) /\ (AllRead(p)' <=> AllRead(p))
  BY TablesStay DEF AllRead
<1>5. ASSUME NEW g, s = g PROVE Settled(wire', Sums(p), Sums(p), Fresh(g))
  <2>1. Settled(ev, Sums(p), Sums(p), Fresh(g))
    BY <1>5
  <2>2. Settled(wire \o ev, Sums(p), Sums(p), Fresh(g)) <=>
           Settled(ev, Sums(p), Sums(p), Fresh(g)) /\ (Free(ev, Sums(p)) => Settled(wire, Sums(p), Sums(p), Fresh(g)))
    BY <1>1, SettledConcat
  <2> QED
    BY <2>1, <2>2
<1>6. ASSUME SumRight(p) PROVE SumRight(p)'
  <2> SUFFICES ASSUME Exists(p)', AllRead(p)'
               PROVE  /\ Holds(domains'.held, p) \/ Holds(deployments'.held, p) =>
                            HoldsRight(domains'.held, p, Get(p)') \/ HoldsRight(deployments'.held, p, Get(p)')
                      /\ ~ Holds(domains'.held, p) /\ ~ Holds(deployments'.held, p) =>
                            Settled(wire', Sums(p), Sums(p), Fresh(Get(p)'))
    BY DEF SumRight
  <2> DEFINE g == Get(p)
  <2>1. Get(p)' = g
    BY <1>4
  <2>2. HoldsRight(mine, p, g) \/ HoldsRight(his, p, g)
    BY <1>4, <1>6 DEF SumRight, Tells
  <2> HIDE DEF g
  <2>3. Holds(hisNext, p) => HoldsRight(hisNext, p, g)
    BY <2>2
  <2>4. ~ Holds(hisNext, p) => Settled(wire', Sums(p), Sums(p), Fresh(g))
    <3> SUFFICES ASSUME ~ Holds(hisNext, p) PROVE Settled(wire', Sums(p), Sums(p), Fresh(g))
      OBVIOUS
    <3>1. ~ HoldsRight(his, p, g)
      BY DEF HoldsRight
    <3>2. s = g
      BY <2>2, <3>1
    <3> QED
      BY <1>5, <3>2
  <2> QED
    BY <2>1, <2>3, <2>4 DEF Tells
<1> QED
  BY <1>3, <1>6 DEF SumCarried

LEMMA TellDeploymentSums ==
    ASSUME TypeOK, Named, TellDeployment, trust'["deployments"] # "missed", NEW p \in Deployments
    PROVE  SumCarried(p)
<1> DEFINE h == domains.held[1]
           s == h.summary
           ev == ToldEvents(h)
           e1 == Event("deploymentdesktop", h.event, h.card)
           e2 == Event("deployments", "update", s)
<1>1. /\ domains.held = <<h>> /\ h \in HeldChanges /\ domains'.held = <<>>
      /\ ev \in Seq(Events)
      /\ wire' = wire \o (IF online THEN ev ELSE <<>>)
      /\ Spoilt(IF online THEN IF h.late THEN {"deployments"} ELSE {} ELSE Views)
      /\ deployments' = Overtaken(deployments, s)
  BY TellDeploymentIs
<1>2. /\ "deployments" \in Views /\ wire \in Seq(Events) /\ UNCHANGED <<row, dep, changes, depChanges>>
      /\ deployments \in Threads(HeldDepChanges)
  BY TypesAre DEF Views, QueuesTyped, TellDeployment, tables
<1>3. s.id = h.id /\ s \in Summaries /\ h.event \in {"add", "update", "delete"} /\ h.card \in Cards
  BY <1>1 DEF Named, HeldChanges
<1>4. /\ e1 \in Events /\ e1.subject = "deploymentdesktop"
      /\ e2 \in Events /\ e2.subject = "deployments" /\ e2.what = "update" /\ e2.data = s
  BY <1>3 DEF Event, Events
<1>5. ev = <<e1>> \o <<e2>>
  <2>1. <<e1>> \o <<e2>> = <<e1, e2>>
    BY <1>4, TwoAre
  <2> QED
    BY <2>1 DEF ToldEvents
<1>6. domains.held # <<>> /\ domains.held[1] = h
  BY <1>1
<1> HIDE DEF h, s, ev, e1, e2
<1>7. online /\ ~ h.late
  BY <1>1, <1>2 DEF Spoilt
<1>8. wire' = wire \o ev
  BY <1>1, <1>7
<1>9. Free(ev, Sums(p)) <=> h.id # p
  <2>1. Free(<<e1>> \o <<e2>>, Sums(p)) <=> e1 \notin Sums(p) /\ e2 \notin Sums(p)
    BY <1>4, TwoAre
  <2>2. e1 \notin Sums(p) /\ (e2 \in Sums(p) <=> h.id = p)
    BY <1>3, <1>4 DEF Sums
  <2> QED
    BY <1>5, <2>1, <2>2
<1>10. ASSUME NEW g, s = g PROVE Settled(ev, Sums(p), Sums(p), Fresh(g))
  <2>1. Settled(<<e1>> \o <<e2>>, Sums(p), Sums(p), Fresh(g)) <=>
           /\ e2 \in Sums(p) => e2 \in Fresh(g)
           /\ e2 \notin Sums(p) => (e1 \in Sums(p) => e1 \in Fresh(g))
    BY <1>4, TwoAre
  <2>2. e1 \notin Sums(p) /\ e2 \in Fresh(g)
    BY <1>4, <1>10 DEF Sums, Fresh
  <2> QED
    BY <1>5, <2>1, <2>2
<1>11. ASSUME NEW g
       PROVE  /\ Holds(deployments'.held, p) <=> Holds(deployments.held, p)
              /\ HoldsRight(deployments.held, p, g) => HoldsRight(deployments'.held, p, g)
              /\ s.id = p /\ s = g /\ Holds(deployments'.held, p) => HoldsRight(deployments'.held, p, g)
  BY <1>1, <1>2, OtherHolds
<1>12. /\ Holds(domains.held, p) <=> h.id = p
       /\ ~ Holds(domains'.held, p)
       /\ \A g : HoldsRight(domains.held, p, g) => s = g
  BY <1>1, <1>6, <1>7 DEF Holds, HoldsRight, s
<1>13. CASE h.id = p
  <2>1. \A g : s = g /\ Holds(deployments'.held, p) => HoldsRight(deployments'.held, p, g)
    BY <1>3, <1>11, <1>13
  <2>2. ~ Free(ev, Sums(p)) /\ Holds(domains.held, p) /\ ~ Holds(domains'.held, p)
    BY <1>9, <1>12, <1>13
  <2>3. \A g : s = g => Settled(ev, Sums(p), Sums(p), Fresh(g))
    BY <1>10
  <2>4. \A g : HoldsRight(deployments.held, p, g) => HoldsRight(deployments'.held, p, g)
    BY <1>11
  <2>5. Holds(deployments'.held, p) <=> Holds(deployments.held, p)
    BY <1>11
  <2>6. \A g : HoldsRight(domains.held, p, g) => s = g
    BY <1>12
  <2>7. Tells(domains.held, domains'.held, deployments.held, deployments'.held)
    BY DEF Tells
  <2> QED
    BY ONLY TypeOK, <2>7, <1>1, <1>2, <1>8, <2>1, <2>2, <2>3, <2>4, <2>5, <2>6, ToldSums
<1>14. CASE h.id # p
  <2>1. (Exists(p)' <=> Exists(p)) /\ Get(p)' = Get(p) /\ (AllRead(p)' <=> AllRead(p))
    BY <1>2, TablesStay DEF AllRead
  <2>2. \A g : ~ HoldsRight(domains.held, p, g)
    BY <1>12, <1>14 DEF HoldsRight
  <2> QED
    BY <1>1, <1>8, <1>9, <1>11, <1>12, <1>14, <2>1, <2>2, SumCarriedIs
<1> QED
  BY <1>13, <1>14

\* The events of what DeploymentsThread tells, as summaries.
LEMMA ToldOfSums ==
    ASSUME NEW h \in HeldDepChanges, h.summary.id = h.id, NEW p
    PROVE  /\ Free(ToldOf(h), Sums(p)) <=> h.id # p
           /\ \A g : h.summary = g => Settled(ToldOf(h), Sums(p), Sums(p), Fresh(g))
<1> DEFINE e1 == Event("deployment", "update", h.summary)
           e2 == Event("deployments", h.event, h.summary)
           s == h.summary
<1>1. h.event \in {"add", "update"} /\ s \in Summaries /\ s.id = h.id
  BY DEF HeldDepChanges
<1>2. /\ e1 \in Events /\ e1.subject = "deployment"
      /\ e2 \in Events /\ e2.subject = "deployments" /\ e2.what = h.event /\ e2.data = s
  BY <1>1 DEF Event, Events
<1> HIDE DEF e1, e2, s
<1>3. e1 \notin Sums(p) /\ (e2 \in Sums(p) <=> h.id = p)
  BY <1>1, <1>2 DEF Sums
<1>4. \A g : s = g => e2 \in Fresh(g)
  BY <1>2 DEF Fresh
<1>5. CASE h.event = "update"
  <2>1. ToldOf(h) = <<e1>> \o <<e2>>
    BY ONLY <1>5 DEF ToldOf, e1, e2
  <2>2. Free(<<e1>> \o <<e2>>, Sums(p)) <=> e1 \notin Sums(p) /\ e2 \notin Sums(p)
    BY <1>2, TwoAre
  <2>3. ASSUME NEW g, s = g PROVE Settled(ToldOf(h), Sums(p), Sums(p), Fresh(g))
    <3>1. Settled(<<e1>> \o <<e2>>, Sums(p), Sums(p), Fresh(g)) <=>
             /\ e2 \in Sums(p) => e2 \in Fresh(g)
             /\ e2 \notin Sums(p) => (e1 \in Sums(p) => e1 \in Fresh(g))
      BY <1>2, TwoAre
    <3> QED
      BY <1>3, <1>4, <2>1, <2>3, <3>1
  <2>4. Free(ToldOf(h), Sums(p)) <=> h.id # p
    BY <1>3, <2>1, <2>2
  <2> QED
    BY <2>3, <2>4 DEF s
<1>6. CASE h.event # "update"
  <2>1. ToldOf(h) = <<e2>>
    <3>1. <<>> \o <<e2>> = <<e2>>
      OBVIOUS
    <3> QED
      BY <1>6, <3>1 DEF ToldOf, e2
  <2>2. /\ Free(<<e2>>, Sums(p)) <=> e2 \notin Sums(p)
        /\ \A g : Settled(<<e2>>, Sums(p), Sums(p), Fresh(g)) <=> (e2 \in Sums(p) => e2 \in Fresh(g))
    BY FreeShort, SettledShort
  <2>3. Free(ToldOf(h), Sums(p)) <=> h.id # p
    BY <1>3, <2>1, <2>2
  <2>4. \A g : s = g => Settled(ToldOf(h), Sums(p), Sums(p), Fresh(g))
    BY <1>4, <2>1, <2>2
  <2> QED
    BY <2>3, <2>4 DEF s
<1> QED
  BY <1>5, <1>6

LEMMA TellDeploymentsSums ==
    ASSUME TypeOK, Named, TellDeployments, trust'["deployments"] # "missed", NEW p \in Deployments
    PROVE  SumCarried(p)
<1> DEFINE h == deployments.held[1]
           s == h.summary
           ev == ToldOf(h)
<1>1. /\ deployments.held = <<h>> /\ h \in HeldDepChanges /\ deployments'.held = <<>>
      /\ ev \in Seq(Events)
      /\ wire' = wire \o (IF online THEN ev ELSE <<>>)
      /\ Spoilt(IF online THEN IF h.late THEN {"deployments"} ELSE {} ELSE Views)
      /\ domains' = Overtaken(domains, s)
  BY TellDeploymentsIs
<1>2. /\ "deployments" \in Views /\ UNCHANGED <<row, dep, changes, depChanges>>
      /\ domains \in Threads(HeldChanges)
  BY TypesAre DEF Views, QueuesTyped, TellDeployments, tables
<1>3. s.id = h.id
  BY <1>1 DEF Named
<1>4. /\ Free(ev, Sums(p)) <=> h.id # p
      /\ \A g : s = g => Settled(ev, Sums(p), Sums(p), Fresh(g))
  BY <1>1, <1>3, ToldOfSums
<1>5. deployments.held # <<>> /\ deployments.held[1] = h
  BY <1>1
<1> HIDE DEF h, s, ev
<1>6. online /\ ~ h.late
  BY <1>1, <1>2 DEF Spoilt
<1>7. wire' = wire \o ev
  BY <1>1, <1>6
<1>8. ASSUME NEW g
      PROVE  /\ Holds(domains'.held, p) <=> Holds(domains.held, p)
             /\ HoldsRight(domains.held, p, g) => HoldsRight(domains'.held, p, g)
             /\ s.id = p /\ s = g /\ Holds(domains'.held, p) => HoldsRight(domains'.held, p, g)
  BY <1>1, <1>2, OtherHolds
<1>9. /\ Holds(deployments.held, p) <=> h.id = p
      /\ ~ Holds(deployments'.held, p)
      /\ \A g : HoldsRight(deployments.held, p, g) => s = g
  BY <1>1, <1>5, <1>6 DEF Holds, HoldsRight, s
<1>10. CASE h.id = p
  <2>1. \A g : s = g /\ Holds(domains'.held, p) => HoldsRight(domains'.held, p, g)
    BY <1>3, <1>8, <1>10
  <2>2. ~ Free(ev, Sums(p)) /\ Holds(deployments.held, p) /\ ~ Holds(deployments'.held, p)
    BY <1>4, <1>9, <1>10
  <2>3. \A g : s = g => Settled(ev, Sums(p), Sums(p), Fresh(g))
    BY <1>4
  <2>4. \A g : HoldsRight(domains.held, p, g) => HoldsRight(domains'.held, p, g)
    BY <1>8
  <2>5. Holds(domains'.held, p) <=> Holds(domains.held, p)
    BY <1>8
  <2>6. \A g : HoldsRight(deployments.held, p, g) => s = g
    BY <1>9
  <2>7. Tells(deployments.held, deployments'.held, domains.held, domains'.held)
    BY DEF Tells
  <2> QED
    BY ONLY SMTT(30), TypeOK, <2>7, <1>1, <1>2, <1>7, <2>1, <2>2, <2>3, <2>4, <2>5, <2>6, ToldSums
<1>11. CASE h.id # p
  <2>1. (Exists(p)' <=> Exists(p)) /\ Get(p)' = Get(p) /\ (AllRead(p)' <=> AllRead(p))
    BY <1>2, TablesStay DEF AllRead
  <2>2. \A g : ~ HoldsRight(deployments.held, p, g)
    BY <1>9, <1>11 DEF HoldsRight
  <2> QED
    BY <1>1, <1>4, <1>7, <1>8, <1>9, <1>11, <2>1, <2>2, SumCarriedIs
<1> QED
  BY <1>10, <1>11

LEMMA TakeDepChangeSums ==
    ASSUME TypeOK, GoneDeps, TakeDepChange, trust'["deployments"] # "missed", NEW p \in Deployments
    PROVE  SumCarried(p)
<1> DEFINE c == Head(depChanges)
           k == [id |-> c.id, event |-> c.event, summary |-> Get(c.id), late |-> FALSE]
           e == Event("deployments", "delete", [id |-> c.id])
<1>1. /\ deployments.held = <<>> /\ depChanges # <<>> /\ c \in DepChanges
      /\ depChanges' = Tail(depChanges)
      /\ c.event = "delete" =>
            /\ GoneEvents(c.id) \in Seq(Events)
            /\ wire' = wire \o (IF online THEN GoneEvents(c.id) ELSE <<>>) /\ deployments'.held = <<>>
            /\ Spoilt(IF online THEN {} ELSE Views)
      /\ c.event # "delete" /\ Exists(c.id) => wire' = wire /\ deployments'.held = <<k>>
      /\ c.event # "delete" /\ ~ Exists(c.id) => Spoilt({"deployment", "deployments"})
  BY TakeDepChangeIs
<1>2. /\ row' = row /\ dep' = dep /\ changes' = changes /\ domains' = domains
      /\ "deployments" \in Views /\ depChanges \in Seq(DepChanges) /\ wire \in Seq(Events)
  BY TypesAre DEF TakeDepChange, Views, QueuesTyped
<1>3. (Exists(p)' <=> Exists(p)) /\ Get(p)' = Get(p)
  BY <1>2, TablesStay
<1>4. k.id = c.id /\ k.summary = Get(c.id) /\ <<k>>[1] = k /\ <<k>> # <<>>
  OBVIOUS
<1>5. c \in ToReadDep(p) <=> c.id = p
  BY <1>1 DEF ToReadDep
<1>6. Free(depChanges, ToReadDep(p)) <=> c \notin ToReadDep(p) /\ Free(depChanges', ToReadDep(p))
  BY <1>1, <1>2, TakenFree
<1>7. c.event = "delete" => dep[c.id].state = "gone"
  <2> DEFINE T == {x \in DepChanges : x.event = "delete" /\ dep[x.id].state # "gone"}
  <2>1. Free(depChanges, T) <=> c \notin T /\ Free(Tail(depChanges), T)
    BY <1>1, <1>2, TakenFree
  <2>2. Free(depChanges, T)
    BY DEF GoneDeps
  <2> QED
    BY <1>1, <2>1, <2>2
<1>8. GoneEvents(c.id) = <<e>>
  BY DEF GoneEvents
<1>9. e \notin Sums(p)
  BY DEF Event, Sums
<1> HIDE DEF c, k, e
<1>10. c.event # "delete" => Exists(c.id)
  BY <1>1, <1>2 DEF Spoilt
<1>11. CASE c.id = p
  <2>1. CASE c.event = "delete"
    <3>1. ~ Exists(p)'
      BY <1>3, <1>7, <1>11, <2>1 DEF Exists
    <3> QED
      BY <3>1, SumVacant
  <2>2. CASE c.event # "delete"
    <3>1. HoldsRight(<<k>>, p, Get(p))
      BY <1>4, <1>11 DEF HoldsRight, Holds
    <3>2. HoldsRight(deployments'.held, p, Get(p)')
      BY <1>1, <1>3, <1>10, <2>2, <3>1
    <3> QED
      BY <3>2, SumVacant
  <2> QED
    BY <2>1, <2>2
<1>12. CASE c.id # p
  <2>1. AllRead(p)' => AllRead(p)
    BY <1>2, <1>5, <1>6, <1>12 DEF AllRead
  <2>2. ~ Holds(deployments.held, p) /\ ~ Holds(deployments'.held, p)
    BY <1>1, <1>4, <1>10, <1>12 DEF Holds
  <2>3. \E ev \in Seq(Events) : Free(ev, Sums(p)) /\ wire' = wire \o ev
    <3>1. CASE c.event # "delete"
      <4>1. wire' = wire \o <<>> /\ <<>> \in Seq(Events) /\ Free(<<>>, Sums(p))
        BY <1>1, <1>2, <1>10, <3>1, FreeShort
      <4> QED
        BY <4>1
    <3>2. CASE c.event = "delete"
      <4>1. online
        BY <1>1, <1>2, <3>2 DEF Spoilt
      <4>2. Free(GoneEvents(c.id), Sums(p))
        BY <1>8, <1>9, FreeShort
      <4>3. wire' = wire \o GoneEvents(c.id) /\ GoneEvents(c.id) \in Seq(Events)
        BY <1>1, <3>2, <4>1
      <4> QED
        BY <4>2, <4>3
    <3> QED
      BY <3>1, <3>2
  <2>4. \A g : ~ HoldsRight(deployments.held, p, g)
    BY <2>2 DEF HoldsRight
  <2>5. PICK ev \in Seq(Events) : Free(ev, Sums(p)) /\ wire' = wire \o ev
    BY <2>3
  <2> QED
    BY <1>2, <1>3, <2>1, <2>2, <2>4, <2>5, SumCarriedIs
<1> QED
  BY <1>11, <1>12

\* A step that is none of the browser carries each summary, unless the lists are spoilt.
LEMMA StepSums ==
    ASSUME TypeOK, Idle, Named, GoneDeps,
           RowStep \/ DepStep \/ OtherStep \/ DomainsThread \/ DeploymentsThread \/ Faults,
           trust'["deployments"] # "missed", NEW p \in Deployments
    PROVE  SumCarried(p)
<1>1. CASE RowStep
  BY <1>1, RowStepSums
<1>2. CASE DepStep
  BY <1>2, DepStepSums
<1>3. CASE OtherStep
  <2>1. /\ row' = row /\ dep' = dep /\ wire' = wire /\ domains' = domains /\ deployments' = deployments
        /\ changes' = changes /\ depChanges' = depChanges
    BY <1>3 DEF OtherStep, feeds
  <2>2. (Exists(p)' <=> Exists(p)) /\ Get(p)' = Get(p) /\ (AllRead(p)' <=> AllRead(p))
    BY <2>1, TablesStay DEF AllRead
  <2> QED
    BY <2>1, <2>2, SumStays
<1>4. CASE DomainsThread
  BY <1>4, TakeChangeSums, TellDeploymentSums DEF DomainsThread
<1>5. CASE DeploymentsThread
  BY <1>5, TakeDepChangeSums, TellDeploymentsSums DEF DeploymentsThread
<1>6. CASE Faults
  <2>1. /\ wire' = wire /\ changes' = changes /\ depChanges' = depChanges
        /\ domains'.held = domains.held /\ deployments'.held = deployments.held
    BY <1>6, FaultsQueues DEF DepViews
  <2>2. row' = row /\ dep' = dep
    BY <1>6, FaultsAre
  <2>3. (Exists(p)' <=> Exists(p)) /\ Get(p)' = Get(p) /\ (AllRead(p)' <=> AllRead(p))
    BY <2>1, <2>2, TablesStay DEF AllRead
  <2> QED
    BY <2>1, <2>3, SumStays
<1> QED
  BY <1>1, <1>2, <1>3, <1>4, <1>5, <1>6

SumsRight == trust["deployments"] # "missed" => \A p \in Deployments : SumRight(p)

\* With nothing on its way nothing wrong is.
LEMMA DrainedSums ==
    ASSUME Drained, NEW p
    PROVE  SumRight(p)
<1>1. wire = <<>> /\ deployments.held = <<>> /\ domains.held = <<>>
  BY DEF Drained
<1>2. ~ Holds(domains.held, p) /\ ~ Holds(deployments.held, p)
  BY <1>1 DEF Holds
<1>3. Settled(wire, Sums(p), Sums(p), Fresh(Get(p)))
  BY <1>1, SettledShort
<1> QED
  BY <1>2, <1>3 DEF SumRight

\* An event comes, or none.
LEMMA BrowserSums ==
    ASSUME TypeOK, Browser, NEW p, SumRight(p)
    PROVE  SumRight(p)'
<1>0. /\ row' = row /\ dep' = dep /\ deployments' = deployments /\ depChanges' = depChanges
      /\ domains' = domains /\ changes' = changes
      /\ wire' = wire \/ (wire # <<>> /\ wire' = Tail(wire))
  BY DEF Browser, Deliver, Open, Read, Answer, tables, feeds
<1>1. wire \in Seq(Events)
  BY TypesAre DEF QueuesTyped
<1>2. (Exists(p)' <=> Exists(p)) /\ Get(p)' = Get(p) /\ (AllRead(p)' <=> AllRead(p))
  BY <1>0, TablesStay DEF AllRead
<1>3. ASSUME NEW G, Settled(wire, Sums(p), Sums(p), G) PROVE Settled(wire', Sums(p), Sums(p), G)
  <2>1. CASE wire' = wire
    BY <1>3, <2>1
  <2>2. CASE wire # <<>> /\ wire' = Tail(wire)
    <3>1. Tail(wire) \in Seq(Events) /\ wire = <<Head(wire)>> \o Tail(wire) /\ <<Head(wire)>> \in Seq(Events)
      BY <1>1, <2>2, HeadAndTail
    <3>2. Settled(<<Head(wire)>> \o Tail(wire), Sums(p), Sums(p), G) <=>
             /\ Settled(Tail(wire), Sums(p), Sums(p), G)
             /\ Free(Tail(wire), Sums(p)) => Settled(<<Head(wire)>>, Sums(p), Sums(p), G)
      BY <3>1, SettledConcat
    <3> QED
      BY <1>3, <2>2, <3>1, <3>2
  <2> QED
    BY <1>0, <2>1, <2>2
<1> QED
  BY <1>0, <1>2, <1>3 DEF SumRight

LEMMA SumsInit == Init => SumsRight
<1> SUFFICES ASSUME Init PROVE SumsRight
  OBVIOUS
<1>1. Drained
  BY DEF Init, Listening, Drained
<1> QED
  BY <1>1, DrainedSums DEF SumsRight

LEMMA SumsStep ==
    ASSUME Basic, Named, GoneDeps, SumsRight, Steps
    PROVE  SumsRight'
<1>0. TypeOK /\ Idle /\ "deployments" \in Views
  BY DEF Basic, Views
<1> SUFFICES ASSUME trust'["deployments"] # "missed", NEW p \in Deployments
             PROVE  SumRight(p)'
  BY DEF SumsRight
<1>1. CASE Browser
  <2>1. SumRight(p)
    BY <1>0, <1>1, BrowserTrusts, DrainedSums DEF SumsRight
  <2> QED
    BY <1>0, <1>1, <2>1, BrowserSums
<1>2. CASE ~ Browser
  <2>1. Quiet("deployments")
    BY <1>0, <1>2, StepQuiet DEF Steps
  <2>2. SumCarried(p)
    BY <1>0, <1>2, StepSums DEF Steps
  <2> QED
    BY <2>1, <2>2 DEF Quiet, SumsRight, SumCarried
<1> QED
  BY <1>1, <1>2

\* A list of deployments is right, but for what still comes.
DepListed(p, list) == (TurnClear(p) => (Has(list, p) <=> Exists(p))) /\ SumListed(p, list)
DeploymentsRight ==
    \A list : Trusted("deployments", list) =>
        Once(list) /\ \A p \in Deployments : DepListed(p, list)

\* A list that is trusted is a list of summaries.
LEMMA TrustedDeployments ==
    ASSUME TypeOK, NEW list, Trusted("deployments", list)
    PROVE  list \in Seq(Summaries)
  BY StoresTyped DEF Trusted

\* What is read is right.
LEMMA DeploymentsRead ==
    ASSUME TypeOK, NEW list, list = SetToSeq(ListOfDeployments)
    PROVE  Once(list) /\ \A p \in Deployments : DepListed(p, list)
<1>1. /\ list \in Seq(Summaries) /\ Once(list)
      /\ Range(list) = ListOfDeployments
      /\ \A p \in Deployments : Exists(p) => Get(p) \in ListOfDeployments
      /\ \A x \in ListOfDeployments : x.id \in Deployments /\ Exists(x.id) /\ x = Get(x.id)
  BY DeploymentsListed
<1>2. \A p : Has(list, p) <=> \E x \in Range(list) : x.id = p
  BY <1>1, HasIs
<1>3. ASSUME NEW p \in Deployments PROVE DepListed(p, list)
  <2>1. Get(p).id = p
    BY GetIs
  <2>2. Has(list, p) <=> Exists(p)
    BY <1>1, <1>2, <2>1
  <2>3. SumListed(p, list)
    BY <1>1 DEF SumListed
  <2> QED
    BY <2>2, <2>3 DEF DepListed
<1> QED
  BY <1>1, <1>3

\* An event is delivered, as a list of deployments sees it.
LEMMA DeliveredDeployment ==
    ASSUME TypeOK, NEW p \in Deployments, NEW e, wire # <<>>, e = Head(wire),
           row' = row, dep' = dep, changes' = changes, depChanges' = depChanges,
           domains' = domains, deployments' = deployments, wire' = Tail(wire),
           NEW list \in Seq(Summaries), DepListed(p, list), NEW new \in Seq(Summaries),
           TurnLine(p, Exists(p)), SumRight(p),
           \A x \in Range(new) : x.id = p => x \in Range(list) \/ (e \in Sums(p) /\ x = e.data),
           e \in Sums(p) => \A x \in Range(new) : x.id = p => x = e.data,
           e \notin DepTurns(p).wire => (Has(new, p) <=> Has(list, p)),
           e \in DepTurns(p).wire => (Has(new, p) <=> e.what = "add")
    PROVE  DepListed(p, new)'
<1>1. wire \in Seq(Events) /\ e \in Events
  BY TypesAre DEF QueuesTyped
<1>2. (Exists(p)' <=> Exists(p)) /\ Get(p)' = Get(p) /\ (AllRead(p)' <=> AllRead(p))
  BY TablesStay DEF AllRead
<1>3. TurnClear(p)' => (Has(new, p) <=> Exists(p)')
  <2> SUFFICES ASSUME TurnClear(p)' PROVE Has(new, p) <=> Exists(p)
    BY <1>2
  <2> DEFINE b == Exists(p)
  <2>1. Clear(Tail(wire), deployments.held, depChanges, DepTurns(p))
    BY DEF TurnClear
  <2>2. Clear(wire, deployments.held, depChanges, DepTurns(p))
           <=> e \notin DepTurns(p).wire /\ Clear(Tail(wire), deployments.held, depChanges, DepTurns(p))
    BY <1>1, Delivered
  <2>3. Right(wire, deployments.held, depChanges, DepTurns(p), DepTurns(p), DepTurned(b))
    BY DEF TurnLine
  <2> HIDE DEF b
  <2>4. e \in DepTurns(p).wire => e \in DepTurned(b).wire
    BY <1>1, <2>1, <2>3, Delivered
  <2>5. e \in DepTurned(b).wire => ((e.what = "add") <=> b)
    BY DEF DepTurned
  <2>6. CASE e \in DepTurns(p).wire
    BY <2>4, <2>5, <2>6 DEF b
  <2>7. CASE e \notin DepTurns(p).wire
    BY <2>1, <2>2, <2>7 DEF DepListed, TurnClear
  <2> QED
    BY <2>6, <2>7
<1>4. SumListed(p, new)'
  <2> SUFFICES ASSUME Exists(p), AllRead(p), Free(Tail(wire), Sums(p)),
                      ~ Holds(domains.held, p), ~ Holds(deployments.held, p),
                      NEW x \in Range(new), x.id = p
               PROVE  x = Get(p)
    BY <1>2 DEF SumListed
  <2>1. Tail(wire) \in Seq(Events) /\ wire = <<e>> \o Tail(wire) /\ <<e>> \in Seq(Events)
    BY <1>1, HeadAndTail
  <2>2. CASE e \in Sums(p)
    <3>1. Settled(wire, Sums(p), Sums(p), Fresh(Get(p)))
      BY DEF SumRight
    <3>2. Settled(<<e>> \o Tail(wire), Sums(p), Sums(p), Fresh(Get(p))) <=>
             /\ Settled(Tail(wire), Sums(p), Sums(p), Fresh(Get(p)))
             /\ Free(Tail(wire), Sums(p)) => Settled(<<e>>, Sums(p), Sums(p), Fresh(Get(p)))
      BY <2>1, SettledConcat
    <3>3. Settled(<<e>>, Sums(p), Sums(p), Fresh(Get(p)))
      BY <2>1, <3>1, <3>2
    <3>4. e \in Fresh(Get(p))
      BY <2>2, <3>3, SettledShort
    <3> QED
      BY <2>2, <3>4 DEF Fresh
  <2>3. CASE e \notin Sums(p)
    <3>1. Free(wire, Sums(p))
      <4>1. Free(wire, Sums(p)) <=> e \notin Sums(p) /\ Free(Tail(wire), Sums(p))
        BY <1>1, TakenFree
      <4> QED
        BY <2>3, <4>1
    <3> QED
      BY <2>3, <3>1 DEF DepListed, SumListed
  <2> QED
    BY <2>2, <2>3
<1> QED
  BY <1>3, <1>4 DEF DepListed

\* An event for the list: the list is edited.
LEMMA EditedDeployment ==
    ASSUME TypeOK, NEW e \in Events, e.subject = "deployments",
           NEW old \in Seq(Summaries), Once(old), NEW new, new = Edited(old, e.what, e.data),
           e.what = "add" => ~ Has(old, e.data.id)
    PROVE  /\ new \in Seq(Summaries) /\ Once(new)
           /\ \A p \in Deployments :
                 /\ \A x \in Range(new) : x.id = p => x \in Range(old) \/ (e \in Sums(p) /\ x = e.data)
                 /\ e \in Sums(p) => \A x \in Range(new) : x.id = p => x = e.data
                 /\ e \notin DepTurns(p).wire => (Has(new, p) <=> Has(old, p))
                 /\ e \in DepTurns(p).wire => (Has(new, p) <=> e.what = "add")
<1> DEFINE w == e.what
           z == e.data
<1>1. /\ w \in {"add", "update", "delete"} /\ (w # "delete" => z \in Summaries)
      /\ (w = "add" => ~ Has(old, z.id))
  BY EventIs
<1>2. \A p : /\ e \in Sums(p) <=> z.id = p /\ w # "delete"
             /\ e \in DepTurns(p).wire <=> z.id = p /\ w # "update"
  BY DEF Sums, DepTurns
<1>3. new = Edited(old, w, z)
  OBVIOUS
<1> HIDE DEF w, z
<1>4. new \in Seq(Summaries)
  BY SMTT(30), <1>1, <1>3, EditedTyped
<1>5. /\ Once(new)
      /\ Range(new) = {x \in Range(old) : x.id # z.id}
             \cup (IF w = "add" \/ (w = "update" /\ Has(old, z.id)) THEN {z} ELSE {})
  BY <1>1, <1>3, EditedIs
<1>6. \A p : (Has(new, p) <=> \E x \in Range(new) : x.id = p) /\ (Has(old, p) <=> \E x \in Range(old) : x.id = p)
  BY <1>4, HasIs
<1>7. ASSUME NEW p \in Deployments
      PROVE  /\ \A x \in Range(new) : x.id = p => x \in Range(old) \/ (e \in Sums(p) /\ x = z)
             /\ e \in Sums(p) => \A x \in Range(new) : x.id = p => x = z
             /\ e \notin DepTurns(p).wire => (Has(new, p) <=> Has(old, p))
             /\ e \in DepTurns(p).wire => (Has(new, p) <=> w = "add")
  <2>1. \A x \in Range(new) : (x \in Range(old) /\ x.id # z.id) \/ (x = z /\ w # "delete")
    BY <1>5
  <2>2. w = "add" \/ (w = "update" /\ Has(old, z.id)) => z \in Range(new)
    BY <1>5
  <2>3. \A x \in Range(old) : x.id # z.id => x \in Range(new)
    BY <1>5
  <2>4. /\ \A x \in Range(new) : x.id = p => x \in Range(old) \/ (e \in Sums(p) /\ x = z)
        /\ e \in Sums(p) => \A x \in Range(new) : x.id = p => x = z
    BY <1>2, <2>1
  <2>5. e \notin DepTurns(p).wire => (Has(new, p) <=> Has(old, p))
    <3>1. CASE z.id # p
      BY <1>6, <2>1, <2>3, <3>1
    <3>2. CASE z.id = p /\ w = "update"
      <4>1. \A x \in Range(new) : x.id = z.id => Has(old, z.id)
        BY <1>5, <3>2
      <4>2. Has(new, p) <=> \E x \in Range(new) : x.id = p
        BY <1>6
      <4> QED
        BY <2>2, <3>2, <4>1, <4>2
    <3> QED
      BY <1>2, <3>1, <3>2
  <2>6. e \in DepTurns(p).wire => (Has(new, p) <=> w = "add")
    BY <1>1, <1>2, <1>6, <2>1, <2>2
  <2> QED
    BY <2>4, <2>5, <2>6
<1>8. /\ new \in Seq(Summaries) /\ Once(new)
      /\ \A p \in Deployments :
            /\ \A x \in Range(new) : x.id = p => x \in Range(old) \/ (e \in Sums(p) /\ x = z)
            /\ e \in Sums(p) => \A x \in Range(new) : x.id = p => x = z
            /\ e \notin DepTurns(p).wire => (Has(new, p) <=> Has(old, p))
            /\ e \in DepTurns(p).wire => (Has(new, p) <=> w = "add")
  BY <1>4, <1>5, <1>7
<1> QED
  BY ONLY <1>8 DEF w, z

LEMMA DeploymentsStep ==
    ASSUME Basic, Named, GoneDeps, DepLinesRight, SumsRight, DeploymentsRight, Steps
    PROVE  DeploymentsRight'
<1>0. TypeOK /\ Idle /\ "deployments" \in Views /\ "deployments" \in DepViews
  BY DEF Basic, Views, DepViews
<1> SUFFICES ASSUME NEW list, Trusted("deployments", list)'
             PROVE  Once(list) /\ \A p \in Deployments : DepListed(p, list)'
  BY DEF DeploymentsRight
<1>1. CASE ~ Browser
  <2>1. Quiet("deployments") /\ trust'["deployments"] # "missed"
    BY <1>0, <1>1, StepQuiet DEF Steps, Trusted
  <2>2. Trusted("deployments", list)
    BY <2>1, QuietTrusts
  <2>3. Once(list) /\ \A p \in Deployments : DepListed(p, list)
    BY <2>2 DEF DeploymentsRight
  <2>4. \A p \in Deployments : DepCarried(p) /\ SumCarried(p)
    BY <1>0, <1>1, <2>1, StepDeps, StepSums DEF Steps
  <2>5. \A p \in Deployments : DepListed(p, list)'
    BY <2>3, <2>4 DEF DepListed, DepCarried, SumCarried
  <2> QED
    BY <2>3, <2>5
<1>2. CASE \E v \in Views : Open(v) \/ Read(v) \/ Answer(v)
  <2>1. /\ row' = row /\ dep' = dep /\ wire' = wire /\ domains' = domains /\ changes' = changes
        /\ deployments' = deployments /\ depChanges' = depChanges
    BY <1>2 DEF Open, Read, Answer, tables, feeds
  <2>2. ASSUME NEW p \in Deployments, DepListed(p, list) PROVE DepListed(p, list)'
    <3>1. (Exists(p)' <=> Exists(p)) /\ Get(p)' = Get(p) /\ (AllRead(p)' <=> AllRead(p)) /\ (TurnClear(p)' <=> TurnClear(p))
      BY <2>1, TablesStay DEF AllRead, TurnClear
    <3>2. SumListed(p, list)'
      BY <2>1, <2>2, <3>1 DEF DepListed, SumListed
    <3> QED
      BY <2>2, <3>1, <3>2 DEF DepListed
  <2>3. Trusted("deployments", list) \/ list = SetToSeq(ListOfDeployments)
    BY <1>0, <1>2, OpenTrusts, AnswerTrusts, ReadTrusts, AnsweredIs
  <2>4. Once(list) /\ \A p \in Deployments : DepListed(p, list)
    BY <1>0, <2>3, DeploymentsRead DEF DeploymentsRight
  <2> QED
    BY <2>2, <2>4
<1>3. CASE Deliver
  <2> DEFINE e == Head(wire)
  <2>1. /\ row' = row /\ dep' = dep /\ domains' = domains /\ changes' = changes /\ wire # <<>> /\ wire' = Tail(wire)
        /\ deployments' = deployments /\ depChanges' = depChanges
        /\ e \in Events /\ Lists(e)
    BY <1>0, <1>3, DeliverIs DEF tables
  <2>2. /\ "deployments" # ViewOf(e) => Trusted("deployments", list)
        /\ "deployments" = ViewOf(e) =>
              /\ Trusted("deployments", store["deployments"]) /\ list = store'["deployments"]
              /\ e.what = "add" /\ e.subject \in {"desktop", "deployments"} => ~ Has(store["deployments"], e.data.id)
    BY <1>0, <1>3, DeliverTrusts
  <2>3. e = Head(wire)
    OBVIOUS
  <2> HIDE DEF e
  <2>4. "deployments" = ViewOf(e) <=> e.subject = "deployments"
    BY <2>1, EventIs
  <2> DEFINE old == IF "deployments" = ViewOf(e) THEN store["deployments"] ELSE list
  <2>5. Trusted("deployments", old)
    BY <2>2
  <2>6. /\ old \in Seq(Summaries) /\ Once(old) /\ \A p \in Deployments : DepListed(p, old)
        /\ \A p \in Deployments : TurnLine(p, Exists(p)) /\ SumRight(p)
    BY <1>0, <2>5, TrustedDeployments DEF DeploymentsRight, DepLinesRight, SumsRight, Trusted
  <2>7. /\ list \in Seq(Summaries) /\ Once(list)
        /\ \A p \in Deployments :
              /\ \A x \in Range(list) : x.id = p => x \in Range(old) \/ (e \in Sums(p) /\ x = e.data)
              /\ e \in Sums(p) => \A x \in Range(list) : x.id = p => x = e.data
              /\ e \notin DepTurns(p).wire => (Has(list, p) <=> Has(old, p))
              /\ e \in DepTurns(p).wire => (Has(list, p) <=> e.what = "add")
    <3>1. CASE e.subject = "deployments"
      <4>1. old = store["deployments"] /\ list = Edited(old, e.what, e.data) /\ (e.what = "add" => ~ Has(old, e.data.id))
        BY <2>1, <2>2, <2>4, <3>1 DEF Lists
      <4> HIDE DEF old
      <4> QED
        BY <1>0, <2>1, <2>6, <3>1, <4>1, EditedDeployment
    <3>2. CASE e.subject # "deployments"
      <4>1. old = list
        BY <2>4, <3>2
      <4>2. \A p : e \notin Sums(p) /\ e \notin DepTurns(p).wire
        BY <3>2 DEF Sums, DepTurns
      <4> HIDE DEF old
      <4> QED
        BY <2>6, <4>1, <4>2
    <3> QED
      BY <3>1, <3>2
  <2> HIDE DEF old
  <2>8. ASSUME NEW p \in Deployments PROVE DepListed(p, list)'
    <3>1. DepListed(p, old) /\ TurnLine(p, Exists(p)) /\ SumRight(p)
      BY <2>6
    <3>2. /\ \A x \in Range(list) : x.id = p => x \in Range(old) \/ (e \in Sums(p) /\ x = e.data)
          /\ e \in Sums(p) => \A x \in Range(list) : x.id = p => x = e.data
          /\ e \notin DepTurns(p).wire => (Has(list, p) <=> Has(old, p))
          /\ e \in DepTurns(p).wire => (Has(list, p) <=> e.what = "add")
      BY <2>7
    <3>3. old \in Seq(Summaries) /\ list \in Seq(Summaries)
      BY <2>6, <2>7
    <3> QED
      BY <1>0, <2>1, <2>3, <3>1, <3>2, <3>3, DeliveredDeployment
  <2> QED
    BY <2>7, <2>8
<1> QED
  BY <1>1, <1>2, <1>3 DEF Browser

\* A list without an id twice is as long as the set of what it lists.
LEMMA CardinalityIs ==
    ASSUME NEW S, NEW list \in Seq(S), Once(list)
    PROVE  Len(list) = Cardinality(Range(list))
<1> DEFINE n == Len(list)
           R == Range(list)
<1>1. n \in Nat /\ list = [i \in 1 .. n |-> list[i]]
  OBVIOUS
<1>2. /\ \A i \in 1 .. n : list[i] \in R
      /\ \A x \in R : \E i \in 1 .. n : list[i] = x
  BY RangeIs
<1>3. \A i, j \in 1 .. n : list[i] = list[j] => i = j
  BY DEF Once
<1> HIDE DEF n, R
<1>4. list \in [1 .. n -> R]
  <2>1. [i \in 1 .. n |-> list[i]] \in [1 .. n -> R]
    BY <1>2
  <2> QED
    BY <1>1, <2>1
<1>5. list \in Bijection(1 .. n, R)
  BY <1>2, <1>3, <1>4 DEF Bijection, Injection, Surjection, IsInjective
<1>6. ExistsBijection(1 .. n, R)
  BY <1>5 DEF ExistsBijection
<1>7. Cardinality(R) = n
  BY <1>1, <1>6, FS_CountingElements
<1> QED
  BY <1>7 DEF n, R

LEMMA DeploymentsAgreeIs ==
    ASSUME TypeOK, DeploymentsRight, Drained
    PROVE  DeploymentsAgree
<1> SUFFICES ASSUME trust["deployments"] = "kept"
             PROVE  /\ Len(store["deployments"]) = Cardinality(ListOfDeployments)
                    /\ Range(store["deployments"]) = ListOfDeployments
  BY DEF DeploymentsAgree, Kept
<1> DEFINE list == store["deployments"]
<1>1. Trusted("deployments", list)
  BY DEF Trusted
<1>2. list \in Seq(Summaries) /\ Once(list) /\ \A p \in Deployments : DepListed(p, list)
  BY <1>1, TrustedDeployments DEF DeploymentsRight
<1>3. wire = <<>> /\ domains.held = <<>> /\ changes = <<>> /\ deployments.held = <<>> /\ depChanges = <<>>
  BY DEF Drained
<1>4. /\ \A T : Clear(wire, deployments.held, depChanges, T)
      /\ \A T : Free(wire, T) /\ Free(changes, T) /\ Free(depChanges, T)
      /\ \A p : ~ Holds(domains.held, p) /\ ~ Holds(deployments.held, p)
  BY <1>3, NothingQueued, FreeShort DEF Holds
<1> HIDE DEF list
<1>5. \A p \in Deployments : (Has(list, p) <=> Exists(p)) /\ \A x \in Range(list) : x.id = p => (Exists(p) => x = Get(p))
  BY <1>2, <1>4 DEF DepListed, SumListed, TurnClear, AllRead
<1>6. \A p : Has(list, p) <=> \E x \in Range(list) : x.id = p
  BY <1>2, HasIs
<1>7. \A x \in Range(list) : x.id \in Deployments
  <2> TAKE x \in Range(list)
  <2>1. x \in Summaries
    BY <1>2, RangeIs
  <2> QED
    BY <2>1 DEF Summaries
<1>8. Range(list) = ListOfDeployments
  <2>1. \A x \in Range(list) : x \in ListOfDeployments
    BY <1>5, <1>6, <1>7 DEF ListOfDeployments
  <2>2. \A x \in ListOfDeployments : x.id \in Deployments /\ Exists(x.id) /\ x = Get(x.id)
    BY DeploymentsListed
  <2>3. \A x \in ListOfDeployments : x \in Range(list)
    BY <1>5, <1>6, <2>2
  <2> QED
    BY <2>1, <2>3
<1>9. Len(list) = Cardinality(ListOfDeployments)
  <2>1. Len(list) = Cardinality(Range(list))
    BY <1>2, CardinalityIs
  <2> QED
    BY <1>8, <2>1
<1> QED
  BY <1>8, <1>9 DEF list

LEMMA GoneDepsInit == Init => GoneDeps
<1> SUFFICES ASSUME Init PROVE GoneDeps
  OBVIOUS
<1>1. depChanges = <<>>
  BY DEF Init
<1> QED
  BY <1>1, FreeShort DEF GoneDeps

\* The events about the desktops of a deployment: those about desktops that have none.
Tagless == {e \in Events : e.subject = "deploymentdesktop" /\ Tag[e.data.id] = None}
WireTagged == Free(wire, Tagless)

LEMMA WireTaggedInit == Init => WireTagged
<1> SUFFICES ASSUME Init PROVE WireTagged
  OBVIOUS
<1>1. wire = <<>>
  BY DEF Init
<1> QED
  BY <1>1, FreeShort DEF WireTagged

\* What the threads emit is about desktops of deployments.
LEMMA UserEventsTagged ==
    ASSUME NEW c \in Changes, EventOf(c) # "none"
    PROVE  Free(UserEvents(c), Tagless)
<1> DEFINE card == Card(c.id, RowOf(c))
           e1 == Event("desktop", EventOf(c), card)
           e2 == Event("desktop", "delete", card)
<1>1. Free(UserEvents(c), Tagless) <=> e1 \notin Tagless /\ (Hides(c) => e2 \notin Tagless)
  BY UserEventsAre
<1>2. e1.subject = "desktop" /\ e2.subject = "desktop"
  BY DEF Event
<1> HIDE DEF e1, e2
<1> QED
  BY <1>1, <1>2 DEF Tagless

LEMMA ToldEventsTagged ==
    ASSUME NEW h \in HeldChanges, Tag[h.card.id] = h.id
    PROVE  Free(ToldEvents(h), Tagless)
<1> DEFINE e1 == Event("deploymentdesktop", h.event, h.card)
           e2 == Event("deployments", "update", h.summary)
<1>1. h.event \in {"add", "update", "delete"} /\ h.card \in Cards /\ h.summary \in Summaries /\ h.id \in Deployments
  BY DEF HeldChanges
<1>2. /\ e1 \in Events /\ e1.data = h.card
      /\ e2 \in Events /\ e2.subject = "deployments"
  BY <1>1 DEF Event, Events
<1>3. <<e1>> \o <<e2>> = ToldEvents(h)
  <2>1. ToldEvents(h) = <<e1, e2>>
    BY DEF ToldEvents
  <2> HIDE DEF e1, e2
  <2>2. <<e1>> \o <<e2>> = <<e1, e2>>
    BY <1>2, TwoAre
  <2> QED
    BY ONLY <2>1, <2>2
<1> HIDE DEF e1, e2
<1>4. Tag[e1.data.id] # None
  BY <1>1, <1>2, TagAssumption
<1>5. e1 \notin Tagless /\ e2 \notin Tagless
  BY <1>2, <1>4 DEF Tagless
<1>6. Free(<<e1>> \o <<e2>>, Tagless) <=> e1 \notin Tagless /\ e2 \notin Tagless
  BY <1>2, TwoAre
<1> QED
  BY <1>3, <1>5, <1>6

LEMMA ForeignTagged ==
    ASSUME NEW ev, Foreign(ev)
    PROVE  Free(ev, Tagless)
  BY DEF Free, Foreign, Tagless

\* What is emitted is added to what is on its way.
LEMMA EmittedTagged ==
    ASSUME TypeOK, WireTagged, NEW ev \in Seq(Events), Free(ev, Tagless),
           wire' = wire \o (IF online THEN ev ELSE <<>>)
    PROVE  WireTagged'
<1>1. wire \in Seq(Events)
  BY TypesAre DEF QueuesTyped
<1>2. CASE online
  BY <1>1, <1>2, FreeConcat DEF WireTagged
<1>3. CASE ~ online
  <2>1. wire \o <<>> = wire
    BY <1>1
  <2> QED
    BY <1>3, <2>1 DEF WireTagged
<1> QED
  BY <1>2, <1>3

LEMMA WireTaggedStep ==
    ASSUME Basic, Named, WireTagged, Steps
    PROVE  WireTagged'
<1>0. TypeOK /\ Idle /\ wire \in Seq(Events)
  BY TypesAre DEF Basic, QueuesTyped
<1>1. CASE wire' = wire
  BY <1>1 DEF WireTagged
<1>2. CASE RowStep \/ DepStep \/ OtherStep
  <2>1. wire' = wire
    BY <1>2 DEF RowStep, DepStep, OtherStep, feeds
  <2> QED
    BY <1>1, <2>1
<1>3. CASE TakeChange
  <2> DEFINE c == Head(changes)
  <2>1. /\ c \in Changes
        /\ EventOf(c) = "none" => wire' = wire
        /\ EventOf(c) # "none" => wire' = wire \o (IF online THEN UserEvents(c) ELSE <<>>)
    BY <1>0, <1>3, TakeChangeIs
  <2> HIDE DEF c
  <2>2. CASE EventOf(c) = "none"
    BY <1>1, <2>1, <2>2
  <2>3. CASE EventOf(c) # "none"
    <3>1. UserEvents(c) \in Seq(Events) /\ Free(UserEvents(c), Tagless)
      BY <2>1, <2>3, EventsAre, UserEventsTagged
    <3> QED
      BY <1>0, <2>1, <2>3, <3>1, EmittedTagged
  <2> QED
    BY <2>2, <2>3
<1>4. CASE TellDeployment
  <2> DEFINE h == domains.held[1]
  <2>1. /\ domains.held = <<h>> /\ h \in HeldChanges /\ ToldEvents(h) \in Seq(Events)
        /\ wire' = wire \o (IF online THEN ToldEvents(h) ELSE <<>>)
    BY <1>0, <1>4, TellDeploymentIs
  <2> HIDE DEF h
  <2>2. Free(ToldEvents(h), Tagless)
    BY <2>1, ToldEventsTagged DEF Named
  <2> QED
    BY <1>0, <2>1, <2>2, EmittedTagged
<1>5. CASE TakeDepChange
  <2> DEFINE c == Head(depChanges)
  <2>1. /\ c.event = "delete" =>
              /\ GoneEvents(c.id) \in Seq(Events)
              /\ wire' = wire \o (IF online THEN GoneEvents(c.id) ELSE <<>>)
        /\ c.event # "delete" => wire' = wire
    BY <1>0, <1>5, TakeDepChangeIs
  <2> HIDE DEF c
  <2>2. Free(GoneEvents(c.id), Tagless)
    BY ToldAreForeign, ForeignTagged
  <2>3. CASE c.event = "delete"
    BY <1>0, <2>1, <2>2, <2>3, EmittedTagged
  <2>4. CASE c.event # "delete"
    BY <1>1, <2>1, <2>4
  <2> QED
    BY <2>3, <2>4
<1>6. CASE TellDeployments
  <2> DEFINE h == deployments.held[1]
  <2>1. /\ h \in HeldDepChanges /\ ToldOf(h) \in Seq(Events)
        /\ wire' = wire \o (IF online THEN ToldOf(h) ELSE <<>>)
    BY <1>0, <1>6, TellDeploymentsIs
  <2> HIDE DEF h
  <2>2. Free(ToldOf(h), Tagless)
    BY <2>1, ToldAreForeign, ForeignTagged
  <2> QED
    BY <1>0, <2>1, <2>2, EmittedTagged
<1>7. CASE Faults
  <2>1. wire' = wire \/ wire' = <<>>
    BY <1>0, <1>7, FaultsAre
  <2>2. Free(<<>>, Tagless)
    BY FreeShort
  <2> QED
    BY <1>1, <2>1, <2>2 DEF WireTagged
<1>8. CASE Browser
  <2>1. wire' = wire \/ (wire # <<>> /\ wire' = Tail(wire))
    BY <1>8 DEF Browser, Deliver, Open, Read, Answer, feeds
  <2>2. wire # <<>> => (Free(wire, Tagless) <=> Head(wire) \notin Tagless /\ Free(Tail(wire), Tagless))
    BY <1>0, TakenFree
  <2> QED
    BY <1>1, <2>1, <2>2 DEF WireTagged
<1> QED
  BY <1>2, <1>3, <1>4, <1>5, <1>6, <1>7, <1>8 DEF Steps, DomainsThread, DeploymentsThread

\* The page of a deployment is right, but for what still comes.
PageIs(pg) ==
    LET p == pg.id IN
    /\ p \in Deployments /\ dep[p].state # "unborn" /\ Once(pg.desktops)
    /\ \A x \in Range(pg.desktops) : Tag[x.id] # None
    /\ Exists(p) => \A d \in Desktops : Tag[d] = p => ListRight("deployment", d, pg.desktops)
    /\ Exists(p) /\ SightClear(p) => pg.visible = dep[p].visible
PageRight == \A pg : Trusted("deployment", pg) => PageIs(pg)

LEMMA TrustedPage ==
    ASSUME TypeOK, UnbornRows, NEW pg, Trusted("deployment", pg)
    PROVE  /\ pg \in Pages /\ pg.desktops \in Seq(Cards)
           /\ \A d \in Desktops : row[d] = Unborn => ~ Has(pg.desktops, d)
  BY StoresTyped DEF Trusted, UnbornRows, Lists4

\* A step that is none of the browser.
LEMMA PageCarried ==
    ASSUME Basic, Unborns, Named, PageRight,
           RowStep \/ DepStep \/ OtherStep \/ DomainsThread \/ DeploymentsThread \/ Faults,
           NEW pg, Trusted("deployment", pg)'
    PROVE  PageIs(pg)'
<1>0. TypeOK /\ Idle /\ UnbornRows /\ DepsServed /\ "deployment" \in Views /\ "deployment" \in CardViews
      /\ "deployment" \in DepViews
  BY DEF Basic, Unborns, Views, CardViews, DepViews
<1>1. trust'["deployment"] # "missed" /\ Quiet("deployment")
  BY <1>0, StepQuiet DEF Trusted
<1>2. Trusted("deployment", pg)
  BY <1>1, QuietTrusts
<1> DEFINE p == pg.id
           list == pg.desktops
<1>3. PageIs(pg) /\ list \in Seq(Cards) /\ \A d \in Desktops : row[d] = Unborn => ~ Has(list, d)
  BY <1>0, <1>2, TrustedPage DEF PageRight
<1>4. p \in Deployments /\ dep[p].state # "unborn"
  BY <1>3 DEF PageIs
<1>5. dep'[p].state # "unborn" /\ (Exists(p)' => Exists(p))
  BY <1>0, <1>4, DepsMove, DepsStay
<1>6. DepCarried(p)
  BY <1>0, <1>1, <1>4, StepDeps
<1>7. ASSUME Exists(p)', NEW d \in Desktops, Tag[d] = p PROVE ListRight("deployment", d, list)'
  <2>1. p # None
    BY <1>4, TagAssumption
  <2>2. Covered("deployment", d)
    BY <1>5, <1>7, <2>1 DEF Covered
  <2>3. Carried("deployment", d)
    BY <1>0, <1>1, <2>2, StepCarries
  <2>4. ListRight("deployment", d, list)
    BY <1>3, <1>5, <1>7 DEF PageIs
  <2> QED
    BY <1>3, <2>3, <2>4 DEF Carried
<1>8. Exists(p)' /\ SightClear(p)' => pg.visible = dep'[p].visible
  BY <1>3, <1>4, <1>6 DEF DepCarried, PageIs
<1>9. Once(list) /\ \A x \in Range(list) : Tag[x.id] # None
  BY <1>3 DEF PageIs
<1> QED
  BY <1>4, <1>5, <1>7, <1>8, <1>9 DEF PageIs

\* What is read is right.
LEMMA PageRead ==
    ASSUME TypeOK, NEW p \in Deployments, Exists(p), NEW pg, pg = Answered("deployment", p)
    PROVE  PageIs(pg)
<1> DEFINE ds == Tagged(p)
           list == SetToSeq(CardsOf(ds))
<1>1. pg.id = p /\ pg.visible = dep[p].visible /\ pg.desktops = list
  BY AnsweredIs
<1>2. ds \in SUBSET Desktops /\ (\A e \in ds : InTable(row[e])) /\ (\A e \in ds : Tag[e] = p)
  BY DEF Tagged
<1>3. ASSUME NEW d \in Desktops, Tag[d] = p PROVE ListRight("deployment", d, list)
  <2>1. d \in ds <=> Belongs("deployment", d, row[d])
    BY <1>3 DEF Tagged, Belongs
  <2>2. "deployment" \in CardViews
    BY DEF CardViews
  <2> HIDE DEF ds
  <2> QED
    BY <1>2, <2>1, <2>2, ReadIsRight
<1> HIDE DEF ds
<1>4. Once(list) /\ Range(list) = CardsOf(ds) /\ \A x \in CardsOf(ds) : x.id \in ds
  BY <1>2, CardsListed
<1>5. \A x \in Range(list) : Tag[x.id] # None
  BY <1>2, <1>4, TagAssumption
<1>6. dep[p].state # "unborn"
  BY DEF Exists
<1> HIDE DEF list
<1> QED
  BY <1>1, <1>3, <1>4, <1>5, <1>6 DEF PageIs

\* A page is opened, or a fetch read or answered.
LEMMA PageFetched ==
    ASSUME Basic, PageRight, NEW v \in Views, Open(v) \/ Read(v) \/ Answer(v), NEW pg, Trusted("deployment", pg)'
    PROVE  PageIs(pg)'
<1>0. TypeOK /\ "deployment" \in Views
  BY DEF Basic, Views
<1>1. /\ row' = row /\ dep' = dep /\ wire' = wire /\ domains' = domains /\ changes' = changes
      /\ deployments' = deployments /\ depChanges' = depChanges
  BY DEF Open, Read, Answer, tables, feeds
<1>2. \/ Trusted("deployment", pg)
      \/ \E p \in Deployments : Exists(p) /\ pg = Answered("deployment", p)
  <2>1. CASE Open(v)
    BY <1>0, <2>1, OpenTrusts
  <2>2. CASE Answer(v)
    BY <1>0, <2>2, AnswerTrusts
  <2>3. CASE Read(v)
    BY <1>0, <2>3, ReadTrusts
  <2> QED
    BY <2>1, <2>2, <2>3
<1>3. PageIs(pg)
  BY <1>0, <1>2, PageRead DEF PageRight
<1>4. \A p : (Exists(p)' <=> Exists(p)) /\ (SightClear(p)' <=> SightClear(p))
  BY <1>1 DEF Exists, SightClear
<1>5. \A d : ListRight("deployment", d, pg.desktops)' <=> ListRight("deployment", d, pg.desktops)
  BY <1>1 DEF ListRight, CardListed
<1> QED
  BY <1>1, <1>3, <1>4, <1>5 DEF PageIs

\* There is no other deployment whose events the page could take for its own.
Alone == \A p, q \in Deployments : p = q

\* An event of another subject leaves what gives the page its visibility.
LEMMA SightAfter ==
    ASSUME TypeOK, NEW p \in Deployments, wire # <<>>, NEW e, e = Head(wire),
           dep' = dep, deployments' = deployments, depChanges' = depChanges, wire' = Tail(wire)
    PROVE  /\ e.subject # "deployment" => (SightClear(p)' <=> SightClear(p))
           /\ SightLine(p, Visibles(p)) /\ SightClear(p)' /\ Exists(p) /\ e.subject = "deployment" /\ e.data.id = p =>
                 e.data.visible = dep[p].visible
<1>1. wire \in Seq(Events) /\ e \in Events
  BY TypesAre DEF QueuesTyped
<1>2. Clear(wire, deployments.held, depChanges, Sights(p))
           <=> e \notin Sights(p).wire /\ Clear(Tail(wire), deployments.held, depChanges, Sights(p))
  BY <1>1, Delivered
<1>3. SightClear(p)' <=> Clear(Tail(wire), deployments.held, depChanges, Sights(p))
  BY DEF SightClear
<1>4. e \in Sights(p).wire <=> e.subject = "deployment" /\ e.data.id = p
  BY <1>1 DEF Sights
<1>5. e.subject # "deployment" => (SightClear(p)' <=> SightClear(p))
  BY <1>2, <1>3, <1>4 DEF SightClear
<1>6. ASSUME SightLine(p, Visibles(p)), SightClear(p)', Exists(p), e.subject = "deployment", e.data.id = p
      PROVE  e.data.visible = dep[p].visible
  <2> DEFINE S == Visibles(p)
  <2>1. Right(wire, deployments.held, depChanges, Sights(p), Sights(p), Sighted(S))
    BY <1>6 DEF SightLine
  <2>2. S = {dep[p].visible}
    BY <1>6 DEF Visibles
  <2> HIDE DEF S
  <2>3. e \in Sighted(S).wire
    BY <1>1, <1>3, <1>4, <1>6, <2>1, Delivered
  <2> QED
    BY <2>2, <2>3 DEF Sighted
<1> QED
  BY <1>5, <1>6

\* The list of the page after an event about a desktop of a deployment.
PageEdited(list, e) ==
    IF e.what = "add" /\ Has(list, e.data.id) THEN list ELSE Edited(list, e.what, e.data)
LEMMA PageEditedIs ==
    ASSUME TypeOK, wire # <<>>, NEW e, e = Head(wire), WireTagged, e.subject = "deploymentdesktop",
           NEW list \in Seq(Cards), Once(list), \A x \in Range(list) : Tag[x.id] # None
    PROVE  LET new == PageEdited(list, e) IN
           /\ Once(new) /\ \A x \in Range(new) : Tag[x.id] # None
           /\ \A d : LineRight("deployment", d) /\ ListRight("deployment", d, list) => RightAfter("deployment", d, new)
<1> DEFINE w == e.what
           z == e.data
           v == "deployment"
           new == PageEdited(list, e)
<1>0. "deployment" \in CardViews /\ e.subject = Subject("deployment") /\ wire \in Seq(Events) /\ e \in Events
  BY TypesAre DEF CardViews, Subject, QueuesTyped
<1>1. w \in {"add", "update", "delete"} /\ z \in Cards
  BY <1>0, EventIs
<1>2. Tag[z.id] # None
  <2>1. e \notin Tagless
    BY <1>0, TakenFree DEF WireTagged
  <2> QED
    BY <1>0, <2>1 DEF Tagless
<1>3. CASE w = "add" /\ Has(list, z.id)
  <2>1. new = list
    BY <1>3 DEF PageEdited
  <2>2. ASSUME NEW d, LineRight("deployment", d), ListRight("deployment", d, list)
        PROVE  RightAfter("deployment", d, list)
    <3>1. e.data.id # d \/ (e.what = "add" /\ Has(list, d) /\ LineRight("deployment", d))
      BY <1>3, <2>2
    <3> QED
      BY <1>0, <2>2, <3>1, SkippedIsRight
  <2> HIDE DEF new
  <2> QED
    BY <2>1, <2>2 DEF new
<1>4. CASE ~ (w = "add" /\ Has(list, z.id))
  <2>1. new = Edited(list, w, z)
    BY <1>4 DEF PageEdited
  <2>2. w = "add" => ~ Has(list, z.id)
    BY <1>4
  <2>3. ASSUME NEW d, LineRight("deployment", d), ListRight("deployment", d, list)
        PROVE  RightAfter("deployment", d, Edited(list, e.what, e.data))
    BY <1>0, <2>2, <2>3, EditedIsRight
  <2>4. \A d : LineRight("deployment", d) /\ ListRight("deployment", d, list) => RightAfter("deployment", d, Edited(list, w, z))
    BY <2>3
  <2> HIDE DEF w, z, new
  <2>5. /\ Once(Edited(list, w, z))
        /\ Range(Edited(list, w, z)) = {x \in Range(list) : x.id # z.id}
               \cup (IF w = "add" \/ (w = "update" /\ Has(list, z.id)) THEN {z} ELSE {})
    BY <1>1, <2>2, EditedIs
  <2>6. \A x \in Range(Edited(list, w, z)) : Tag[x.id] # None
    BY <1>2, <2>5
  <2> QED
    BY <2>1, <2>4, <2>5, <2>6 DEF new
<1> QED
  BY <1>3, <1>4

\* An event comes.
LEMMA PageDelivered ==
    ASSUME Alone, Basic, Unborns, WireTagged, LinesRight, DepLinesRight, PageRight, Deliver,
           NEW pg, Trusted("deployment", pg)'
    PROVE  PageIs(pg)'
<1>0. TypeOK /\ UnbornRows /\ "deployment" \in Views
  BY DEF Basic, Unborns, Views
<1> DEFINE e == Head(wire)
<1>1. /\ row' = row /\ dep' = dep /\ domains' = domains /\ changes' = changes /\ wire # <<>> /\ wire' = Tail(wire)
      /\ deployments' = deployments /\ depChanges' = depChanges
      /\ e \in Events /\ Lists(e)
  BY <1>0, DeliverIs DEF tables
<1>2. /\ "deployment" # ViewOf(e) => Trusted("deployment", pg)
      /\ "deployment" = ViewOf(e) => Trusted("deployment", store["deployment"]) /\ pg = store'["deployment"]
  BY <1>0, DeliverTrusts
<1>3. e = Head(wire)
  OBVIOUS
<1> HIDE DEF e
<1>4. "deployment" = ViewOf(e) <=> e.subject \in {"deployment", "deploymentdesktop"}
  BY <1>1, EventIs
<1> DEFINE old == IF "deployment" = ViewOf(e) THEN store["deployment"] ELSE pg
<1>5. Trusted("deployment", old)
  BY <1>2
<1>6. PageIs(old) /\ old.desktops \in Seq(Cards)
  BY <1>0, <1>5, TrustedPage DEF PageRight
<1>7. trust["deployment"] # "missed"
  BY <1>5 DEF Trusted
<1>8. CASE e.subject \notin {"deployment", "deploymentdesktop"}
  <2>1. pg = old
    BY <1>4, <1>8
  <2>2. e.subject # Subject("deployment") /\ "deployment" \in CardViews
    BY <1>8 DEF Subject, CardViews
  <2>3. PageIs(pg)
    BY <1>6, <2>1
  <2> HIDE DEF old
  <2>4. ASSUME NEW d, ListRight("deployment", d, pg.desktops) PROVE ListRight("deployment", d, pg.desktops)'
    <3>1. RightAfter("deployment", d, pg.desktops)
      BY <1>0, <1>1, <1>3, <2>2, <2>4, SkippedIsRight
    <3> QED
      BY <1>1, <3>1, AfterIsRight
  <2>5. \A p \in Deployments : (Exists(p)' <=> Exists(p)) /\ (SightClear(p)' <=> SightClear(p))
    BY <1>0, <1>1, <1>3, <1>8, SightAfter DEF Exists
  <2> QED
    BY <1>1, <2>3, <2>4, <2>5 DEF PageIs
<1>9. CASE e.subject = "deployment"
  <2>1. /\ old = store["deployment"] /\ pg.id = e.data.id /\ pg.visible = e.data.visible
        /\ pg.desktops = old.desktops
    BY <1>1, <1>2, <1>4, <1>9 DEF Lists
  <2>2. e.data.id \in Deployments
    BY <1>1, <1>9, EventIs DEF Summaries
  <2>3. old.id \in Deployments
    BY <1>6 DEF PageIs
  <2> HIDE DEF old
  <2>4. pg.id = old.id
    BY <2>1, <2>2, <2>3 DEF Alone
  <2> DEFINE p == pg.id
             list == pg.desktops
  <2>5. /\ p \in Deployments /\ dep[p].state # "unborn" /\ Once(list)
        /\ \A x \in Range(list) : Tag[x.id] # None
        /\ Exists(p) => \A d \in Desktops : Tag[d] = p => ListRight("deployment", d, list)
    BY <1>6, <2>1, <2>4 DEF PageIs
  <2>6. e.subject # Subject("deployment") /\ "deployment" \in CardViews
    BY <1>9 DEF Subject, CardViews
  <2>7. ASSUME NEW d, ListRight("deployment", d, list) PROVE ListRight("deployment", d, list)'
    <3>1. RightAfter("deployment", d, list)
      BY <1>0, <1>1, <1>3, <2>6, <2>7, SkippedIsRight
    <3> QED
      BY <1>1, <3>1, AfterIsRight
  <2>8. SightLine(p, Visibles(p))
    BY <1>7, <2>5 DEF DepLinesRight
  <2>9. Exists(p) /\ SightClear(p)' => pg.visible = dep[p].visible
    BY <1>0, <1>1, <1>3, <1>9, <2>1, <2>5, <2>8, SightAfter
  <2>10. Exists(p)' <=> Exists(p)
    BY <1>1 DEF Exists
  <2> QED
    BY <1>1, <2>5, <2>7, <2>9, <2>10 DEF PageIs
<1>10. CASE e.subject = "deploymentdesktop"
  <2>1. /\ old = store["deployment"] /\ pg.id = old.id /\ pg.visible = old.visible
        /\ pg.desktops = PageEdited(old.desktops, e)
    BY <1>1, <1>2, <1>4, <1>10 DEF Lists, PageEdited
  <2> HIDE DEF old
  <2> DEFINE p == pg.id
             list == old.desktops
             new == pg.desktops
  <2>2. /\ p \in Deployments /\ dep[p].state # "unborn" /\ Once(list) /\ list \in Seq(Cards)
        /\ \A x \in Range(list) : Tag[x.id] # None
        /\ Exists(p) => \A d \in Desktops : Tag[d] = p => ListRight("deployment", d, list)
        /\ Exists(p) /\ SightClear(p) => pg.visible = dep[p].visible
    BY <1>6, <2>1 DEF PageIs
  <2> HIDE DEF list
  <2>3. /\ Once(new) /\ \A x \in Range(new) : Tag[x.id] # None
        /\ \A d : LineRight("deployment", d) /\ ListRight("deployment", d, list) => RightAfter("deployment", d, new)
    <3>1. new = PageEdited(list, e)
      BY <2>1 DEF list
    <3> HIDE DEF new
    <3> QED
      BY <1>0, <1>1, <1>3, <1>10, <2>2, <3>1, PageEditedIs
  <2>4. p # None
    BY <2>2, TagAssumption
  <2>5. ASSUME Exists(p), NEW d \in Desktops, Tag[d] = p PROVE ListRight("deployment", d, new)'
    <3>1. LineRight("deployment", d)
      BY <1>7, <2>4, <2>5 DEF LinesRight, Covered, CardViews
    <3>2. RightAfter("deployment", d, new)
      BY <2>2, <2>3, <2>5, <3>1
    <3> QED
      BY <1>1, <3>2, AfterIsRight
  <2>6. (Exists(p)' <=> Exists(p)) /\ (SightClear(p)' <=> SightClear(p))
    BY <1>0, <1>1, <1>3, <1>10, <2>2, SightAfter DEF Exists
  <2> QED
    BY <1>1, <2>2, <2>3, <2>5, <2>6 DEF PageIs
<1> QED
  BY <1>8, <1>9, <1>10

LEMMA PageStep ==
    ASSUME Alone, Basic, Unborns, Named, WireTagged, LinesRight, DepLinesRight, PageRight, Steps
    PROVE  PageRight'
<1> SUFFICES ASSUME NEW pg, Trusted("deployment", pg)' PROVE PageIs(pg)'
  BY DEF PageRight
<1> QED
  BY PageCarried, PageFetched, PageDelivered DEF Steps, Browser

LEMMA DeploymentAgreesIs ==
    ASSUME Alone, TypeOK, UnbornRows, PageRight, Drained
    PROVE  DeploymentAgrees
<1> DEFINE pg == store["deployment"]
           p == pg.id
           list == pg.desktops
           ds == Tagged(p)
<1> SUFFICES ASSUME trust["deployment"] = "kept", Exists(p)
             PROVE  pg.visible = dep[p].visible /\ Matches(list, ds)
  BY DEF DeploymentAgrees, Kept
<1>1. Trusted("deployment", pg)
  BY DEF Trusted
<1>2. PageIs(pg) /\ list \in Seq(Cards)
  BY <1>1, TrustedPage DEF PageRight
<1>3. /\ p \in Deployments /\ Once(list) /\ \A x \in Range(list) : Tag[x.id] # None
      /\ \A d \in Desktops : Tag[d] = p => ListRight("deployment", d, list)
      /\ SightClear(p) => pg.visible = dep[p].visible
  BY <1>2 DEF PageIs
<1>4. wire = <<>> /\ domains.held = <<>> /\ changes = <<>> /\ deployments.held = <<>> /\ depChanges = <<>>
  BY DEF Drained
<1>5. /\ \A T : Clear(wire, domains.held, changes, T)
      /\ SightClear(p)
  BY <1>4, NothingQueued DEF SightClear
<1>6. ds \in SUBSET Desktops /\ (\A d \in ds : InTable(row[d]))
      /\ \A d \in Desktops : d \in ds <=> Tag[d] = p /\ InTable(row[d])
  BY DEF Tagged
<1> HIDE DEF pg, p, list, ds
<1>7. \A d \in Desktops : Tag[d] # None => Tag[d] = p
  BY <1>3, TagAssumption DEF Alone
<1>8. ASSUME NEW x \in Range(list) PROVE x.id \in Desktops /\ Tag[x.id] = p
  <2>1. x \in Cards
    BY <1>2, <1>8, RangeIs
  <2>2. x.id \in Desktops
    BY <2>1 DEF Cards
  <2> QED
    BY <1>3, <1>7, <1>8, <2>2
<1>9. \A d : Has(list, d) <=> \E x \in Range(list) : x.id = d
  BY <1>2, HasIs
<1>10. \A d \in Desktops : Tag[d] = p =>
          /\ Has(list, d) <=> InTable(row[d])
          /\ \A x \in Range(list) : x.id = d => x.state \in Shown(row[d])
  BY <1>3, <1>5 DEF ListRight, CardListed, Belongs
<1>11. \A d \in Desktops : Has(list, d) <=> d \in ds
  BY <1>6, <1>8, <1>9, <1>10
<1>12. \A x \in Range(list) : x.state \in Shown(row[x.id])
  BY <1>8, <1>10
<1>13. Matches(list, ds)
  BY <1>2, <1>3, <1>6, <1>11, <1>12, MatchesIs
<1> QED
  BY <1>3, <1>5, <1>13

\* The inductive invariant: the lists a user has whatever the deployments, and the page
\* of the only one.
ListsInv ==
    /\ DesktopsInv /\ Named /\ GoneDeps
    /\ DepLinesRight /\ SumsRight /\ DeploymentsRight
PageInv == WireTagged /\ PageRight

LEMMA ListsInvInit == Init => ListsInv /\ PageInv
<1> SUFFICES ASSUME Init PROVE ListsInv /\ PageInv
  OBVIOUS
<1>1. \A v \in Views : trust[v] = "due" /\ asked[v].step = "none"
  BY DEF Init, NoFetch
<1>2. {"deployments", "deployment"} \subseteq Views
  BY DEF Views
<1>3. DeploymentsRight /\ PageRight
  BY <1>1, <1>2 DEF DeploymentsRight, PageRight, Trusted
<1> QED
  BY <1>3, DesktopsInvInit, NamedInit, GoneDepsInit, DepLinesInit, SumsInit, WireTaggedInit DEF ListsInv, PageInv

LEMMA StepsAre == Basic /\ [Next]_vars => Steps
<1> SUFFICES ASSUME Basic, [Next]_vars PROVE Steps
  OBVIOUS
<1>1. TypeOK /\ DepsServed
  BY DEF Basic
<1>2. UNCHANGED vars => OtherStep
  BY <1>1, TablesTyped DEF vars, tables, feeds, browser, OtherStep
<1>3. Next => Steps
  BY <1>1, NextIs
<1> QED
  BY <1>2, <1>3 DEF Steps

LEMMA ListsInvStep == ListsInv /\ [Next]_vars => ListsInv'
<1> SUFFICES ASSUME ListsInv, [Next]_vars PROVE ListsInv'
  OBVIOUS
<1>1. Basic /\ Steps
  BY StepsAre DEF ListsInv, DesktopsInv
<1>2. DesktopsInv'
  BY DesktopsInvStep DEF ListsInv
<1>3. Named' /\ GoneDeps' /\ DepLinesRight' /\ SumsRight'
  BY <1>1, NamedStep, GoneDepsStep, DepLinesStep, SumsStep DEF ListsInv
<1>4. DeploymentsRight'
  BY <1>1, DeploymentsStep DEF ListsInv
<1> QED
  BY <1>2, <1>3, <1>4 DEF ListsInv

LEMMA PageInvStep == Alone /\ ListsInv /\ PageInv /\ [Next]_vars => PageInv'
<1> SUFFICES ASSUME Alone, ListsInv, PageInv, [Next]_vars PROVE PageInv'
  OBVIOUS
<1>1. Basic /\ Steps /\ Unborns /\ LinesRight
  BY StepsAre DEF ListsInv, DesktopsInv
<1>2. WireTagged'
  BY <1>1, WireTaggedStep DEF ListsInv, PageInv
<1>3. PageRight'
  BY <1>1, PageStep DEF ListsInv, PageInv
<1> QED
  BY <1>2, <1>3 DEF PageInv

LEMMA UsersListsAre == ListsInv /\ Drained => DesktopsAgree /\ DeploymentsAgree
  BY DesktopsAgreeIs, DeploymentsAgreeIs DEF ListsInv, DesktopsInv, Basic, Unborns

\* When all changes have been told and delivered, a list of desktops or of deployments whose
\* fetch crossed no event and that missed none (store/modules/desktops.js, deployments.js)
\* has what api_users.py and api_deployments.py would answer now, each once and in its
\* state, however the updates of a request (visible, delete, recreate) and the two
\* threads, which read a deployment after its change, came between each other.
THEOREM TheUsersListsAgree == Spec => [](Drained => DesktopsAgree /\ DeploymentsAgree)
<1>1. Init => ListsInv
  BY ListsInvInit
<1>2. ListsInv /\ [Next]_vars => ListsInv'
  BY ListsInvStep
<1>3. ListsInv => (Drained => DesktopsAgree /\ DeploymentsAgree)
  BY UsersListsAre
<1> QED
  BY <1>1, <1>2, <1>3, PTL DEF Spec

\* The same of all three lists, the page of a deployment (store/modules/deployment.js) too.
\* With two deployments it is false: update_deployment takes the id of whatever deployment
\* an event is about, and keeps the desktops of the one that is open.
THEOREM TheListsAgree ==
    ASSUME \A p, q \in Deployments : p = q
    PROVE  Spec => []ListsAgree
<1>0. Alone
  BY DEF Alone
<1>1. Init => ListsInv /\ PageInv
  BY ListsInvInit
<1>2. ListsInv /\ PageInv /\ [Next]_vars => ListsInv' /\ PageInv'
  BY <1>0, ListsInvStep, PageInvStep
<1>3. ListsInv /\ PageInv => ListsAgree
  BY <1>0, UsersListsAre, DeploymentAgreesIs DEF ListsAgree, ListsInv, DesktopsInv, Basic, Unborns, PageInv
<1> QED
  BY <1>1, <1>2, <1>3, PTL DEF Spec
=============================================================================
