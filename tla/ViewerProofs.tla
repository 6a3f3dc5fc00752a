----------------------------- MODULE ViewerProofs ----------------------------
(***************************************************************************)
(* Theorems about a noVNC viewer, for every instance: what is received     *)
(* stays within its allocation, what is drawn is drawn in order, a user    *)
(* who left is not connected again, and types. First the lemmas of the two *)
(* queues: what the operations of the drawing queue and of the receive     *)
(* queue keep. Last, what the other theorems need to know of the stream    *)
(* that is still ahead and of the handshake.                               *)
(***************************************************************************)
EXTENDS RfbSession, SequenceLemmas, SequenceTheorems

(* The drawing queue.                                                      *)

\* The scan stops somewhere: at the first action that is not ready.
LEMMA DrawableInRange ==
    ASSUME NEW q \in Seq(Actions)
    PROVE  /\ Drawable(q) \in 0 .. Len(q)
           /\ \A i \in 1 .. Drawable(q) : Ready(q[i])
           /\ Drawable(q) < Len(q) => ~ Ready(q[Drawable(q) + 1])
<1> DEFINE P(k) == /\ \A i \in 1 .. k : Ready(q[i])
                   /\ k < Len(q) => ~ Ready(q[k + 1])
           T == {i \in 1 .. Len(q) : ~ Ready(q[i])}
<1>0. Len(q) \in Nat
  OBVIOUS
<1>1. \E k \in 0 .. Len(q) : P(k)
  <2>1. CASE T = {}
    <3>1. \A i \in 1 .. Len(q) : Ready(q[i])
      BY <2>1
    <3>2. Len(q) \in 0 .. Len(q) /\ P(Len(q))
      BY <1>0, <3>1
    <3> QED
      BY <3>2
  <2>2. CASE T # {}
    <3>1. PICK x \in T : \A y \in T : x <= y
      <4>1. T \subseteq Nat
        BY <1>0
      <4> QED
        BY <4>1, <2>2, Least
    <3>2. x \in 1 .. Len(q) /\ ~ Ready(q[x])
      OBVIOUS
    <3>3. ASSUME NEW i \in 1 .. x - 1 PROVE Ready(q[i])
      <4>1. i \in 1 .. Len(q) /\ ~ (x <= i)
        BY <1>0, <3>2
      <4> QED
        BY <4>1, <3>1
    <3>4. x - 1 \in 0 .. Len(q) /\ (x - 1) + 1 = x
      BY <1>0, <3>2
    <3>5. P(x - 1)
      BY <3>2, <3>3, <3>4
    <3> QED
      BY <3>4, <3>5
  <2> QED
    BY <2>1, <2>2
<1>2. Drawable(q) = CHOOSE k \in 0 .. Len(q) : P(k)
  BY DEF Drawable
<1> HIDE DEF P
<1>3. Drawable(q) \in 0 .. Len(q) /\ P(Drawable(q))
  BY <1>1, <1>2
<1> QED
  BY <1>3 DEF P

\* The drawn and the waiting actions together are numbered one after the other.
Ordered(d) ==
    /\ d \in Displays
    /\ d.next = Len(d.drawn) + Len(d.q) + 1
    /\ \A i \in 1 .. Len(d.drawn) : d.drawn[i] = i
    /\ \A i \in 1 .. Len(d.q) : d.q[i].n = Len(d.drawn) + i

LEMMA BlankOrdered == Ordered(Blank)
BY DEF Ordered, Blank, Displays

LEMMA ScanOrdered ==
    ASSUME NEW d, Ordered(d)
    PROVE  Ordered(Scan(d))
<1> DEFINE k == Drawable(d.q)
           head == Numbers(SubSeq(d.q, 1, k))
           rest == SubSeq(d.q, k + 1, Len(d.q))
<1>1. /\ d \in Displays /\ d.q \in Seq(Actions) /\ d.drawn \in Seq(Nat) /\ d.next \in Nat
      /\ Len(d.q) \in Nat /\ Len(d.drawn) \in Nat
  BY DEF Ordered, Displays
<1>2. k \in 0 .. Len(d.q)
  BY <1>1, DrawableInRange
<1> HIDE DEF k
<1>3. head \in Seq(Nat) /\ Len(head) = k /\ \A i \in 1 .. k : head[i] = Len(d.drawn) + i
  <2>1. /\ SubSeq(d.q, 1, k) \in Seq(Actions) /\ Len(SubSeq(d.q, 1, k)) = k
        /\ \A i \in 1 .. k : SubSeq(d.q, 1, k)[i] = d.q[i]
    BY <1>1, <1>2
  <2>2. \A i \in 1 .. k : d.q[i] \in Actions /\ d.q[i].n = Len(d.drawn) + i /\ d.q[i].n \in Nat
    <3>1. ASSUME NEW i \in 1 .. k PROVE d.q[i] \in Actions /\ d.q[i].n = Len(d.drawn) + i /\ d.q[i].n \in Nat
      <4>1. i \in 1 .. Len(d.q)
        BY <1>1, <1>2
      <4>2. d.q[i] \in Actions
        BY <4>1, <1>1
      <4>3. d.q[i].n = Len(d.drawn) + i
        BY <4>1 DEF Ordered
      <4> QED
        BY <4>2, <4>3 DEF Actions
    <3> QED
      BY <3>1
  <2>3. head = [i \in 1 .. k |-> d.q[i].n]
    BY <2>1 DEF Numbers
  <2> HIDE DEF head
  <2>4. k \in Nat
    BY <1>1, <1>2
  <2>5. head \in Seq(Nat) /\ Len(head) = k
    BY <2>2, <2>3, <2>4
  <2> QED
    BY <2>2, <2>3, <2>5
<1>4. /\ rest \in Seq(Actions) /\ Len(rest) = Len(d.q) - k
      /\ \A i \in 1 .. Len(d.q) - k : rest[i] = d.q[k + i]
  BY <1>1, <1>2
<1>5. Scan(d) = [d EXCEPT !.q = rest, !.drawn = d.drawn \o head, !.flushing = d.flushing /\ k < Len(d.q)]
  BY DEF Scan, k
<1> HIDE DEF head, rest
<1>6. /\ d.drawn \o head \in Seq(Nat) /\ Len(d.drawn \o head) = Len(d.drawn) + k
      /\ \A i \in 1 .. Len(d.drawn) + k : (d.drawn \o head)[i] = i
  <2>1. d.drawn \o head \in Seq(Nat) /\ Len(d.drawn \o head) = Len(d.drawn) + k
    BY <1>1, <1>3
  <2>2. ASSUME NEW i \in 1 .. Len(d.drawn) + k PROVE (d.drawn \o head)[i] = i
    <3>1. CASE i \in 1 .. Len(d.drawn)
      <4>1. (d.drawn \o head)[i] = d.drawn[i]
        BY <3>1, <1>1, <1>3
      <4> QED
        BY <3>1, <4>1 DEF Ordered
    <3>2. CASE i \notin 1 .. Len(d.drawn)
      <4>1. i - Len(d.drawn) \in 1 .. k
        BY <3>2, <1>1, <1>2
      <4>2. (d.drawn \o head)[i] = head[i - Len(d.drawn)]
        BY <3>2, <1>1, <1>2, <1>3
      <4>3. head[i - Len(d.drawn)] = Len(d.drawn) + (i - Len(d.drawn))
        BY <4>1, <1>3
      <4>4. Len(d.drawn) + (i - Len(d.drawn)) = i
        BY <1>1, <1>2
      <4> QED
        BY <4>2, <4>3, <4>4
    <3> QED
      BY <3>1, <3>2
  <2> QED
    BY <2>1, <2>2
<1>7. \A i \in 1 .. Len(rest) : rest[i].n = (Len(d.drawn) + k) + i
  <2>1. ASSUME NEW i \in 1 .. Len(rest) PROVE rest[i].n = (Len(d.drawn) + k) + i
    <3>1. k + i \in 1 .. Len(d.q) /\ rest[i] = d.q[k + i]
      BY <1>1, <1>2, <1>4
    <3>2. d.q[k + i].n = Len(d.drawn) + (k + i)
      BY <3>1 DEF Ordered
    <3>3. Len(d.drawn) \in Int /\ k \in Int /\ i \in Int
      BY <1>1, <1>2, <1>4
    <3>4. \A a, b, c \in Int : a + (b + c) = (a + b) + c
      OBVIOUS
    <3>5. Len(d.drawn) + (k + i) = (Len(d.drawn) + k) + i
      BY <3>3, <3>4
    <3> QED
      BY <3>1, <3>2, <3>5
  <2> QED
    BY <2>1
<1>8. Scan(d) \in Displays
  BY <1>1, <1>4, <1>5, <1>6 DEF Displays
<1>9. Scan(d).q = rest /\ Scan(d).drawn = d.drawn \o head /\ Scan(d).next = d.next
  BY <1>1, <1>5 DEF Displays
<1>10. d.next = (Len(d.drawn) + k) + (Len(d.q) - k) + 1
  <2>1. d.next = Len(d.drawn) + Len(d.q) + 1
    BY DEF Ordered
  <2>2. ASSUME NEW a \in Nat, NEW b \in Nat, NEW c \in Int PROVE a + b + 1 = (a + c) + (b - c) + 1
    OBVIOUS
  <2>3. k \in Int
    BY <1>1, <1>2
  <2>4. Len(d.drawn) + Len(d.q) + 1 = (Len(d.drawn) + k) + (Len(d.q) - k) + 1
    BY <1>1, <2>2, <2>3
  <2> QED
    BY <2>1, <2>4
<1> QED
  BY <1>4, <1>6, <1>7, <1>8, <1>9, <1>10 DEF Ordered

\* What is in the components of an ordered display.
LEMMA OrderedParts ==
    ASSUME NEW d, Ordered(d)
    PROVE  /\ d.q \in Seq(Actions) /\ Len(d.q) \in Nat /\ d.flushing \in BOOLEAN
           /\ d.drawn \in Seq(Nat) /\ Len(d.drawn) \in Nat /\ d.next \in Nat
           /\ d \in [q : Seq(Actions), flushing : BOOLEAN, next : Nat, drawn : Seq(Nat)]
BY DEF Ordered, Displays

\* A queue that changes at its end or in its flags only stays in order.
\* An action at the end of the queue.
Added(d, a) == [d EXCEPT !.q = Append(@, a), !.next = @ + 1]

LEMMA AddedOrdered ==
    ASSUME NEW d, Ordered(d), NEW a \in Actions, a.n = d.next
    PROVE  Ordered(Added(d, a))
<1>0. Len(d.q) \in Int /\ Len(d.drawn) \in Int
  BY OrderedParts
<1> DEFINE e == [d EXCEPT !.q = Append(@, a), !.next = @ + 1]
<1>1. /\ e.q = Append(d.q, a) /\ e.next = d.next + 1 /\ e.drawn = d.drawn
      /\ e \in Displays
  <2>1. Append(d.q, a) \in Seq(Actions) /\ d.next + 1 \in Nat
    BY OrderedParts
  <2> QED
    BY <2>1, OrderedParts DEF Displays
<1>2. Added(d, a) = e
  BY DEF Added
<1> HIDE DEF e
<1>3. Len(e.q) = Len(d.q) + 1
  BY <1>1, OrderedParts
<1>4. e.next = Len(e.drawn) + Len(e.q) + 1
  <2>1. d.next = Len(d.drawn) + Len(d.q) + 1
    BY DEF Ordered
  <2>2. \A x, y \in Int : (x + y + 1) + 1 = x + (y + 1) + 1
    OBVIOUS
  <2>3. (Len(d.drawn) + Len(d.q) + 1) + 1 = Len(d.drawn) + (Len(d.q) + 1) + 1
    BY <1>0, <2>2
  <2> QED
    BY <1>1, <1>3, <2>1, <2>3
<1>5. ASSUME NEW i \in 1 .. Len(e.q) PROVE e.q[i].n = Len(e.drawn) + i
  <2>1. CASE i \in 1 .. Len(d.q)
    <3>1. e.q[i] = d.q[i]
      BY <1>1, <2>1, OrderedParts
    <3> QED
      BY <1>1, <2>1, <3>1 DEF Ordered
  <2>2. CASE i \notin 1 .. Len(d.q)
    <3>1. i = Len(d.q) + 1
      BY <1>3, <2>2, OrderedParts
    <3>2. e.q[i] = a
      BY <1>1, <3>1, OrderedParts
    <3>3. a.n = Len(d.drawn) + Len(d.q) + 1
      BY DEF Ordered
    <3>4. \A x, y \in Int : x + y + 1 = x + (y + 1)
      OBVIOUS
    <3>5. Len(d.drawn) + Len(d.q) + 1 = Len(d.drawn) + (Len(d.q) + 1)
      BY <1>0, <3>4
    <3> QED
      BY <1>1, <3>1, <3>2, <3>3, <3>5
  <2> QED
    BY <2>1, <2>2
<1>6. \A i \in 1 .. Len(e.drawn) : e.drawn[i] = i
  BY <1>1 DEF Ordered
<1>7. Ordered(e)
  BY <1>1, <1>4, <1>5, <1>6 DEF Ordered
<1> QED
  BY <1>2, <1>7

LEMMA PushOrdered ==
    ASSUME NEW d, Ordered(d), NEW a \in Actions, a.n = d.next
    PROVE  Ordered(Push(d, a))
<1>1. Push(d, a) = IF Len(Added(d, a).q) = 1 THEN Scan(Added(d, a)) ELSE Added(d, a)
  BY DEF Push, Added
<1> QED
  BY <1>1, AddedOrdered, ScanOrdered

LEMMA ImageRectOrdered ==
    ASSUME NEW d, Ordered(d), NEW u \in Nat
    PROVE  Ordered(ImageRect(d, u))
<1>1. NewAction(d, "img", u) \in Actions /\ NewAction(d, "img", u).n = d.next
  BY OrderedParts DEF NewAction, Actions, Kinds
<1> QED
  BY <1>1, PushOrdered DEF ImageRect

LEMMA DrawOrdered ==
    ASSUME NEW d, Ordered(d), NEW kind \in Kinds, NEW u \in Nat
    PROVE  Ordered(Draw(d, kind, u))
<1>1. CASE Pending(d)
  <2>1. NewAction(d, kind, u) \in Actions /\ NewAction(d, kind, u).n = d.next
    BY OrderedParts DEF NewAction, Actions
  <2> QED
    BY <1>1, <2>1, PushOrdered DEF Draw
<1>2. CASE ~ Pending(d)
  <2> DEFINE e == [d EXCEPT !.drawn = Append(@, d.next), !.next = @ + 1]
  <2>1. /\ e.q = d.q /\ e.next = d.next + 1 /\ e.drawn = Append(d.drawn, d.next)
        /\ e \in Displays
    <3>1. /\ d \in [q : Seq(Actions), flushing : BOOLEAN, next : Nat, drawn : Seq(Nat)]
          /\ d.drawn \in Seq(Nat) /\ d.next \in Nat
      BY OrderedParts
    <3>2. Append(d.drawn, d.next) \in Seq(Nat) /\ d.next + 1 \in Nat
      BY <3>1
    <3> QED
      BY <3>1, <3>2 DEF Displays
  <2>2. Draw(d, kind, u) = e
    BY <1>2 DEF Draw
  <2> HIDE DEF e
  <2>3. d.q = <<>> /\ Len(d.q) = 0
    BY <1>2 DEF Pending
  <2>4. d.next = Len(d.drawn) + 1
    BY <2>3, OrderedParts DEF Ordered
  <2>5. Len(e.drawn) = Len(d.drawn) + 1
    BY <2>1, OrderedParts
  <2>6. e.next = Len(e.drawn) + Len(e.q) + 1
    BY <2>1, <2>3, <2>4, <2>5, OrderedParts
  <2>7. ASSUME NEW i \in 1 .. Len(e.drawn) PROVE e.drawn[i] = i
    <3>1. CASE i \in 1 .. Len(d.drawn)
      <4>1. e.drawn[i] = d.drawn[i]
        BY <2>1, <3>1, OrderedParts
      <4> QED
        BY <3>1, <4>1 DEF Ordered
    <3>2. CASE i \notin 1 .. Len(d.drawn)
      <4>1. i = Len(d.drawn) + 1
        BY <2>5, <3>2, OrderedParts
      <4>2. e.drawn[i] = d.next
        BY <2>1, <4>1, OrderedParts
      <4> QED
        BY <2>4, <4>1, <4>2
    <3> QED
      BY <3>1, <3>2
  <2>8. Ordered(e)
    BY <2>1, <2>3, <2>6, <2>7 DEF Ordered
  <2> QED
    BY <2>2, <2>8
<1> QED
  BY <1>1, <1>2

LEMMA FlushOrdered ==
    ASSUME NEW d, Ordered(d)
    PROVE  Ordered(Flush(d))
<1>1. /\ Flush(d).q = d.q /\ Flush(d).next = d.next /\ Flush(d).drawn = d.drawn
      /\ Flush(d) \in Displays
  <2>1. Flush(d) = [d EXCEPT !.flushing = Pending(d)] /\ Pending(d) \in BOOLEAN
    BY DEF Flush, Pending
  <2> QED
    BY <2>1, OrderedParts DEF Displays
<1> QED
  BY <1>1 DEF Ordered

LEMMA LoadedOrdered ==
    ASSUME NEW d, Ordered(d), NEW i \in 1 .. Len(d.q)
    PROVE  Ordered(Loaded(d, i))
<1> DEFINE e == [d EXCEPT !.q[i].complete = TRUE]
           a == [d.q[i] EXCEPT !.complete = TRUE]
<1>1. d.q[i] \in Actions /\ a \in Actions /\ a.n = d.q[i].n
  <2>1. d.q[i] \in Actions
    BY OrderedParts
  <2> QED
    BY <2>1 DEF Actions
<1> HIDE DEF a
<1>2. e.q = [d.q EXCEPT ![i] = a] /\ e.next = d.next /\ e.drawn = d.drawn /\ e.flushing = d.flushing
  BY OrderedParts DEF a
<1>3. e.q \in Seq(Actions) /\ Len(e.q) = Len(d.q) /\ \A j \in 1 .. Len(d.q) : e.q[j].n = d.q[j].n
  <2> DEFINE f == [d.q EXCEPT ![i] = a]
  <2>1. f \in Seq(Actions) /\ Len(f) = Len(d.q)
    BY <1>1, OrderedParts
  <2>2. ASSUME NEW j \in 1 .. Len(d.q) PROVE f[j].n = d.q[j].n
    <3>1. f[j] = IF j = i THEN a ELSE d.q[j]
      BY OrderedParts
    <3> QED
      BY <1>1, <3>1
  <2> QED
    BY <1>2, <2>1, <2>2
<1>4. e \in Displays
  <2>1. e = [d EXCEPT !.q = [d.q EXCEPT ![i] = a]]
    BY OrderedParts DEF a
  <2>2. [d.q EXCEPT ![i] = a] \in Seq(Actions)
    BY <1>2, <1>3
  <2> QED
    BY <2>1, <2>2, OrderedParts DEF Displays
<1>5. Loaded(d, i) = IF i = 1 THEN Scan(e) ELSE e
  BY DEF Loaded
<1> HIDE DEF e
<1>6. Ordered(e)
  BY <1>2, <1>3, <1>4 DEF Ordered
<1> QED
  BY <1>5, <1>6, ScanOrdered
-----------------------------------------------------------------------------
(* The receive queue.                                                      *)

\* What is read has been received, what is stored fits what is allocated.
Sound(b) ==
    /\ b \in Buffers(Units0)
    /\ b.rQi <= Len(b.q) /\ Len(b.q) <= b.size /\ b.size <= MaxGrow

LEMMA SoundParts ==
    ASSUME NEW b, Sound(b)
    PROVE  /\ b \in [q : Seq(Units0), rQi : Nat, size : Nat]
           /\ b.q \in Seq(Units0) /\ b.rQi \in Nat /\ b.size \in Nat /\ Len(b.q) \in Nat
           /\ b.rQi <= Len(b.q) /\ Len(b.q) <= b.size /\ b.size <= MaxGrow
           /\ RQlen(b) \in Nat /\ b.rQi + RQlen(b) = Len(b.q)
BY DEF Sound, Buffers, RQlen

LEMMA EmptySound == Sound(Empty)
BY SizeAssumption DEF Sound, Empty, Buffers

LEMMA ShiftSound ==
    ASSUME NEW b, Sound(b), NEW n \in Nat, n <= RQlen(b)
    PROVE  Sound(Shift(b, n))
<1>1. /\ b \in [q : Seq(Units0), rQi : Nat, size : Nat]
      /\ b.rQi \in Nat /\ Len(b.q) \in Nat /\ b.rQi + n \in Nat /\ b.rQi + n <= Len(b.q)
      /\ Len(b.q) <= b.size /\ b.size <= MaxGrow
  BY SoundParts DEF RQlen
<1>2. Shift(b, n) = [b EXCEPT !.rQi = b.rQi + n]
  BY DEF Shift
<1> QED
  BY <1>1, <1>2 DEF Sound, Buffers

\* A wait that fails gives back no more than its handler had read.
LEMMA GobackSound ==
    ASSUME NEW b, Sound(b), NEW read \in Nat, NEW n \in Nat, n <= read, read <= RQlen(b)
    PROVE  Sound(Goback(Shift(b, read), n))
<1> DEFINE c == Shift(b, read)
<1>1. Sound(c) /\ c.rQi = b.rQi + read
  BY ShiftSound, SoundParts DEF Shift
<1> HIDE DEF c
<1>2. /\ c \in [q : Seq(Units0), rQi : Nat, size : Nat]
      /\ c.rQi \in Nat /\ Len(c.q) \in Nat /\ c.rQi <= Len(c.q)
      /\ Len(c.q) <= c.size /\ c.size <= MaxGrow
  BY <1>1, SoundParts
<1>3. c.rQi - n \in Nat /\ c.rQi - n <= Len(c.q)
  BY SMTT(30), <1>1, <1>2, SoundParts
<1>4. Goback(c, n) = [c EXCEPT !.rQi = c.rQi - n]
  BY DEF Goback
<1>5. Sound(Goback(c, n))
  BY <1>2, <1>3, <1>4 DEF Sound, Buffers
<1> QED
  BY <1>5 DEF c

LEMMA ResetSound ==
    ASSUME NEW b, Sound(b)
    PROVE  Sound(ResetIfRead(b))
<1>1. CASE Len(b.q) = b.rQi
  <2>1. ResetIfRead(b) = [b EXCEPT !.q = <<>>, !.rQi = 0]
    BY <1>1 DEF ResetIfRead
  <2>2. b \in [q : Seq(Units0), rQi : Nat, size : Nat] /\ b.size \in Nat /\ b.size <= MaxGrow
    BY SoundParts
  <2>3. ResetIfRead(b) \in Buffers(Units0)
    <3>1. \A none \in Seq(Units0) : [b EXCEPT !.q = none, !.rQi = 0] \in Buffers(Units0)
      BY <2>2 DEF Buffers
    <3>2. <<>> \in Seq(Units0)
      BY EmptySeq
    <3> QED
      BY <2>1, <3>1, <3>2
  <2>4. ResetIfRead(b).q = <<>> /\ ResetIfRead(b).rQi = 0 /\ ResetIfRead(b).size = b.size
    BY <2>1, <2>2
  <2>5. Len(<<>>) = 0
    OBVIOUS
  <2> QED
    BY <2>2, <2>3, <2>4, <2>5 DEF Sound
<1>2. CASE Len(b.q) # b.rQi
  BY <1>2 DEF ResetIfRead
<1> QED
  BY <1>1, <1>2

\* Compacting or growing makes the room that is asked for, and keeps what is unread.
LEMMA ExpandCompactSound ==
    ASSUME NEW b, Sound(b), NEW n \in Nat, RQlen(b) + n <= MaxGrow
    PROVE  /\ Sound(ExpandCompact(b, n))
           /\ n <= ExpandCompact(b, n).size - Len(ExpandCompact(b, n).q)
           /\ ExpandCompact(b, n).q = Unread(b) /\ ExpandCompact(b, n).rQi = 0
<1> DEFINE size == SizeFor(b, n)
<1>1. /\ b.q \in Seq(Units0) /\ b.rQi \in Nat /\ b.size \in Nat /\ Len(b.q) \in Nat
      /\ b.rQi <= Len(b.q) /\ b.size <= MaxGrow
      /\ RQlen(b) \in Nat /\ RQlen(b) = Len(b.q) - b.rQi
  BY SoundParts DEF RQlen
<1>2. size \in Nat /\ RQlen(b) + n <= size /\ size <= MaxGrow
  <2> DEFINE required == (RQlen(b) + n) * 8
  <2>1. required \in Nat /\ RQlen(b) + n <= required /\ MaxGrow \in Nat
    BY <1>1, SizeAssumption
  <2>2. size = IF b.size < required
               THEN Smaller(Larger(b.size * 2, required), MaxGrow)
               ELSE Smaller(b.size, MaxGrow)
    BY DEF SizeFor
  <2> HIDE DEF required, size
  <2>3. CASE b.size < required
    BY <1>1, <2>1, <2>2, <2>3 DEF Smaller, Larger
  <2>4. CASE ~ (b.size < required)
    BY <1>1, <2>1, <2>2, <2>4 DEF Smaller
  <2> QED
    BY <2>3, <2>4
<1>3. ExpandCompact(b, n) = [q |-> Unread(b), rQi |-> 0, size |-> size]
  BY DEF ExpandCompact
<1> HIDE DEF size
<1>4. Unread(b) \in Seq(Units0) /\ Len(Unread(b)) = RQlen(b)
  BY <1>1 DEF Unread
<1> QED
  BY <1>1, <1>2, <1>3, <1>4 DEF Sound, Buffers

\* The end of a sequence that is extended is its end, extended.
LEMMA TailOfConcat ==
    ASSUME NEW S, NEW s \in Seq(S), NEW t \in Seq(S), NEW k \in Nat, k <= Len(s)
    PROVE  SubSeq(s \o t, k + 1, Len(s \o t)) = SubSeq(s, k + 1, Len(s)) \o t
<1> DEFINE left == SubSeq(s \o t, k + 1, Len(s \o t))
           end == SubSeq(s, k + 1, Len(s))
           right == end \o t
<1>1. /\ Len(s) \in Nat /\ Len(t) \in Nat
      /\ s \o t \in Seq(S) /\ Len(s \o t) = Len(s) + Len(t)
  OBVIOUS
<1>2. /\ end \in Seq(S) /\ Len(end) = Len(s) - k
      /\ \A i \in 1 .. Len(s) - k : end[i] = s[k + i]
  BY <1>1
<1>3. /\ left \in Seq(S) /\ Len(left) = (Len(s) + Len(t)) - k
      /\ \A i \in 1 .. (Len(s) + Len(t)) - k : left[i] = (s \o t)[k + i]
  BY <1>1
<1> HIDE DEF left, end
<1>4. right \in Seq(S) /\ Len(right) = (Len(s) - k) + Len(t)
  <2>1. Len(end) \in Nat
    BY <1>2
  <2>2. right \in Seq(S) /\ Len(right) = Len(end) + Len(t)
    BY <1>2, ConcatProperties
  <2> QED
    BY <1>2, <2>2
<1>5. Len(left) = Len(right)
  BY <1>1, <1>3, <1>4
<1>6. ASSUME NEW i \in 1 .. Len(left) PROVE left[i] = right[i]
  <2>1. i \in Nat /\ 1 <= i /\ i <= (Len(s) + Len(t)) - k /\ left[i] = (s \o t)[k + i]
    BY SMTT(30), <1>1, <1>3
  <2>2. CASE k + i <= Len(s)
    <3>1. (s \o t)[k + i] = s[k + i]
      BY <1>1, <2>1, <2>2
    <3>2. i \in 1 .. Len(s) - k
      BY <1>1, <2>1, <2>2
    <3>3. right[i] = end[i]
      BY <1>1, <1>2, <3>2
    <3> QED
      BY <1>2, <2>1, <3>1, <3>2, <3>3
  <2>3. CASE ~ (k + i <= Len(s))
    <3>1. (s \o t)[k + i] = t[(k + i) - Len(s)]
      BY <1>1, <2>1, <2>3
    <3>2. right[i] = t[i - (Len(s) - k)]
      BY SMTT(30), <1>1, <1>2, <2>1, <2>3
    <3>3. (k + i) - Len(s) = i - (Len(s) - k)
      BY <1>1, <2>1
    <3> QED
      BY <2>1, <3>1, <3>2, <3>3
  <2> QED
    BY <2>2, <2>3, <2>1, <1>1
<1> HIDE DEF right
<1>7. left = right
  BY <1>3, <1>4, <1>5, <1>6, SeqEqual
<1> QED
  BY <1>7 DEF left, right, end

\* What arrives is stored within the allocation, behind what was not read yet.
LEMMA ReceiveSound ==
    ASSUME NEW b, Sound(b), NEW data \in Seq(Units0), Fits(b, data)
    PROVE  Sound(Receive(b, data)) /\ Unread(Receive(b, data)) = Unread(b) \o data
<1> DEFINE room == IF Len(data) > b.size - Len(b.q) THEN ExpandCompact(b, Len(data)) ELSE b
<1>1. Len(data) \in Nat /\ RQlen(b) + Len(data) <= MaxGrow
  BY DEF Fits
<1>2. Sound(room) /\ Len(data) <= room.size - Len(room.q) /\ Unread(room) = Unread(b)
  <2>1. CASE Len(data) > b.size - Len(b.q)
    <3>1. room = ExpandCompact(b, Len(data))
      BY <2>1
    <3> HIDE DEF room
    <3>2. /\ Sound(room) /\ Len(data) <= room.size - Len(room.q)
          /\ room.q = Unread(b) /\ room.rQi = 0
      BY <1>1, <3>1, ExpandCompactSound
    <3>3. Unread(b) \in Seq(Units0)
      BY <3>2, SoundParts
    <3>4. Unread(room) = SubSeq(Unread(b), 1, Len(Unread(b)))
      BY <3>2 DEF Unread
    <3> QED
      BY <3>2, <3>3, <3>4
  <2>2. CASE ~ (Len(data) > b.size - Len(b.q))
    <3>1. Len(b.q) \in Nat /\ b.size \in Nat
      BY SoundParts
    <3> QED
      BY <1>1, <2>2, <3>1
  <2> QED
    BY <2>1, <2>2
<1>3. Receive(b, data) = [room EXCEPT !.q = room.q \o data]
  BY DEF Receive
<1> HIDE DEF room
<1>4. /\ room \in [q : Seq(Units0), rQi : Nat, size : Nat] /\ room.q \in Seq(Units0)
      /\ room.rQi \in Nat /\ room.size \in Nat /\ Len(room.q) \in Nat
      /\ room.rQi <= Len(room.q) /\ room.size <= MaxGrow
  BY <1>2, SoundParts
<1>5. room.q \o data \in Seq(Units0) /\ Len(room.q \o data) = Len(room.q) + Len(data)
  BY <1>4
<1>6. Len(room.q) + Len(data) <= room.size /\ room.rQi <= Len(room.q) + Len(data)
  BY <1>1, <1>2, <1>4
<1>7. Sound(Receive(b, data))
  BY <1>3, <1>4, <1>5, <1>6 DEF Sound, Buffers
<1>8. Unread(Receive(b, data)) = Unread(room) \o data
  <2>1. Receive(b, data).q = room.q \o data /\ Receive(b, data).rQi = room.rQi
    BY <1>3, <1>4
  <2>2. SubSeq(room.q \o data, room.rQi + 1, Len(room.q \o data))
            = SubSeq(room.q, room.rQi + 1, Len(room.q)) \o data
    BY <1>4, <1>5, TailOfConcat
  <2> QED
    BY <2>1, <2>2 DEF Unread
<1> QED
  BY <1>2, <1>7, <1>8

-----------------------------------------------------------------------------
(* The page and its connection.                                            *)

Fields(u, r) ==
    /\ {"left", "inhibit", "reconnect", "sessions"} \subseteq DOMAIN u
    /\ {"conn", "update"} \subseteq DOMAIN r
    /\ r.update \in Nat

\* A reconnection is only armed when the connection is over; after the user
\* has left it is over or ending, and either no reconnection is wanted or none
\* is armed and nothing is left that could arm it.
Left(u, r) ==
    /\ u.reconnect => r.conn = "disconnected"
    /\ u.left => /\ r.conn \in {"disconnecting", "disconnected"}
                 /\ u.inhibit \/ (~ u.reconnect /\ r.conn = "disconnected")

Connection(u, r) == Fields(u, r) /\ Left(u, r)

\* The page counts the same sessions, and knows as before whether the user left.
SameVisit(u, v) == v.left = u.left /\ v.sessions = u.sessions

LEMMA ToDisconnectingConnection ==
    ASSUME NEW u, NEW r, NEW w, Connection(u, r)
    PROVE  \E r2, w2 : /\ ToDisconnecting([ui |-> u, rfb |-> r, ws |-> w]) = [ui |-> u, rfb |-> r2, ws |-> w2]
                       /\ Connection(u, r2)
<1> DEFINE c == [ui |-> u, rfb |-> r, ws |-> w]
<1>1. CASE r.conn \in {"connecting", "connected"}
  <2> DEFINE r2 == [[r EXCEPT !.conn = "disconnecting"] EXCEPT !.timer = TRUE]
  <2>1. ToDisconnecting(c) = [ui |-> u, rfb |-> r2, ws |-> CloseSocket(w)]
    BY <1>1 DEF ToDisconnecting
  <2>2. r2.conn = "disconnecting" /\ r2.update = r.update /\ DOMAIN r2 = DOMAIN r
    BY DEF Connection, Fields
  <2>3. ~ u.reconnect /\ ~ u.left
    BY <1>1 DEF Connection, Left
  <2>4. Connection(u, r2)
    BY <2>2, <2>3 DEF Connection, Fields, Left
  <2> QED
    BY <2>1, <2>4
<1>2. CASE r.conn \notin {"connecting", "connected"}
  BY <1>2 DEF ToDisconnecting
<1> QED
  BY <1>1, <1>2

LEMMA ToDisconnectedConnection ==
    ASSUME NEW u, NEW r, NEW w, Connection(u, r)
    PROVE  \E u2, r2, w2 : /\ ToDisconnected([ui |-> u, rfb |-> r, ws |-> w]) = [ui |-> u2, rfb |-> r2, ws |-> w2]
                           /\ Connection(u2, r2) /\ SameVisit(u, u2)
<1> DEFINE c == [ui |-> u, rfb |-> r, ws |-> w]
<1>1. CASE r.conn = "disconnecting"
  <2> DEFINE u2 == DisconnectFinished(u)
             r2 == [r EXCEPT !.conn = "disconnected", !.timer = FALSE]
             w2 == [w EXCEPT !.close = FALSE]
  <2>1. ToDisconnected(c) = [ui |-> u2, rfb |-> r2, ws |-> w2]
    BY <1>1 DEF ToDisconnected
  <2>2. r2.conn = "disconnected" /\ r2.update = r.update /\ DOMAIN r2 = DOMAIN r
    BY DEF Connection, Fields
  <2>3. /\ DOMAIN u2 = DOMAIN u /\ u2.left = u.left /\ u2.sessions = u.sessions
        /\ u2.inhibit = u.inhibit /\ u2.reconnect = ~ u.inhibit
    BY DEF Connection, Fields, DisconnectFinished
  <2>4. u.left => u.inhibit
    BY <1>1 DEF Connection, Left
  <2> HIDE DEF u2, r2, w2
  <2>5. Connection(u2, r2) /\ SameVisit(u, u2)
    BY <2>2, <2>3, <2>4 DEF Connection, Fields, Left, SameVisit
  <2> QED
    BY <2>1, <2>5
<1>2. CASE r.conn # "disconnecting"
  BY <1>2 DEF ToDisconnected, SameVisit
<1> QED
  BY <1>1, <1>2

LEMMA FailedConnection ==
    ASSUME NEW u, NEW r, NEW w, Connection(u, r)
    PROVE  \E u2, r2, w2 : /\ Failed([ui |-> u, rfb |-> r, ws |-> w]) = [ui |-> u2, rfb |-> r2, ws |-> w2]
                           /\ Connection(u2, r2) /\ SameVisit(u, u2)
<1>1. PICK r1, w1 : /\ ToDisconnecting([ui |-> u, rfb |-> r, ws |-> w]) = [ui |-> u, rfb |-> r1, ws |-> w1]
                    /\ Connection(u, r1)
  BY ToDisconnectingConnection
<1>2. Failed([ui |-> u, rfb |-> r, ws |-> w]) = ToDisconnected([ui |-> u, rfb |-> r1, ws |-> w1])
  BY <1>1 DEF Failed
<1>3. PICK u2, r2, w2 :
          /\ ToDisconnected([ui |-> u, rfb |-> r1, ws |-> w1]) = [ui |-> u2, rfb |-> r2, ws |-> w2]
          /\ Connection(u2, r2) /\ SameVisit(u, u2)
  BY <1>1, ToDisconnectedConnection
<1> QED
  BY <1>2, <1>3

\* A connection that is made was not left meanwhile.
LEMMA ToConnectedConnection ==
    ASSUME NEW u, NEW r, NEW w, Connection(u, r)
    PROVE  \E u2, r2 : /\ ToConnected([ui |-> u, rfb |-> r, ws |-> w]) = [ui |-> u2, rfb |-> r2, ws |-> w]
                       /\ Connection(u2, r2) /\ SameVisit(u, u2)
<1> DEFINE c == [ui |-> u, rfb |-> r, ws |-> w]
<1>1. CASE r.conn = "connecting"
  <2> DEFINE u2 == ConnectFinished(u)
             r2 == [r EXCEPT !.conn = "connected"]
  <2>1. ToConnected(c) = [ui |-> u2, rfb |-> r2, ws |-> w]
    BY <1>1 DEF ToConnected
  <2>2. r2.conn = "connected" /\ r2.update = r.update /\ DOMAIN r2 = DOMAIN r
    BY DEF Connection, Fields
  <2>3. /\ DOMAIN u2 = DOMAIN u /\ u2.left = u.left /\ u2.sessions = u.sessions
        /\ u2.reconnect = u.reconnect
    BY DEF Connection, Fields, ConnectFinished
  <2>4. ~ u.reconnect /\ ~ u.left
    BY <1>1 DEF Connection, Left
  <2> HIDE DEF u2, r2
  <2>5. Connection(u2, r2) /\ SameVisit(u, u2)
    BY <2>2, <2>3, <2>4 DEF Connection, Fields, Left, SameVisit
  <2> QED
    BY <2>1, <2>5
<1>2. CASE r.conn # "connecting"
  BY <1>2 DEF ToConnected, SameVisit
<1> QED
  BY <1>1, <1>2
-----------------------------------------------------------------------------
(* Steps of the connection.                                                *)

\* The handlers keep the connection's fields, and change the rest of the
\* record in any way.
LEMMA SameConnection ==
    ASSUME NEW u, NEW r, NEW u2, NEW r2, Connection(u, r),
           {"left", "inhibit", "reconnect", "sessions"} \subseteq DOMAIN u2,
           u2.left = u.left, u2.inhibit = u.inhibit, u2.reconnect = u.reconnect, u2.sessions = u.sessions,
           {"conn", "update"} \subseteq DOMAIN r2, r2.conn = r.conn, r2.update \in Nat
    PROVE  Connection(u2, r2) /\ SameVisit(u, u2)
BY DEF Connection, Fields, Left, SameVisit

\* What a step does to the connection.
Kept == Connection(ui', rfb') /\ (ui.left /\ ui'.left => ui'.sessions = ui.sessions)

LEMMA KeptUnchanged ==
    ASSUME Connection(ui, rfb), ui' = ui, rfb' = rfb
    PROVE  Kept
BY DEF Kept

LEMMA KeptFailed ==
    ASSUME NEW r, NEW w, Connection(ui, r), Becomes(Failed([ui |-> ui, rfb |-> r, ws |-> w]))
    PROVE  Kept
<1>1. PICK u2, r2, w2 : /\ Failed([ui |-> ui, rfb |-> r, ws |-> w]) = [ui |-> u2, rfb |-> r2, ws |-> w2]
                        /\ Connection(u2, r2) /\ SameVisit(ui, u2)
  BY FailedConnection
<1>2. ui' = u2 /\ rfb' = r2
  BY <1>1 DEF Becomes
<1> QED
  BY <1>1, <1>2 DEF Kept, SameVisit

LEMMA PageKeeps ==
    ASSUME Connection(ui, rfb), Page
    PROVE  Kept
<1>1. CASE UIConnect
  <2>1. /\ ui' = [[ui EXCEPT !.left = FALSE, !.password = FALSE] EXCEPT !.rfb = TRUE, !.sessions = @ + 1]
        /\ rfb' = NewRfb(FALSE, rfb.viewOnly) /\ ~ ui.reconnect
    BY <1>1 DEF UIConnect, Open
  <2>2. ui'.left = FALSE /\ ui'.reconnect = ui.reconnect /\ DOMAIN ui' = DOMAIN ui
    BY <2>1 DEF Connection, Fields
  <2>3. Fields(ui', rfb')
    BY <2>1, <2>2 DEF Connection, Fields, NewRfb
  <2> QED
    BY <2>1, <2>2, <2>3 DEF Connection, Left, Kept
<1>2. CASE UIReconnect
  <2>1. /\ ui' = [[ui EXCEPT !.reconnect = FALSE] EXCEPT !.rfb = TRUE, !.sessions = @ + 1]
        /\ rfb' = NewRfb(ui.password, rfb.viewOnly) /\ ui.reconnect /\ ~ ui.inhibit
    BY <1>2 DEF UIReconnect, Open
  <2>2. ui'.left = ui.left /\ ui'.reconnect = FALSE /\ DOMAIN ui' = DOMAIN ui
    BY <2>1 DEF Connection, Fields
  <2>3. Fields(ui', rfb')
    BY <2>1, <2>2 DEF Connection, Fields, NewRfb
  <2>4. ~ ui.left
    BY <2>1 DEF Connection, Left
  <2> QED
    BY <2>2, <2>3, <2>4 DEF Connection, Left, Kept
<1>3. CASE UICancelReconnect
  <2>1. /\ ui' = [ui EXCEPT !.reconnect = FALSE, !.ops = @ + 1, !.left = TRUE]
        /\ rfb' = rfb /\ ui.reconnect
    BY <1>3 DEF UICancelReconnect
  <2>2. ui'.left = TRUE /\ ui'.reconnect = FALSE /\ ui'.sessions = ui.sessions /\ DOMAIN ui' = DOMAIN ui
    BY <2>1 DEF Connection, Fields
  <2>3. rfb.conn = "disconnected"
    BY <2>1 DEF Connection, Left
  <2> QED
    BY <2>1, <2>2, <2>3 DEF Connection, Fields, Left, Kept
<1>4. CASE UIDisconnect
  <2>1. PICK r2, w2 : /\ ToDisconnecting(Conn) = [ui |-> ui, rfb |-> r2, ws |-> w2]
                      /\ Connection(ui, r2)
    BY ToDisconnectingConnection DEF Conn
  <2>2. /\ rfb.conn \in {"connecting", "connected"}
        /\ ui' = [ui EXCEPT !.connected = FALSE, !.inhibit = TRUE, !.dialog = FALSE, !.ops = @ + 1, !.left = TRUE]
        /\ rfb' = r2
    BY <1>4, <2>1 DEF UIDisconnect, Becomes
  <2>3. rfb'.conn = "disconnecting"
    BY ZenonT(60), <2>1, <2>2 DEF ToDisconnecting, Conn, Connection, Fields
  <2>4. /\ ui'.left = TRUE /\ ui'.inhibit = TRUE /\ ui'.reconnect = ui.reconnect
        /\ ui'.sessions = ui.sessions /\ DOMAIN ui' = DOMAIN ui
    BY <2>2 DEF Connection, Fields
  <2>5. ~ ui.reconnect
    BY <2>2 DEF Connection, Left
  <2> QED
    BY <2>1, <2>2, <2>3, <2>4, <2>5 DEF Connection, Fields, Left, Kept
<1>5. CASE UISetCredentials
  BY <1>5 DEF UISetCredentials, Connection, Fields, Left, Kept
<1>6. CASE ClipboardPasteFrom
  BY <1>6 DEF ClipboardPasteFrom, UserOp, Connection, Fields, Left, Kept
<1>7. CASE UpdateViewOnly
  BY <1>7 DEF UpdateViewOnly, Connection, Fields, Left, Kept
<1> QED
  BY <1>1, <1>2, <1>3, <1>4, <1>5, <1>6, <1>7 DEF Page

\* A wait that fails, and the reading of a unit, leave the connection alone.
LEMMA AtConnection ==
    ASSUME NEW k, Connection(ui, rfb)
    PROVE  /\ Connection(ui, At(k)) /\ DOMAIN At(k) = DOMAIN rfb
           /\ At(k).conn = rfb.conn /\ At(k).update = rfb.update
BY DEF At, Connection, Fields, Left

LEMMA HandshakeKeeps ==
    ASSUME Connection(ui, rfb), Handshake
    PROVE  Kept
<1>0. ASSUME NEW a, NEW b, NEW c, WaitsFor(a, b, c) PROVE Kept
  BY <1>0, KeptUnchanged DEF WaitsFor
<1>1. CASE NegotiateProtocolVersion
  BY <1>1, <1>0, AtConnection DEF NegotiateProtocolVersion, Authenticated, AskCredentials, Connection, Fields, Left, Kept
<1>2. CASE NegotiateSecurity
  <2>1. CASE WaitsFor(1, IF Peek(1).x = <<>> THEN 0 ELSE 1, 1)
    BY <2>1, <1>0
  <2>2. CASE ui' = ui /\ (\E s, t : rfb' = [At("types") EXCEPT !.scheme = s, !.init = t])
    BY <2>2, AtConnection DEF Connection, Fields, Left, Kept
  <2>3. CASE ui' = ui /\ rfb' = [At("types") EXCEPT !.init = "SecurityReason"]
    BY <2>3, AtConnection DEF Connection, Fields, Left, Kept
  <2>4. CASE Becomes(Failed([Conn EXCEPT !.rfb = At("types")]))
    <3>1. [Conn EXCEPT !.rfb = At("types")] = [ui |-> ui, rfb |-> At("types"), ws |-> ws]
      BY DEF Conn
    <3> QED
      BY <2>4, <3>1, AtConnection, KeptFailed
  <2> QED
    BY <1>2, <2>1, <2>2, <2>3, <2>4 DEF NegotiateSecurity
<1>3. CASE NoAuth
  BY <1>3, <1>0, AtConnection DEF NoAuth, Authenticated, AskCredentials, Connection, Fields, Left, Kept
<1>4. CASE NegotiateStdVNCAuth
  BY <1>4, <1>0, AtConnection DEF NegotiateStdVNCAuth, Authenticated, AskCredentials, Connection, Fields, Left, Kept
<1>5. CASE NegotiatePlainAuth
  BY <1>5, <1>0, AtConnection DEF NegotiatePlainAuth, Authenticated, AskCredentials, Connection, Fields, Left, Kept
<1>6. CASE NegotiateXvpAuth
  BY <1>6, <1>0, AtConnection DEF NegotiateXvpAuth, Authenticated, AskCredentials, Connection, Fields, Left, Kept
<1>7. CASE NegotiateVeNCryptAuth
  BY <1>7, <1>0, AtConnection DEF NegotiateVeNCryptAuth, Authenticated, AskCredentials, Connection, Fields, Left, Kept
<1>8. CASE NegotiateTightAuth
  BY <1>8, <1>0, AtConnection DEF NegotiateTightAuth, Authenticated, AskCredentials, Connection, Fields, Left, Kept
<1>9. CASE NegotiateARDAuth
  BY <1>9, <1>0, AtConnection DEF NegotiateARDAuth, Authenticated, AskCredentials, Connection, Fields, Left, Kept
<1>10. CASE HandleSecurityResult
  BY <1>10, <1>0, AtConnection DEF HandleSecurityResult, Authenticated, AskCredentials, Connection, Fields, Left, Kept
<1>11. CASE HandleSecurityReason
  <2>1. CASE Becomes(Failed([Conn EXCEPT !.rfb = At("reason")]))
    <3>1. [Conn EXCEPT !.rfb = At("reason")] = [ui |-> ui, rfb |-> At("reason"), ws |-> ws]
      BY DEF Conn
    <3> QED
      BY <2>1, <3>1, AtConnection, KeptFailed
  <2> QED
    BY <1>11, <1>0, <2>1 DEF HandleSecurityReason
<1>12. CASE ClientInitialisation
  BY <1>12, <1>0, AtConnection DEF ClientInitialisation, Authenticated, AskCredentials, Connection, Fields, Left, Kept
<1>13. CASE NegotiateServerInit
  <2>1. CASE Becomes(ToConnected([Conn EXCEPT !.rfb = At("serverinit")]))
    <3>1. [Conn EXCEPT !.rfb = At("serverinit")] = [ui |-> ui, rfb |-> At("serverinit"), ws |-> ws]
      BY DEF Conn
    <3>2. PICK u2, r2 : /\ ToConnected([ui |-> ui, rfb |-> At("serverinit"), ws |-> ws])
                               = [ui |-> u2, rfb |-> r2, ws |-> ws]
                        /\ Connection(u2, r2) /\ SameVisit(ui, u2)
      BY AtConnection, ToConnectedConnection
    <3>3. ui' = u2 /\ rfb' = r2
      BY <2>1, <3>1, <3>2 DEF Becomes
    <3> QED
      BY <3>2, <3>3 DEF Kept, SameVisit
  <2> QED
    BY <1>13, <1>0, <2>1 DEF NegotiateServerInit
<1> QED
  BY <1>1, <1>2, <1>3, <1>4, <1>5, <1>6, <1>7, <1>8, <1>9, <1>10, <1>11, <1>12, <1>13 DEF Handshake

LEMMA MessagesKeep ==
    ASSUME Connection(ui, rfb), NormalMsg
    PROVE  Kept
<1>1. CASE NormalTurnEnds
  BY <1>1, KeptUnchanged DEF NormalTurnEnds
<1>2. CASE UpdateHeader
  <2>1. CASE ui' = ui /\ rfb' = rfb
    BY <2>1, KeptUnchanged
  <2>2. CASE /\ ui' = ui
             /\ \E m, b : rfb' = [[At("update") EXCEPT !.rects = m, !.update = @ + 1] EXCEPT !.flushing = b]
    BY <2>2, AtConnection DEF Connection, Fields, Left, Kept
  <2>3. CASE ui' = ui /\ \E m : rfb' = [At("update") EXCEPT !.rects = m, !.update = @ + 1]
    BY <2>3, AtConnection DEF Connection, Fields, Left, Kept
  <2> QED
    BY <1>2, <2>1, <2>2, <2>3 DEF UpdateHeader
<1>3. CASE UpdateRect
  <2>1. PICK r : (r = rfb \/ r = At("rect")) /\ ui' = ui
                 /\ \/ \E e : rfb' = [r EXCEPT !.encoding = e]
                    \/ \E m, b : rfb' = [r EXCEPT !.rects = m, !.encoding = "", !.resizable = b]
    <3> DEFINE head == IF rfb.encoding = "" THEN 1 ELSE 0
               enc == IF head = 1 THEN Peek(1).x[1] ELSE rfb.encoding
               s == IF head = 1 THEN At("rect") ELSE rfb
    <3>1. ui' = ui /\ (rfb' = [s EXCEPT !.encoding = enc] \/ RectDone(s, enc))
      BY <1>3 DEF UpdateRect
    <3>2. s = rfb \/ s = At("rect")
      OBVIOUS
    <3> HIDE DEF s, enc
    <3>3. RectDone(s, enc) => \E m, b : rfb' = [s EXCEPT !.rects = m, !.encoding = "", !.resizable = b]
      BY DEF RectDone
    <3> QED
      BY <3>1, <3>2, <3>3
  <2>2. Connection(ui, r) /\ {"conn", "update"} \subseteq DOMAIN r
    BY <2>1, AtConnection DEF Connection, Fields
  <2>3. rfb'.conn = r.conn /\ rfb'.update = r.update /\ DOMAIN rfb' = DOMAIN r
    BY <2>1, <2>2
  <2> QED
    BY <2>1, <2>2, <2>3 DEF Connection, Fields, Left, Kept
<1>4. CASE MessageIncomplete
  BY <1>4, KeptUnchanged DEF MessageIncomplete
<1>5. CASE Bell
  BY <1>5 DEF Bell, Handled, Connection, Fields, Left, Kept
<1>6. CASE Xvp
  BY <1>6 DEF Xvp, Handled, Connection, Fields, Left, Kept
<1>7. CASE ServerFence
  BY <1>7 DEF ServerFence, Handled, Connection, Fields, Left, Kept
<1>8. CASE EndOfContinuousUpdates
  BY <1>8 DEF EndOfContinuousUpdates, Handled, Connection, Fields, Left, Kept
<1>9. CASE ServerCutText
  BY <1>9 DEF ServerCutText, Handled, Connection, Fields, Left, Kept
<1>10. CASE ExtendedClipboard
  BY <1>10 DEF ExtendedClipboard, Handled, Connection, Fields, Left, Kept
<1>11. CASE SetColourMap
  <2>1. Becomes(Failed([ui |-> ui, rfb |-> rfb, ws |-> ws]))
    BY <1>11 DEF SetColourMap, Conn
  <2> QED
    BY <2>1, KeptFailed
<1>12. CASE UnexpectedMessage
  <2>1. [Conn EXCEPT !.rfb = At("other")] = [ui |-> ui, rfb |-> At("other"), ws |-> ws]
    BY DEF Conn
  <2>2. Becomes(Failed([ui |-> ui, rfb |-> At("other"), ws |-> ws]))
    BY <1>12, <2>1 DEF UnexpectedMessage
  <2> QED
    BY <2>2, AtConnection, KeptFailed
<1> QED
  BY <1>1, <1>2, <1>3, <1>4, <1>5, <1>6, <1>7, <1>8, <1>9, <1>10, <1>11, <1>12 DEF NormalMsg

LEMMA ChannelKeeps ==
    ASSUME Connection(ui, rfb), Channel
    PROVE  Kept
<1>1. CASE SocketOpens
  BY <1>1 DEF SocketOpens, Connection, Fields, Left, Kept
<1>2. CASE SocketCloses
  <2> DEFINE w == [ws EXCEPT !.ready = "closed"]
             c == [ui |-> ui, rfb |-> rfb, ws |-> w]
             after == CASE rfb.conn = "disconnecting" -> ToDisconnected(c)
                        [] rfb.conn \in {"connecting", "connected"} -> Failed(c)
                        [] OTHER -> c
  <2>1. PICK u2, r2, w2 : /\ after = [ui |-> u2, rfb |-> r2, ws |-> w2]
                          /\ Connection(u2, r2) /\ SameVisit(ui, u2)
    <3>1. CASE rfb.conn = "disconnecting"
      <4>1. after = ToDisconnected(c)
        BY <3>1
      <4> HIDE DEF w, after
      <4>2. PICK u2, r2, w2 : /\ ToDisconnected(c) = [ui |-> u2, rfb |-> r2, ws |-> w2]
                              /\ Connection(u2, r2) /\ SameVisit(ui, u2)
        BY ToDisconnectedConnection
      <4> QED
        BY <4>1, <4>2
    <3>2. CASE rfb.conn \in {"connecting", "connected"}
      <4>1. after = Failed(c)
        BY <3>2
      <4> HIDE DEF w, after
      <4>2. PICK u2, r2, w2 : /\ Failed(c) = [ui |-> u2, rfb |-> r2, ws |-> w2]
                              /\ Connection(u2, r2) /\ SameVisit(ui, u2)
        BY FailedConnection
      <4> QED
        BY <4>1, <4>2
    <3>3. CASE rfb.conn \notin {"connecting", "connected", "disconnecting"}
      <4>1. after = c
        BY <3>3
      <4> HIDE DEF w, after
      <4> QED
        BY <4>1 DEF SameVisit
    <3> QED
      BY <3>1, <3>2, <3>3
  <2>2. [Conn EXCEPT !.ws.ready = "closed"] = c
    BY DEF Conn
  <2>3. Becomes(IF ws.close THEN [after EXCEPT !.ws.close = FALSE] ELSE c)
    BY <1>2, <2>2 DEF SocketCloses
  <2> HIDE DEF after, w
  <2>4. CASE ws.close
    <3>1. ui' = u2 /\ rfb' = r2
      BY <2>1, <2>3, <2>4 DEF Becomes
    <3> QED
      BY <2>1, <3>1 DEF Kept, SameVisit
  <2>5. CASE ~ ws.close
    <3>1. ui' = ui /\ rfb' = rfb
      BY <2>3, <2>5 DEF Becomes
    <3> QED
      BY <3>1, KeptUnchanged
  <2> QED
    BY <2>4, <2>5
<1>3. CASE ReceiveMessage
  BY <1>3, KeptUnchanged DEF ReceiveMessage
<1> QED
  BY <1>1, <1>2, <1>3 DEF Channel

LEMMA TimersKeep ==
    ASSUME Connection(ui, rfb), Timers
    PROVE  Kept
<1>1. CASE DisconnectTimesOut
  <2>1. PICK u2, r2, w2 : /\ ToDisconnected(Conn) = [ui |-> u2, rfb |-> r2, ws |-> w2]
                          /\ Connection(u2, r2) /\ SameVisit(ui, u2)
    BY ToDisconnectedConnection DEF Conn
  <2>2. ui' = u2 /\ rfb' = r2
    BY <1>1, <2>1 DEF DisconnectTimesOut, Becomes
  <2> QED
    BY <2>1, <2>2 DEF Kept, SameVisit
<1>2. CASE ResumeAuthentication
  BY <1>2 DEF ResumeAuthentication, Connection, Fields, Left, Kept
<1>3. CASE ArdComputed
  BY <1>3 DEF ArdComputed, Connection, Fields, Left, Kept
<1>4. CASE ImageLoads
  <2>1. ui' = ui /\ (rfb' = rfb \/ rfb' = [rfb EXCEPT !.flushing = FALSE])
    BY <1>4 DEF ImageLoads, AfterFlush
  <2> QED
    BY <2>1 DEF Connection, Fields, Left, Kept
<1> QED
  BY <1>1, <1>2, <1>3, <1>4 DEF Timers

LEMMA ServerKeeps ==
    ASSUME Connection(ui, rfb), Server
    PROVE  Kept
<1>1. ui' = ui /\ rfb' = rfb
  BY DEF Server, ServerHandshake, ServerReads, ServerUpdates, ServerChatters, Sends
<1> QED
  BY <1>1, KeptUnchanged

LEMMA NextKeeps ==
    ASSUME Connection(ui, rfb), [Next]_vars
    PROVE  Kept
<1>1. CASE UNCHANGED vars
  BY <1>1, KeptUnchanged DEF vars
<1>2. CASE ReceiveEnds
  BY <1>2, KeptUnchanged DEF ReceiveEnds
<1> QED
  BY <1>1, <1>2, PageKeeps, HandshakeKeeps, MessagesKeep, ChannelKeeps, TimersKeep, ServerKeeps DEF Next, Client

LEMMA InitConnection == Init => Connection(ui, rfb)
<1> SUFFICES ASSUME Init PROVE Connection(ui, rfb)
  OBVIOUS
<1>1. PICK viewOnly : rfb = [NewRfb(FALSE, viewOnly) EXCEPT !.conn = "disconnected"]
  BY DEF Init
<1>2. rfb.conn = "disconnected" /\ rfb.update = 0 /\ {"conn", "update"} \subseteq DOMAIN rfb
  BY <1>1 DEF NewRfb
<1>3. /\ ui.left = FALSE /\ {"left", "inhibit", "reconnect", "sessions"} \subseteq DOMAIN ui
  BY DEF Init
<1> QED
  BY <1>2, <1>3 DEF Connection, Fields, Left

\* A user who disconnected or cancelled the reconnection is not connected
\* again by a timer, a late event of the channel or a handler under way
\* (UI.disconnect, cancelReconnect, disconnectFinished and connectFinished).
THEOREM LeavingIsFinal == Spec => StaysDisconnected
<1>1. Init => Connection(ui, rfb)
  BY InitConnection
<1>2. Connection(ui, rfb) /\ [Next]_vars => Connection(ui, rfb)'
  BY NextKeeps DEF Kept
<1>3. Connection(ui, rfb) /\ [Next]_vars => [ui.left /\ ui'.left => ui'.sessions = ui.sessions]_vars
  BY NextKeeps DEF Kept
<1> QED
  BY <1>1, <1>2, <1>3, PTL DEF Spec, StaysDisconnected
-----------------------------------------------------------------------------
(* Steps of the display.                                                   *)

LEMMA RectOrdered ==
    ASSUME Connection(ui, rfb), Ordered(disp), UpdateRect
    PROVE  Ordered(disp')
<1> DEFINE head == IF rfb.encoding = "" THEN 1 ELSE 0
           enc == IF head = 1 THEN Peek(1).x[1] ELSE rfb.encoding
           r == IF head = 1 THEN At("rect") ELSE rfb
<1>1. disp' = disp \/ RectDone(r, enc)
  BY DEF UpdateRect
<1>2. r.update \in Nat /\ rfb.update \in Nat
  BY AtConnection DEF Connection, Fields
<1> HIDE DEF enc, r
<1>3. Ordered(DrawRect(disp, enc))
  <2>1. "fill" \in Kinds /\ "flip" \in Kinds
    BY DEF Kinds
  <2>2. CASE enc = "jpeg"
    BY <1>2, <2>2, ImageRectOrdered DEF DrawRect
  <2>3. CASE enc = "fill"
    BY <1>2, <2>1, <2>3, DrawOrdered DEF DrawRect
  <2>4. CASE enc = "size"
    BY <1>2, <2>1, <2>4, DrawOrdered DEF DrawRect
  <2>5. CASE enc \notin {"jpeg", "fill", "size"}
    BY <2>5 DEF DrawRect
  <2> QED
    BY <2>2, <2>3, <2>4, <2>5
<1>4. ASSUME RectDone(r, enc) PROVE Ordered(disp')
  <2>1. \/ disp' = DrawRect(disp, enc)
        \/ disp' = Draw(DrawRect(disp, enc), "flip", r.update)
    BY <1>4 DEF RectDone
  <2>2. "flip" \in Kinds
    BY DEF Kinds
  <2> QED
    BY <1>2, <1>3, <2>1, <2>2, DrawOrdered
<1> QED
  BY <1>1, <1>4

LEMMA UpdateHeaderOrdered ==
    ASSUME Connection(ui, rfb), Ordered(disp), UpdateHeader
    PROVE  Ordered(disp')
<1> DEFINE r == [At("update") EXCEPT !.rects = Len(Peek(2).x), !.update = @ + 1]
<1>1. disp' = disp \/ disp' = Flush(disp) \/ disp' = Draw(disp, "flip", r.update)
  BY DEF UpdateHeader
<1>2. r.update \in Nat
  BY AtConnection DEF Connection, Fields
<1> HIDE DEF r
<1>3. "flip" \in Kinds
  BY DEF Kinds
<1> QED
  BY <1>1, <1>2, <1>3, FlushOrdered, DrawOrdered

LEMMA NextDraws ==
    ASSUME Connection(ui, rfb), Ordered(disp), [Next]_vars
    PROVE  Ordered(disp')
<1>1. CASE disp' = disp
  BY <1>1
<1>2. CASE Page
  <2>1. disp' = Blank \/ disp' = disp
    BY <1>2 DEF Page, UIConnect, UIReconnect, Open, UICancelReconnect, UIDisconnect, UISetCredentials,
         ClipboardPasteFrom, UpdateViewOnly
  <2> QED
    BY <2>1, BlankOrdered
<1>3. CASE Handshake
  <2>1. CASE NegotiateServerInit
    <3>1. disp' = disp \/ disp' = Draw(disp, "flip", 0)
      BY <2>1 DEF NegotiateServerInit, WaitsFor
    <3>2. "flip" \in Kinds /\ 0 \in Nat
      BY DEF Kinds
    <3> QED
      BY <3>1, <3>2, DrawOrdered
  <2>2. CASE ~ NegotiateServerInit
    <3>1. disp' = disp
      BY <1>3, <2>2 DEF Handshake, WaitsFor, AskCredentials, NegotiateProtocolVersion, NegotiateSecurity, NoAuth, NegotiateStdVNCAuth, NegotiatePlainAuth,
         NegotiateXvpAuth, NegotiateVeNCryptAuth, NegotiateTightAuth, NegotiateARDAuth, HandleSecurityResult,
         HandleSecurityReason, ClientInitialisation
    <3> QED
      BY <3>1
  <2> QED
    BY <2>1, <2>2
<1>4. CASE NormalMsg
  <2>1. CASE UpdateHeader
    BY <2>1, UpdateHeaderOrdered
  <2>2. CASE UpdateRect
    BY <2>2, RectOrdered
  <2>3. CASE ~ UpdateHeader /\ ~ UpdateRect
    <3>1. disp' = disp
      BY <1>4, <2>3 DEF NormalMsg, NormalTurnEnds, MessageIncomplete, Handled, Bell, Xvp, ServerFence,
           EndOfContinuousUpdates, ServerCutText, ExtendedClipboard, SetColourMap, UnexpectedMessage
    <3> QED
      BY <3>1
  <2> QED
    BY <2>1, <2>2, <2>3
<1>5. CASE Channel \/ ReceiveEnds \/ Server \/ UNCHANGED vars
  <2>1. disp' = disp
    BY <1>5 DEF Channel, SocketOpens, SocketCloses, ReceiveMessage, ReceiveEnds, vars,
         Server, ServerHandshake, ServerReads, ServerUpdates, ServerChatters, Sends
  <2> QED
    BY <2>1
<1>6. CASE Timers
  <2>1. CASE ImageLoads
    <3>1. PICK i \in 1 .. Len(disp.q) : disp' = Loaded(disp, i)
      BY <2>1 DEF ImageLoads
    <3> QED
      BY <3>1, LoadedOrdered
  <2>2. CASE ~ ImageLoads
    <3>1. disp' = disp
      BY <1>6, <2>2 DEF Timers, DisconnectTimesOut, ResumeAuthentication, ArdComputed
    <3> QED
      BY <3>1
  <2> QED
    BY <2>1, <2>2
<1> QED
  BY <1>1, <1>2, <1>3, <1>4, <1>5, <1>6 DEF Next, Client

\* Images are decoded in any order, and all is drawn in the order in which the
\* server sent it: nothing overtakes, nothing is drawn twice or left out before
\* something that is drawn (Display._renderQPush, _scanRenderQ, _resumeRenderQ).
THEOREM DrawingIsInOrder == Spec => []DrawnInOrder
<1> DEFINE Inv == Connection(ui, rfb) /\ Ordered(disp)
<1>1. Init => Inv
  BY InitConnection, BlankOrdered DEF Init
<1>2. Inv /\ [Next]_vars => Inv'
  BY NextKeeps, NextDraws DEF Kept
<1>3. Inv => DrawnInOrder
  BY DEF Ordered, DrawnInOrder, InOrder
<1> QED
  BY <1>1, <1>2, <1>3, PTL DEF Spec
-----------------------------------------------------------------------------
(* Steps of the stream.                                                    *)

\* The network carries units, and what the server wants are messages of the
\* clipboard; the received part of the stream is within its allocation.
Streams(b, w, s) ==
    /\ Sound(b) /\ w \in Seq(Units0)
    /\ "wants" \in DOMAIN s /\ s.wants \subseteq DOMAIN Body

\* What a handler does to the receive queue: it reads, or looks and gives back.
Consumes ==
    \/ buf' = buf
    \/ \E n \in Nat : Reads(n)
    \/ \E read \in Nat, n \in Nat : n <= read /\ read <= RQlen(buf) /\ buf' = Goback(Shift(buf, read), n)

LEMMA ConsumesSound ==
    ASSUME Sound(buf), Consumes
    PROVE  Sound(buf')
<1>1. ASSUME NEW n \in Nat, Reads(n) PROVE Sound(buf')
  <2>1. RQlen(buf) \in Nat /\ n <= RQlen(buf) /\ buf' = Shift(buf, n)
    BY <1>1, SoundParts DEF Reads
  <2> QED
    BY <2>1, ShiftSound
<1>2. ASSUME NEW read \in Nat, NEW n \in Nat, n <= read, read <= RQlen(buf),
             buf' = Goback(Shift(buf, read), n)
      PROVE  Sound(buf')
  BY <1>2, GobackSound
<1> QED
  BY <1>1, <1>2 DEF Consumes

LEMMA WaitConsumes ==
    ASSUME NEW read \in Nat, NEW num, NEW n \in Nat, n <= read, WaitsFor(read, num, n)
    PROVE  Consumes /\ wire' = wire /\ srv' = srv
BY DEF WaitsFor, Consumes

LEMMA ReadConsumes ==
    ASSUME NEW n \in Nat, Reads(n)
    PROVE  Consumes
BY DEF Consumes

LEMMA HandshakeConsumes ==
    ASSUME Handshake
    PROVE  Consumes /\ wire' = wire /\ srv' = srv
<1>0. /\ WaitsFor(0, 1, 0) => Consumes /\ wire' = wire /\ srv' = srv
      /\ WaitsFor(1, 1, 1) => Consumes /\ wire' = wire /\ srv' = srv
      /\ \A m : WaitsFor(1, m, 1) => Consumes /\ wire' = wire /\ srv' = srv
  BY WaitConsumes
<1>00. /\ (Reads(1) => Consumes) /\ (Reads(2) => Consumes)
       /\ buf' = buf => Consumes
  BY ReadConsumes DEF Consumes
<1>1. CASE NegotiateProtocolVersion
  BY <1>1, <1>0, <1>00 DEF NegotiateProtocolVersion, Authenticated, AskCredentials
<1>2. CASE NegotiateSecurity
  BY <1>2, <1>0, <1>00 DEF NegotiateSecurity, Authenticated, AskCredentials
<1>3. CASE NoAuth
  BY <1>3, <1>0, <1>00 DEF NoAuth, Authenticated, AskCredentials
<1>4. CASE NegotiateStdVNCAuth
  BY <1>4, <1>0, <1>00 DEF NegotiateStdVNCAuth, Authenticated, AskCredentials
<1>5. CASE NegotiatePlainAuth
  BY <1>5, <1>0, <1>00 DEF NegotiatePlainAuth, Authenticated, AskCredentials
<1>6. CASE NegotiateXvpAuth
  BY <1>6, <1>0, <1>00 DEF NegotiateXvpAuth, Authenticated, AskCredentials
<1>7. CASE NegotiateVeNCryptAuth
  BY <1>7, <1>0, <1>00 DEF NegotiateVeNCryptAuth, Authenticated, AskCredentials
<1>8. CASE NegotiateTightAuth
  BY <1>8, <1>0, <1>00 DEF NegotiateTightAuth, Authenticated, AskCredentials
<1>9. CASE NegotiateARDAuth
  BY <1>9, <1>0, <1>00 DEF NegotiateARDAuth, Authenticated, AskCredentials
<1>10. CASE HandleSecurityResult
  BY <1>10, <1>0, <1>00 DEF HandleSecurityResult, Authenticated, AskCredentials
<1>11. CASE HandleSecurityReason
  BY <1>11, <1>0, <1>00 DEF HandleSecurityReason, Authenticated, AskCredentials
<1>12. CASE ClientInitialisation
  BY <1>12, <1>0, <1>00 DEF ClientInitialisation, Authenticated, AskCredentials
<1>13. CASE NegotiateServerInit
  <2>1. ASSUME NEW read \in 0 .. ServerInitUnits - 1, WaitsFor(read, 1, read)
        PROVE  Consumes /\ wire' = wire /\ srv' = srv
    <3>1. read \in Nat /\ read <= read
      BY DEF ServerInitUnits
    <3> QED
      BY <2>1, <3>1, WaitConsumes
  <2>2. ServerInitUnits \in Nat
    BY DEF ServerInitUnits
  <2>3. CASE Reads(ServerInitUnits) /\ wire' = wire /\ srv' = srv
    BY <2>2, <2>3, ReadConsumes
  <2> QED
    BY <1>13, <2>1, <2>3 DEF NegotiateServerInit
<1> QED
  BY <1>1, <1>2, <1>3, <1>4, <1>5, <1>6, <1>7, <1>8, <1>9, <1>10, <1>11, <1>12, <1>13 DEF Handshake

LEMMA MessagesConsume ==
    ASSUME Sound(buf), NormalMsg
    PROVE  Consumes /\ wire' = wire /\ srv' = srv
<1>0. RQlen(buf) \in Nat
  BY SoundParts
<1>00. ASSUME NEW k, NEW n \in Nat, NEW r, NEW msgs, Handled(k, n, r, msgs)
       PROVE  Consumes /\ wire' = wire /\ srv' = srv
  BY <1>00, ReadConsumes DEF Handled
<1>1. CASE NormalTurnEnds
  BY <1>1 DEF NormalTurnEnds, Consumes
<1>2. CASE UpdateHeader
  <2>1. wire' = wire /\ srv' = srv
        /\ (\/ RQlen(buf) # 0 /\ buf' = Goback(Shift(buf, 1), 1)
            \/ Reads(2))
    BY <1>2, <1>0 DEF UpdateHeader, NormalTurn
  <2>2. CASE RQlen(buf) # 0 /\ buf' = Goback(Shift(buf, 1), 1)
    <3>1. 1 <= RQlen(buf)
      BY <1>0, <2>2
    <3> QED
      BY <2>1, <2>2, <3>1 DEF Consumes
  <2> QED
    BY <2>1, <2>2, ReadConsumes
<1>3. CASE UpdateRect
  <2> DEFINE head == IF rfb.encoding = "" THEN 1 ELSE 0
             enc == IF head = 1 THEN Peek(1).x[1] ELSE rfb.encoding
  <2>1. /\ wire' = wire /\ srv' = srv /\ RQlen(buf) > 0
        /\ buf' = Shift(buf, head) \/ Reads(head + RectUnits(enc))
    BY <1>3 DEF UpdateRect, NormalTurn
  <2>2. head \in Nat /\ head <= 1 /\ RectUnits(enc) \in Nat
    BY DEF RectUnits
  <2> HIDE DEF head, enc
  <2>3. CASE buf' = Shift(buf, head)
    <3>1. Reads(head)
      BY <1>0, <2>1, <2>2, <2>3 DEF Reads
    <3> QED
      BY <2>1, <2>2, <3>1, ReadConsumes
  <2>4. CASE Reads(head + RectUnits(enc))
    <3>1. head + RectUnits(enc) \in Nat
      BY <2>2
    <3> QED
      BY <2>1, <2>4, <3>1, ReadConsumes
  <2> QED
    BY <2>1, <2>3, <2>4
<1>4. CASE MessageIncomplete
  <2> DEFINE read == IF RQlen(buf) = 1 THEN 1 ELSE 2
  <2>1. /\ wire' = wire /\ srv' = srv /\ RQlen(buf) > 0
        /\ buf' = Goback(Shift(buf, read), read)
    BY <1>4 DEF MessageIncomplete, NormalTurn
  <2>2. read \in Nat /\ read <= read /\ read <= RQlen(buf)
    BY <1>0, <2>1
  <2> HIDE DEF read
  <2> QED
    BY <2>1, <2>2 DEF Consumes
<1>5. CASE Bell
  BY <1>5, <1>00 DEF Bell
<1>6. CASE Xvp
  BY <1>6, <1>00 DEF Xvp
<1>7. CASE ServerFence
  BY <1>7, <1>00 DEF ServerFence
<1>8. CASE EndOfContinuousUpdates
  BY <1>8, <1>00 DEF EndOfContinuousUpdates
<1>9. CASE ServerCutText
  BY <1>9, <1>00 DEF ServerCutText
<1>10. CASE ExtendedClipboard
  BY <1>10, <1>00 DEF ExtendedClipboard
<1>11. CASE SetColourMap
  <2>1. Reads(1) /\ wire' = wire /\ srv' = srv
    BY <1>11 DEF SetColourMap
  <2> QED
    BY <2>1, ReadConsumes
<1>12. CASE UnexpectedMessage
  <2>1. Reads(1) /\ wire' = wire /\ srv' = srv
    BY <1>12 DEF UnexpectedMessage
  <2> QED
    BY <2>1, ReadConsumes
<1> QED
  BY <1>1, <1>2, <1>3, <1>4, <1>5, <1>6, <1>7, <1>8, <1>9, <1>10, <1>11, <1>12 DEF NormalMsg

LEMMA UnitTyped ==
    ASSUME NEW k \in UnitKinds, NEW i \in Nat, NEW x \in Seq(Details)
    PROVE  U(k, i, x) \in Units0
BY DEF U, Units0

LEMMA NoDetail == <<>> \in Seq(Details)
BY EmptySeq

\* The messages of the clipboard and of the server's chatter are units.
LEMMA UnitsTyped ==
    ASSUME NEW k \in DOMAIN Body
    PROVE  Units(k) \in Seq(Units0)
<1>0. k \in UnitKinds
  BY DEF UnitKinds
<1>1. Body[k] \in Nat
  <2>1. k \in {"bell", "endcu", "colourmap", "other", "xvp", "fence", "cut", "caps",
               "notify", "request", "peek", "provide"}
    BY DEF Body
  <2>2. /\ Body["bell"] = 0 /\ Body["endcu"] = 0 /\ Body["colourmap"] = 0 /\ Body["other"] = 0
        /\ Body["xvp"] = 1 /\ Body["fence"] = 2 /\ Body["cut"] = 2 /\ Body["caps"] = 3
        /\ Body["notify"] = 2 /\ Body["request"] = 2 /\ Body["peek"] = 2 /\ Body["provide"] = 3
    BY DEF Body
  <2> HIDE DEF Body
  <2>3. Body[k] \in {0, 1, 2, 3}
    BY <2>1, <2>2, Zenon
  <2> QED
    BY <2>3
<1>2. 1 + Body[k] \in Nat
  BY <1>1
<1>3. \A i \in 1 .. 1 + Body[k] : U(k, i, <<>>) \in Units0
  <2>1. ASSUME NEW i \in 1 .. 1 + Body[k] PROVE U(k, i, <<>>) \in Units0
    <3>1. i \in Nat
      BY <1>2
    <3> QED
      BY <1>0, <3>1, UnitTyped, NoDetail
  <2> QED
    BY <2>1
<1> QED
  BY <1>2, <1>3 DEF Units

\* So are the rectangles of an update.
LEMMA RectsTyped ==
    ASSUME NEW list \in Seq(Encodings)
    PROVE  Rects(list) \in Seq(Units0)
<1> DEFINE cut == IF list # <<>> /\ list[Len(list)] = "last" THEN 1 ELSE 0
           n == 2 * Len(list) - cut
<1>1. Len(list) \in Nat /\ (list # <<>> => Len(list) >= 1)
  BY EmptySeq
<1>2. n \in Nat /\ n <= 2 * Len(list)
  BY <1>1
<1>3. Rects(list) = [i \in 1 .. n |-> U("rect", 1 + ((i + 1) % 2), <<list[(i + 1) \div 2]>>)]
  BY DEF Rects
<1> HIDE DEF n
<1>4. ASSUME NEW i \in 1 .. n
      PROVE  U("rect", 1 + ((i + 1) % 2), <<list[(i + 1) \div 2]>>) \in Units0
  <2>1. (i + 1) \div 2 \in 1 .. Len(list) /\ 1 + ((i + 1) % 2) \in Nat
    BY <1>1, <1>2
  <2> DEFINE x == list[(i + 1) \div 2]
             m == 1 + ((i + 1) % 2)
  <2>2. x \in Details
    BY <2>1 DEF Details
  <2>3. "rect" \in UnitKinds
    BY DEF UnitKinds
  <2>4. m \in Nat
    BY <2>1
  <2> HIDE DEF x, m
  <2>5. <<x>> \in Seq(Details)
    BY <2>2
  <2>6. U("rect", m, <<x>>) \in Units0
    BY <2>3, <2>4, <2>5, UnitTyped
  <2> QED
    BY <2>6 DEF x, m
<1> QED
  BY <1>2, <1>3, <1>4

\* What the network carries may grow by units, and be cut.
LEMMA WireGrows ==
    ASSUME NEW w \in Seq(Units0), NEW units \in Seq(Units0)
    PROVE  w \o units \in Seq(Units0)
BY ConcatProperties

\* Short answers are units.
LEMMA AnswersTyped ==
    /\ \A a \in Units0 : <<a>> \in Seq(Units0)
    /\ \A a, b \in Units0 : <<a, b>> \in Seq(Units0)
    /\ \A a, b, c \in Units0 : <<a, b, c>> \in Seq(Units0)
OBVIOUS

LEMMA HandshakeUnits ==
    /\ U("version", 1, <<>>) \in Units0 /\ U("reason", 1, <<>>) \in Units0 /\ U("reason", 2, <<>>) \in Units0
    /\ U("challenge", 1, <<>>) \in Units0 /\ U("vencrypt", 1, <<>>) \in Units0
    /\ U("ack", 1, <<>>) \in Units0 /\ U("count", 1, <<>>) \in Units0 /\ U("subtypes", 1, <<>>) \in Units0
    /\ U("tunnels", 1, <<>>) \in Units0 /\ U("tunnels", 2, <<>>) \in Units0
    /\ U("subauths", 1, <<>>) \in Units0 /\ U("subauths", 2, <<>>) \in Units0
    /\ U("dh", 1, <<>>) \in Units0 /\ U("dh", 2, <<>>) \in Units0 /\ U("update", 1, <<>>) \in Units0
    /\ U("result", 1, <<"ok">>) \in Units0 /\ U("result", 1, <<"bad">>) \in Units0
    /\ \A i \in Nat : U("serverinit", i, <<>>) \in Units0
    /\ \A i \in Nat, list \in Seq(Details) : U("types", i, list) \in Units0 /\ U("update", i, list) \in Units0
<1>1. /\ "version" \in UnitKinds /\ "types" \in UnitKinds /\ "reason" \in UnitKinds /\ "challenge" \in UnitKinds
      /\ "vencrypt" \in UnitKinds /\ "ack" \in UnitKinds /\ "count" \in UnitKinds /\ "subtypes" \in UnitKinds
      /\ "tunnels" \in UnitKinds /\ "subauths" \in UnitKinds /\ "dh" \in UnitKinds /\ "result" \in UnitKinds
      /\ "serverinit" \in UnitKinds /\ "update" \in UnitKinds
  BY DEF UnitKinds
<1>2. \A x \in Details : <<x>> \in Seq(Details)
  OBVIOUS
<1>3. "ok" \in Details /\ "bad" \in Details
  BY DEF Details
<1>4. <<"ok">> \in Seq(Details) /\ <<"bad">> \in Seq(Details)
  BY <1>2, <1>3
<1>5. 1 \in Nat /\ 2 \in Nat
  OBVIOUS
<1> QED
  BY <1>1, <1>4, <1>5, UnitTyped, NoDetail

LEMMA ServerHandshakeSends ==
    ASSUME wire \in Seq(Units0), scope \in Scopes, ServerHandshake
    PROVE  wire' \in Seq(Units0)
<1>0. \A units \in Seq(Units0) : wire \o units \in Seq(Units0)
  BY WireGrows
<1>1. ASSUME Result PROVE wire' \in Seq(Units0)
  <2>1. <<U("result", 1, <<"ok">>)>> \in Seq(Units0)
    BY HandshakeUnits, AnswersTyped
  <2>2. <<U("result", 1, <<"bad">>), U("reason", 1, <<>>), U("reason", 2, <<>>)>> \in Seq(Units0)
    BY HandshakeUnits, AnswersTyped
  <2> QED
    BY <1>0, <1>1, <2>1, <2>2 DEF Result, Answers
<1>2. ASSUME NEW offer \in scope.offers
      PROVE  /\ <<U("types", 1, offer), U("reason", 1, <<>>), U("reason", 2, <<>>)>> \in Seq(Units0)
             /\ <<U("types", 1, offer), U("types", 2, offer)>> \in Seq(Units0)
  <2>1. offer \in Seq(Schemes \cup {"other"})
    BY OfferAssumption
  <2>2. offer \in Seq(Details)
    BY <2>1, SeqMonotonic DEF Details
  <2>3. U("types", 1, offer) \in Units0 /\ U("types", 2, offer) \in Units0
    BY <2>2, HandshakeUnits
  <2> QED
    BY <2>3, HandshakeUnits, AnswersTyped
<1>3. /\ <<U("challenge", 1, <<>>)>> \in Seq(Units0) /\ <<U("vencrypt", 1, <<>>)>> \in Seq(Units0)
      /\ <<U("ack", 1, <<>>), U("count", 1, <<>>), U("subtypes", 1, <<>>)>> \in Seq(Units0)
      /\ <<U("tunnels", 1, <<>>), U("tunnels", 2, <<>>)>> \in Seq(Units0)
      /\ <<U("subauths", 1, <<>>), U("subauths", 2, <<>>)>> \in Seq(Units0)
      /\ <<U("dh", 1, <<>>), U("dh", 2, <<>>)>> \in Seq(Units0)
  BY HandshakeUnits, AnswersTyped
<1>4. [i \in 1 .. ServerInitUnits |-> U("serverinit", i, <<>>)] \in Seq(Units0)
  <2>1. ServerInitUnits \in Nat
    BY DEF ServerInitUnits
  <2>2. \A i \in 1 .. ServerInitUnits : U("serverinit", i, <<>>) \in Units0
    BY <2>1, HandshakeUnits
  <2> QED
    BY <2>1, <2>2
<1>5. \/ Result \/ wire' = wire
      \/ \E offer \in scope.offers :
            \/ wire' = wire \o <<U("types", 1, offer), U("reason", 1, <<>>), U("reason", 2, <<>>)>>
            \/ wire' = wire \o <<U("types", 1, offer), U("types", 2, offer)>>
      \/ wire' = wire \o <<U("challenge", 1, <<>>)>>
      \/ wire' = wire \o <<U("vencrypt", 1, <<>>)>>
      \/ wire' = wire \o <<U("ack", 1, <<>>), U("count", 1, <<>>), U("subtypes", 1, <<>>)>>
      \/ wire' = wire \o <<U("tunnels", 1, <<>>), U("tunnels", 2, <<>>)>>
      \/ wire' = wire \o <<U("subauths", 1, <<>>), U("subauths", 2, <<>>)>>
      \/ wire' = wire \o <<U("dh", 1, <<>>), U("dh", 2, <<>>)>>
      \/ wire' = wire \o [i \in 1 .. ServerInitUnits |-> U("serverinit", i, <<>>)]
  BY DEF ServerHandshake, Answers
<1> QED
  BY <1>0, <1>1, <1>2, <1>3, <1>4, <1>5

LEMMA ServerStreams ==
    ASSUME Streams(buf, wire, srv), scope \in Scopes, Server
    PROVE  Streams(buf', wire', srv')
<1>0. Sound(buf) /\ wire \in Seq(Units0) /\ "wants" \in DOMAIN srv /\ srv.wants \subseteq DOMAIN Body
  BY DEF Streams
<1>1. CASE ServerHandshake
  <2>1. wire' \in Seq(Units0)
    BY <1>0, <1>1, ServerHandshakeSends
  <2>2. buf' = buf /\ srv'.wants = srv.wants /\ "wants" \in DOMAIN srv'
    BY <1>0, <1>1 DEF ServerHandshake, Answers, Result
  <2> QED
    BY <1>0, <2>1, <2>2 DEF Streams
<1>2. CASE ServerReads
  <2>1. buf' = buf /\ wire' = wire
    BY <1>2 DEF ServerReads
  <2>2. /\ "wants" \in DOMAIN srv'
        /\ srv'.wants \subseteq srv.wants \cup {"provide", "request"}
    BY <1>0, <1>2 DEF ServerReads
  <2>3. {"provide", "request"} \subseteq DOMAIN Body
    BY DEF Body
  <2> QED
    BY <1>0, <2>1, <2>2, <2>3 DEF Streams
<1>3. CASE ServerUpdates
  <2>1. PICK list \in scope.updates :
            Sends(<<U("update", 1, <<>>), U("update", 2, list)>> \o Rects(list), [srv EXCEPT !.asked = FALSE])
    BY <1>3 DEF ServerUpdates
  <2>2. list \in Seq(Encodings)
    BY ScopeAssumption
  <2>3. list \in Seq(Details)
    BY <2>2, SeqMonotonic DEF Details
  <2>4. <<U("update", 1, <<>>), U("update", 2, list)>> \in Seq(Units0)
    BY <2>3, HandshakeUnits, AnswersTyped
  <2>5. <<U("update", 1, <<>>), U("update", 2, list)>> \o Rects(list) \in Seq(Units0)
    BY <2>2, <2>4, RectsTyped, WireGrows
  <2>6. /\ wire' = wire \o (<<U("update", 1, <<>>), U("update", 2, list)>> \o Rects(list))
        /\ buf' = buf /\ srv'.wants = srv.wants /\ "wants" \in DOMAIN srv'
    BY <1>0, <2>1 DEF Sends
  <2>7. wire' \in Seq(Units0)
    BY <1>0, <2>5, <2>6, WireGrows
  <2> QED
    BY <1>0, <2>6, <2>7 DEF Streams
<1>4. CASE ServerChatters
  <2>1. /\ buf' = buf /\ "wants" \in DOMAIN srv' /\ srv'.wants \subseteq srv.wants
        /\ \E k \in scope.chatter \cup srv.wants : wire' = wire \o Units(k)
    BY <1>0, <1>4 DEF ServerChatters, Sends
  <2>2. PICK k \in scope.chatter \cup srv.wants : wire' = wire \o Units(k)
    BY <2>1
  <2>3. k \in DOMAIN Body
    BY <1>0, ScopeAssumption
  <2>4. wire' \in Seq(Units0)
    BY <1>0, <2>2, <2>3, UnitsTyped, WireGrows
  <2> QED
    BY <1>0, <2>1, <2>4 DEF Streams
<1> QED
  BY <1>1, <1>2, <1>3, <1>4 DEF Server

LEMMA ReceiveStreams ==
    ASSUME Streams(buf, wire, srv), ReceiveMessage
    PROVE  Streams(buf', wire', srv')
<1>0. Sound(buf) /\ wire \in Seq(Units0)
  BY DEF Streams
<1>1. PICK n \in 1 .. Len(wire) :
          /\ wire' = SubSeq(wire, n + 1, Len(wire))
          /\ \/ Fits(buf, SubSeq(wire, 1, n)) /\ buf' = Receive(buf, SubSeq(wire, 1, n))
             \/ buf' = buf
  BY DEF ReceiveMessage
<1>2. Len(wire) \in Nat /\ SubSeq(wire, n + 1, Len(wire)) \in Seq(Units0) /\ SubSeq(wire, 1, n) \in Seq(Units0)
  BY <1>0
<1>3. Sound(buf')
  BY <1>0, <1>1, <1>2, ReceiveSound
<1>4. srv' = srv
  BY DEF ReceiveMessage
<1> QED
  BY <1>1, <1>2, <1>3, <1>4 DEF Streams

LEMMA NextStreams ==
    ASSUME Streams(buf, wire, srv), scope \in Scopes, [Next]_vars
    PROVE  Streams(buf', wire', srv')
<1>0. Sound(buf)
  BY DEF Streams
<1>1. ASSUME buf' = buf, wire' = wire \/ wire' = <<>>, srv' = srv PROVE Streams(buf', wire', srv')
  BY <1>1, EmptySeq DEF Streams
<1>2. ASSUME buf' = Empty, wire' = <<>>, srv' = NewServer PROVE Streams(buf', wire', srv')
  <2>1. "wants" \in DOMAIN NewServer /\ NewServer.wants \subseteq DOMAIN Body
    BY DEF NewServer
  <2> QED
    BY <1>2, <2>1, EmptySound, EmptySeq DEF Streams
<1>3. CASE Page
  BY <1>1, <1>2, <1>3 DEF Page, UIConnect, UIReconnect, Open, UICancelReconnect, UIDisconnect, UISetCredentials,
     ClipboardPasteFrom, UpdateViewOnly
<1>4. CASE Handshake \/ NormalMsg
  <2>1. Consumes /\ wire' = wire /\ srv' = srv
    BY <1>0, <1>4, HandshakeConsumes, MessagesConsume
  <2> QED
    BY <1>0, <2>1, ConsumesSound DEF Streams
<1>5. CASE ReceiveEnds
  BY <1>0, <1>5, ResetSound DEF ReceiveEnds, Streams
<1>6. CASE ReceiveMessage
  BY <1>6, ReceiveStreams
<1>7. CASE SocketOpens
  <2>1. <<U("version", 1, <<>>)>> \in Seq(Units0)
    BY HandshakeUnits, AnswersTyped
  <2> QED
    BY <1>7, <2>1 DEF SocketOpens, Streams
<1>8. CASE SocketCloses
  BY <1>1, <1>8 DEF SocketCloses
<1>9. CASE Timers
  BY <1>1, <1>9 DEF Timers, DisconnectTimesOut, ResumeAuthentication, ArdComputed, ImageLoads
<1>10. CASE Server
  BY <1>10, ServerStreams
<1>11. CASE UNCHANGED vars
  BY <1>1, <1>11 DEF vars
<1> QED
  BY <1>3, <1>4, <1>5, <1>6, <1>7, <1>8, <1>9, <1>10, <1>11 DEF Next, Client, Channel

\* The index of what is read stays behind the end of what was received, and
\* that within what is allocated, whatever the network cuts, the handlers look
\* at and give back, and compacting moves (Websock._recvMessage,
\* _expandCompactRQ, rQwait).
THEOREM BufferIsSafe == Spec => []BufferFits
<1> DEFINE Inv == Streams(buf, wire, srv) /\ scope \in Scopes
<1>1. Init => Inv
  <2>1. "wants" \in DOMAIN NewServer /\ NewServer.wants \subseteq DOMAIN Body
    BY DEF NewServer
  <2> QED
    BY <2>1, EmptySound, EmptySeq DEF Init, Streams
<1>2. Inv /\ [Next]_vars => Inv'
  <2>1. [Next]_vars => scope' = scope
    BY DEF Next, vars
  <2> QED
    BY <2>1, NextStreams
<1>3. Inv => BufferFits
  BY DEF Streams, Sound, BufferFits
<1> QED
  BY <1>1, <1>2, <1>3, PTL DEF Spec

-----------------------------------------------------------------------------
(* Types.                                                                  *)

\* The values of what is watched of the page, the channel, the handler and the session.
Pages == [rfb : BOOLEAN, connected : BOOLEAN, inhibit : BOOLEAN, reconnect : BOOLEAN,
          dialog : BOOLEAN, password : BOOLEAN, sessions : 0 .. scope.sessions,
          ops : 0 .. scope.ops, left : BOOLEAN, toggled : BOOLEAN]

Channels == [ready : {"connecting", "open", "closing", "closed"}, close : BOOLEAN, message : BOOLEAN]

Turns == {"idle", "init", "once", "normal", "flushed", "end"}

States == {"connecting", "connected", "disconnecting", "disconnected"}

\* The fields of a session.
Parts == {"conn", "init", "scheme", "creds", "vencrypt", "tight", "ard", "resumes", "timer", "viewOnly",
          "rects", "encoding", "update", "flushing", "continuous", "clipCaps", "clipText", "resizable", "synced"}

\* What is watched of a session's fields.
Session(r) ==
    /\ Parts \subseteq DOMAIN r /\ r.conn \in States /\ r.resumes \in 0 .. MaxResumes /\ r.rects \in Nat

Typed(u, r, w, t) == u \in Pages /\ Session(r) /\ w \in Channels /\ t \in Turns

\* The bounds of a scope are numbers.
LEMMA ScopeIs ==
    ASSUME scope \in Scopes
    PROVE  scope.sessions \in Nat /\ scope.ops \in Nat /\ MaxResumes \in Nat
BY ScopeAssumption

\* Changes of the connection's state keep the types.
LEMMA ChangesTyped ==
    ASSUME NEW u \in Pages, NEW r, Session(r), NEW w \in Channels, NEW t \in Turns
    PROVE  LET c == [ui |-> u, rfb |-> r, ws |-> w] IN
           /\ \E r2, w2 : ToDisconnecting(c) = [ui |-> u, rfb |-> r2, ws |-> w2] /\ Typed(u, r2, w2, t)
           /\ \E u2, r2, w2 : ToDisconnected(c) = [ui |-> u2, rfb |-> r2, ws |-> w2] /\ Typed(u2, r2, w2, t)
           /\ \E u2, r2 : ToConnected(c) = [ui |-> u2, rfb |-> r2, ws |-> w] /\ Typed(u2, r2, w, t)
<1> DEFINE c == [ui |-> u, rfb |-> r, ws |-> w]
<1>0. Typed(u, r, w, t)
  BY DEF Typed
<1>1. \E r2, w2 : ToDisconnecting(c) = [ui |-> u, rfb |-> r2, ws |-> w2] /\ Typed(u, r2, w2, t)
  <2>1. CASE r.conn \in {"connecting", "connected"}
    <3> DEFINE r2 == [[r EXCEPT !.conn = "disconnecting"] EXCEPT !.timer = TRUE]
               w2 == CloseSocket(w)
    <3>1. ToDisconnecting(c) = [ui |-> u, rfb |-> r2, ws |-> w2]
      BY <2>1 DEF ToDisconnecting
    <3>2. Session(r2)
      BY DEF Session, Parts, States
    <3>3. w2 \in Channels
      BY DEF CloseSocket, Channels
    <3> QED
      BY <3>1, <3>2, <3>3 DEF Typed
  <2>2. CASE r.conn \notin {"connecting", "connected"}
    BY <1>0, <2>2 DEF ToDisconnecting
  <2> QED
    BY <2>1, <2>2
<1>2. \E u2, r2, w2 : ToDisconnected(c) = [ui |-> u2, rfb |-> r2, ws |-> w2] /\ Typed(u2, r2, w2, t)
  <2>1. CASE r.conn = "disconnecting"
    <3> DEFINE u2 == DisconnectFinished(u)
               r2 == [r EXCEPT !.conn = "disconnected", !.timer = FALSE]
               w2 == [w EXCEPT !.close = FALSE]
    <3>1. ToDisconnected(c) = [ui |-> u2, rfb |-> r2, ws |-> w2]
      BY <2>1 DEF ToDisconnected
    <3>2. Session(r2)
      BY DEF Session, Parts, States
    <3>3. w2 \in Channels
      BY DEF Channels
    <3>4. u2 \in Pages
      BY DEF Pages, DisconnectFinished
    <3> QED
      BY <3>1, <3>2, <3>3, <3>4 DEF Typed
  <2>2. CASE r.conn # "disconnecting"
    BY <1>0, <2>2 DEF ToDisconnected
  <2> QED
    BY <2>1, <2>2
<1>3. \E u2, r2 : ToConnected(c) = [ui |-> u2, rfb |-> r2, ws |-> w] /\ Typed(u2, r2, w, t)
  <2>1. CASE r.conn = "connecting"
    <3> DEFINE u2 == ConnectFinished(u)
               r2 == [r EXCEPT !.conn = "connected"]
    <3>1. ToConnected(c) = [ui |-> u2, rfb |-> r2, ws |-> w]
      BY <2>1 DEF ToConnected
    <3>2. Session(r2)
      BY DEF Session, Parts, States
    <3>3. u2 \in Pages
      BY DEF Pages, ConnectFinished
    <3> QED
      BY <3>1, <3>2, <3>3 DEF Typed
  <2>2. CASE r.conn # "connecting"
    BY <1>0, <2>2 DEF ToConnected
  <2> QED
    BY <2>1, <2>2
<1> QED
  BY <1>1, <1>2, <1>3

\* A failure keeps the types.
LEMMA FailedTyped ==
    ASSUME NEW u \in Pages, NEW r, Session(r), NEW w \in Channels, NEW t \in Turns
    PROVE  \E u2, r2, w2 : /\ Failed([ui |-> u, rfb |-> r, ws |-> w]) = [ui |-> u2, rfb |-> r2, ws |-> w2]
                           /\ Typed(u2, r2, w2, t)
<1>1. PICK r1, w1 : /\ ToDisconnecting([ui |-> u, rfb |-> r, ws |-> w]) = [ui |-> u, rfb |-> r1, ws |-> w1]
                    /\ Typed(u, r1, w1, t)
  BY ChangesTyped
<1>2. Session(r1) /\ w1 \in Channels
  BY <1>1 DEF Typed
<1>3. Failed([ui |-> u, rfb |-> r, ws |-> w]) = ToDisconnected([ui |-> u, rfb |-> r1, ws |-> w1])
  BY <1>1 DEF Failed
<1> QED
  BY <1>2, <1>3, ChangesTyped

\* A step that fails the session keeps the types.
LEMMA FailsTyped ==
    ASSUME Typed(ui, rfb, ws, turn), scope' = scope, NEW r, Session(r), turn' \in Turns,
           Becomes(Failed([ui |-> ui, rfb |-> r, ws |-> ws]))
    PROVE  Typed(ui, rfb, ws, turn)'
<1>1. ui \in Pages /\ ws \in Channels /\ Pages' = Pages /\ Channels' = Channels /\ Turns' = Turns
  BY DEF Typed, Pages, Channels, Turns
<1>2. PICK u2, r2, w2 : /\ Failed([ui |-> ui, rfb |-> r, ws |-> ws]) = [ui |-> u2, rfb |-> r2, ws |-> w2]
                        /\ Typed(u2, r2, w2, turn')
  BY <1>1, FailedTyped
<1>3. ui' = u2 /\ rfb' = r2 /\ ws' = w2
  BY <1>2 DEF Becomes
<1>4. ui' \in Pages /\ Session(rfb') /\ ws' \in Channels
  BY <1>2, <1>3 DEF Typed
<1> QED
  BY <1>1, <1>4 DEF Typed, Session

\* Most handlers leave the page and the channel, and of the session what has a
\* type.
LEMMA StaysTyped ==
    ASSUME Typed(ui, rfb, ws, turn), scope' = scope, ui' \in Pages, ws' = ws, turn' \in Turns,
           Parts \subseteq DOMAIN rfb', rfb'.conn = rfb.conn,
           rfb'.resumes \in 0 .. MaxResumes, rfb'.rects \in Nat
    PROVE  Typed(ui, rfb, ws, turn)'
<1>1. Pages' = Pages /\ Channels' = Channels /\ Turns' = Turns
  BY DEF Pages, Channels, Turns
<1>2. Session(rfb')
  BY DEF Typed, Session
<1> QED
  BY <1>1, <1>2 DEF Typed, Session

\* Noting whether the stream is where the handler reads changes no other field.
LEMMA AtTyped ==
    ASSUME NEW k, Session(rfb)
    PROVE  /\ Session(At(k)) /\ DOMAIN At(k) = DOMAIN rfb
           /\ \A p \in Parts \ {"synced"} : At(k)[p] = rfb[p]
BY DEF At, Session, Parts

\* The page's operations keep the types.
LEMMA PageTyped ==
    ASSUME Typed(ui, rfb, ws, turn), scope \in Scopes, scope' = scope, Page
    PROVE  Typed(ui, rfb, ws, turn)'
<1>0. /\ ui \in Pages /\ ws \in Channels /\ turn \in Turns /\ Session(rfb)
      /\ scope.sessions \in Nat /\ scope.ops \in Nat /\ MaxResumes \in Nat
  BY ScopeIs DEF Typed
<1>1. Pages' = Pages /\ Channels' = Channels /\ Turns' = Turns
  BY DEF Pages, Channels, Turns
<1>2. ASSUME NEW u \in Pages, NEW c, Open(u, c), u.sessions = ui.sessions PROVE Typed(ui, rfb, ws, turn)'
  <2>1. /\ ui.sessions < scope.sessions /\ ui' = [u EXCEPT !.rfb = TRUE, !.sessions = @ + 1]
        /\ rfb' = NewRfb(c, rfb.viewOnly) /\ turn' = turn
        /\ ws' = [ready |-> "connecting", close |-> TRUE, message |-> TRUE]
    BY <1>2 DEF Open
  <2>2. u.sessions + 1 \in 0 .. scope.sessions
    BY <1>0, <1>2, <2>1 DEF Pages
  <2>3. ui' \in Pages
    BY <1>2, <2>1, <2>2 DEF Pages
  <2>4. Session(rfb')
    <3>1. Parts \subseteq DOMAIN rfb'
      BY <2>1 DEF NewRfb, Parts
    <3>2. rfb'.conn = "connecting" /\ rfb'.resumes = 0 /\ rfb'.rects = 0
      BY <2>1 DEF NewRfb
    <3> QED
      BY <1>0, <3>1, <3>2 DEF Session, States
  <2>5. ws' \in Channels
    BY <2>1 DEF Channels
  <2> QED
    BY <1>0, <1>1, <2>1, <2>3, <2>4, <2>5 DEF Typed, Session
<1>3. CASE UIConnect
  <2> DEFINE u == [ui EXCEPT !.left = FALSE, !.password = FALSE]
  <2>1. u \in Pages /\ u.sessions = ui.sessions
    BY <1>0 DEF Pages
  <2>2. Open(u, FALSE)
    BY <1>3 DEF UIConnect
  <2> QED
    BY <1>2, <2>1, <2>2
<1>4. CASE UIReconnect
  <2> DEFINE u == [ui EXCEPT !.reconnect = FALSE]
  <2>1. u \in Pages /\ u.sessions = ui.sessions
    BY <1>0 DEF Pages
  <2>2. Open(u, ui.password)
    BY <1>4 DEF UIReconnect
  <2> QED
    BY <1>2, <2>1, <2>2
<1>5. ui.ops < scope.ops => ui.ops + 1 \in 0 .. scope.ops
  BY <1>0 DEF Pages
<1>6. CASE UICancelReconnect
  <2>1. ui' \in Pages
    BY <1>0, <1>5, <1>6 DEF UICancelReconnect, Pages
  <2> QED
    BY <1>0, <1>6, <2>1, StaysTyped DEF UICancelReconnect, Session
<1>7. CASE UIDisconnect
  <2>1. PICK r2, w2 : /\ ToDisconnecting(Conn) = [ui |-> ui, rfb |-> r2, ws |-> w2]
                      /\ Typed(ui, r2, w2, turn)
    BY <1>0, ChangesTyped DEF Conn
  <2>2. /\ ui.ops < scope.ops /\ turn' = turn
        /\ ui' = [ui EXCEPT !.connected = FALSE, !.inhibit = TRUE, !.dialog = FALSE, !.ops = @ + 1, !.left = TRUE]
        /\ rfb' = r2 /\ ws' = w2
    BY <1>7, <2>1 DEF UIDisconnect, Becomes
  <2>3. ui' \in Pages
    BY <1>0, <1>5, <2>2 DEF Pages
  <2> QED
    BY <1>1, <2>1, <2>2, <2>3 DEF Typed, Session
<1>8. CASE UISetCredentials
  <2>1. ui' \in Pages
    BY <1>0, <1>8 DEF UISetCredentials, Pages
  <2>2. rfb.resumes + 1 \in 0 .. MaxResumes
    BY <1>0, <1>8 DEF UISetCredentials, Session
  <2>3. /\ Parts \subseteq DOMAIN rfb' /\ rfb'.conn = rfb.conn /\ rfb'.rects = rfb.rects
        /\ rfb'.resumes = rfb.resumes + 1
    BY <1>0, <1>8 DEF UISetCredentials, Session, Parts
  <2> QED
    BY <1>0, <1>8, <2>1, <2>2, <2>3, StaysTyped DEF UISetCredentials, Session
<1>9. CASE ClipboardPasteFrom
  <2>1. ui' \in Pages
    BY <1>0, <1>5, <1>9 DEF ClipboardPasteFrom, UserOp, Pages
  <2>2. Parts \subseteq DOMAIN rfb' /\ rfb'.conn = rfb.conn /\ rfb'.rects = rfb.rects /\ rfb'.resumes = rfb.resumes
    BY <1>0, <1>9 DEF ClipboardPasteFrom, Session, Parts
  <2> QED
    BY <1>0, <1>9, <2>1, <2>2, StaysTyped DEF ClipboardPasteFrom, Session
<1>10. CASE UpdateViewOnly
  <2>1. ui' \in Pages
    BY <1>0, <1>5, <1>10 DEF UpdateViewOnly, Pages
  <2>2. Parts \subseteq DOMAIN rfb' /\ rfb'.conn = rfb.conn /\ rfb'.rects = rfb.rects /\ rfb'.resumes = rfb.resumes
    BY <1>0, <1>10 DEF UpdateViewOnly, Session, Parts
  <2> QED
    BY <1>0, <1>10, <2>1, <2>2, StaysTyped DEF UpdateViewOnly, Session
<1> QED
  BY <1>3, <1>4, <1>6, <1>7, <1>8, <1>9, <1>10 DEF Page

\* A handler of the handshake writes what has no type here, ends the session
\* or completes the connection.
Plain == /\ ws' = ws /\ DOMAIN rfb' = DOMAIN rfb /\ rfb'.conn = rfb.conn
         /\ rfb'.resumes = rfb.resumes /\ rfb'.rects = rfb.rects
         /\ ui' = ui \/ (ui.rfb /\ ui' = [ui EXCEPT !.dialog = TRUE])

\* Every handler of the handshake is plain, fails the session or completes the connection.
LEMMA HandshakeWrites ==
    ASSUME Session(rfb), turn \in Turns, Handshake
    PROVE  /\ turn' \in Turns
           /\ \/ Plain
              \/ \E k : Becomes(Failed([Conn EXCEPT !.rfb = At(k)]))
              \/ Becomes(ToConnected([Conn EXCEPT !.rfb = At("serverinit")]))
<1> DEFINE Goal == /\ turn' \in Turns
                   /\ \/ Plain
                      \/ \E k : Becomes(Failed([Conn EXCEPT !.rfb = At(k)]))
                      \/ Becomes(ToConnected([Conn EXCEPT !.rfb = At("serverinit")]))
<1>0. /\ \A a, b, c : WaitsFor(a, b, c) => turn' \in Turns /\ Plain
      /\ AskCredentials => turn' \in Turns /\ Plain
  BY DEF WaitsFor, AskCredentials, Plain, Ends, Turns
<1>1. Ends => turn' \in Turns
  BY DEF Ends, Turns
<1>2. GoesOn => turn' \in Turns
  BY DEF GoesOn, Turns
<1>3. /\ Parts \subseteq DOMAIN rfb
      /\ \A k : /\ DOMAIN At(k) = DOMAIN rfb /\ At(k).conn = rfb.conn
                /\ At(k).resumes = rfb.resumes /\ At(k).rects = rfb.rects
  BY AtTyped DEF Session, Parts
<1> HIDE DEF Goal
<1>4. CASE NegotiateProtocolVersion
  BY <1>0, <1>1, <1>2, <1>3, <1>4 DEF NegotiateProtocolVersion, Authenticated, Plain, Parts, Goal
<1>5. CASE NegotiateSecurity
  <2>1. CASE WaitsFor(1, IF Peek(1).x = <<>> THEN 0 ELSE 1, 1)
    BY <1>0, <2>1 DEF Goal
  <2>2. CASE GoesOn /\ ws' = ws /\ ui' = ui /\ \E s, t : rfb' = [At("types") EXCEPT !.scheme = s, !.init = t]
    BY <1>2, <1>3, <2>2 DEF Goal, Plain
  <2>3. CASE GoesOn /\ ws' = ws /\ ui' = ui /\ rfb' = [At("types") EXCEPT !.init = "SecurityReason"]
    BY <1>2, <1>3, <2>3 DEF Goal, Plain
  <2>4. CASE Ends /\ Becomes(Failed([Conn EXCEPT !.rfb = At("types")]))
    BY <1>1, <2>4 DEF Goal
  <2> QED
    BY <1>5, <2>1, <2>2, <2>3, <2>4 DEF NegotiateSecurity
<1>6. CASE NoAuth
  BY <1>0, <1>1, <1>2, <1>3, <1>6 DEF NoAuth, Authenticated, Plain, Parts, Goal
<1>7. CASE NegotiateStdVNCAuth
  BY <1>0, <1>1, <1>2, <1>3, <1>7 DEF NegotiateStdVNCAuth, Authenticated, Plain, Parts, Goal
<1>8. CASE NegotiatePlainAuth
  BY <1>0, <1>1, <1>2, <1>3, <1>8 DEF NegotiatePlainAuth, Authenticated, Plain, Parts, Goal
<1>9. CASE NegotiateXvpAuth
  BY <1>0, <1>1, <1>2, <1>3, <1>9 DEF NegotiateXvpAuth, Authenticated, Plain, Parts, Goal
<1>10. CASE NegotiateVeNCryptAuth
  BY <1>0, <1>1, <1>2, <1>3, <1>10 DEF NegotiateVeNCryptAuth, Authenticated, Plain, Parts, Goal
<1>11. CASE NegotiateTightAuth
  BY <1>0, <1>1, <1>2, <1>3, <1>11 DEF NegotiateTightAuth, Authenticated, Plain, Parts, Goal
<1>12. CASE NegotiateARDAuth
  <2>1. CASE AskCredentials \/ WaitsFor(0, 1, 0) \/ WaitsFor(1, 1, 1)
    BY <1>0, <2>1 DEF Goal
  <2>2. CASE Authenticated([rfb EXCEPT !.ard = "idle"], <<"response">>) /\ ui' = ui /\ ws' = ws
    BY <1>2, <1>3, <2>2 DEF Authenticated, Plain, Parts, Goal
  <2>3. CASE Ends /\ rfb' = [At("dh") EXCEPT !.ard = "computing"] /\ ui' = ui /\ ws' = ws
    BY <1>1, <1>3, <2>3 DEF Plain, Parts, Goal
  <2> QED
    BY <1>12, <2>1, <2>2, <2>3 DEF NegotiateARDAuth
<1>13. CASE HandleSecurityResult
  BY <1>0, <1>1, <1>2, <1>3, <1>13 DEF HandleSecurityResult, Authenticated, Plain, Parts, Goal
<1>14. CASE HandleSecurityReason
  BY <1>0, <1>1, <1>14 DEF HandleSecurityReason, Goal
<1>15. CASE ClientInitialisation
  BY <1>0, <1>1, <1>2, <1>3, <1>15 DEF ClientInitialisation, Authenticated, Plain, Parts, Goal
<1>16. CASE NegotiateServerInit
  BY <1>0, <1>1, <1>16 DEF NegotiateServerInit, Goal
<1> QED
  BY <1>4, <1>5, <1>6, <1>7, <1>8, <1>9, <1>10, <1>11, <1>12, <1>13, <1>14, <1>15, <1>16 DEF Handshake, Goal

\* The handlers of the handshake keep the types.
LEMMA HandshakeTyped ==
    ASSUME Typed(ui, rfb, ws, turn), scope' = scope, Handshake
    PROVE  Typed(ui, rfb, ws, turn)'
<1>0. ui \in Pages /\ ws \in Channels /\ turn \in Turns /\ Session(rfb)
  BY DEF Typed
<1>1. turn' \in Turns
  BY <1>0, HandshakeWrites
<1>2. CASE Plain
  <2>1. ui' \in Pages
    BY <1>0, <1>2 DEF Plain, Pages
  <2> QED
    BY <1>0, <1>1, <1>2, <2>1, StaysTyped DEF Plain, Session
<1>3. ASSUME NEW k, Becomes(Failed([Conn EXCEPT !.rfb = At(k)])) PROVE Typed(ui, rfb, ws, turn)'
  <2>1. [Conn EXCEPT !.rfb = At(k)] = [ui |-> ui, rfb |-> At(k), ws |-> ws]
    BY DEF Conn
  <2> QED
    BY <1>0, <1>1, <1>3, <2>1, AtTyped, FailsTyped
<1>4. CASE Becomes(ToConnected([Conn EXCEPT !.rfb = At("serverinit")]))
  <2>1. [Conn EXCEPT !.rfb = At("serverinit")] = [ui |-> ui, rfb |-> At("serverinit"), ws |-> ws]
    BY DEF Conn
  <2>2. Session(At("serverinit"))
    BY <1>0, AtTyped
  <2>3. PICK u2, r2 : /\ ToConnected([ui |-> ui, rfb |-> At("serverinit"), ws |-> ws])
                             = [ui |-> u2, rfb |-> r2, ws |-> ws]
                      /\ Typed(u2, r2, ws, turn')
    BY <1>0, <1>1, <2>2, ChangesTyped
  <2>4. ui' = u2 /\ rfb' = r2 /\ ws' = ws
    BY <1>4, <2>1, <2>3 DEF Becomes
  <2>5. Pages' = Pages /\ Channels' = Channels /\ Turns' = Turns
    BY DEF Pages, Channels, Turns
  <2> QED
    BY <2>3, <2>4, <2>5 DEF Typed, Session
<1> QED
  BY <1>0, <1>2, <1>3, <1>4, HandshakeWrites

\* What is stored is of the type of a unit.
LEMMA PeekTyped ==
    ASSUME Sound(buf), NEW i \in Nat \ {0}, i <= RQlen(buf)
    PROVE  Peek(i) \in Units0 /\ Len(Peek(i).x) \in Nat
<1>1. buf.rQi + i \in 1 .. Len(buf.q) /\ buf.q \in Seq(Units0)
  BY SoundParts DEF RQlen
<1>2. Peek(i) \in Units0
  BY <1>1 DEF Peek
<1>3. Peek(i).x \in Seq(Details)
  BY <1>2 DEF Units0
<1> QED
  BY <1>2, <1>3

\* The handlers of the messages keep the types.
LEMMA MessagesTyped ==
    ASSUME Typed(ui, rfb, ws, turn), scope' = scope, Sound(buf), NormalMsg
    PROVE  Typed(ui, rfb, ws, turn)'
<1>0. /\ ui \in Pages /\ ws \in Channels /\ turn \in Turns /\ Session(rfb) /\ Pages' = Pages
      /\ Parts \subseteq DOMAIN rfb /\ rfb.resumes \in 0 .. MaxResumes /\ rfb.rects \in Nat
  BY DEF Typed, Session, Pages
<1>1. Stops => turn' \in Turns
  BY DEF Stops, Turns
<1>2. \A k : /\ DOMAIN At(k) = DOMAIN rfb /\ At(k).conn = rfb.conn /\ At(k).update = rfb.update
             /\ At(k).resumes = rfb.resumes /\ At(k).rects = rfb.rects
  BY <1>0, AtTyped DEF Parts
<1>3. ASSUME ui' = ui, ws' = ws, turn' \in Turns, DOMAIN rfb' = DOMAIN rfb, rfb'.conn = rfb.conn,
             rfb'.resumes = rfb.resumes, rfb'.rects \in Nat
      PROVE  Typed(ui, rfb, ws, turn)'
  BY <1>0, <1>3, StaysTyped
<1>4. ASSUME ui' = ui, ws' = ws, turn' \in Turns, rfb' = rfb
      PROVE  Typed(ui, rfb, ws, turn)'
  BY <1>0, <1>3, <1>4
<1>5. CASE NormalTurnEnds
  BY <1>1, <1>4, <1>5 DEF NormalTurnEnds
<1>6. CASE UpdateHeader
  <2>1. CASE rfb' = rfb
    BY <1>0, <1>1, <1>4, <1>6, <2>1 DEF UpdateHeader
  <2> DEFINE n == Len(Peek(2).x)
             r == [At("update") EXCEPT !.rects = n, !.update = @ + 1]
  <2>2. CASE rfb' # rfb
    <3>1. 2 <= RQlen(buf) /\ turn' \in Turns /\ ui' = ui /\ ws' = ws
      BY <1>0, <1>1, <1>6, <2>2, SoundParts DEF UpdateHeader, Reads
    <3>2. n \in Nat
      BY <3>1, PeekTyped
    <3>3. rfb' = r \/ rfb' = [r EXCEPT !.flushing = TRUE]
      BY <1>6, <2>2 DEF UpdateHeader
    <3> HIDE DEF n
    <3>4. DOMAIN rfb' = DOMAIN rfb /\ rfb'.conn = rfb.conn /\ rfb'.resumes = rfb.resumes /\ rfb'.rects = n
      <4>1. {"conn", "resumes", "rects", "update", "flushing"} \subseteq DOMAIN At("update")
        BY <1>0, <1>2 DEF Parts
      <4>2. DOMAIN r = DOMAIN rfb /\ r.conn = rfb.conn /\ r.resumes = rfb.resumes /\ r.rects = n
        BY <1>2, <4>1
      <4>3. {"conn", "resumes", "rects", "update", "flushing"} \subseteq DOMAIN r
        BY <1>2, <4>1, <4>2
      <4> HIDE DEF r
      <4> QED
        BY <3>3, <4>2, <4>3
    <3> QED
      BY <1>3, <3>1, <3>2, <3>4
  <2> QED
    BY <2>1, <2>2
<1>7. CASE UpdateRect
  <2> DEFINE head == IF rfb.encoding = "" THEN 1 ELSE 0
             enc == IF head = 1 THEN Peek(1).x[1] ELSE rfb.encoding
             s == IF head = 1 THEN At("rect") ELSE rfb
  <2>1. /\ ui' = ui /\ ws' = ws /\ turn' \in Turns /\ rfb.rects > 0
        /\ rfb' = [s EXCEPT !.encoding = enc] \/ RectDone(s, enc)
    BY <1>0, <1>1, <1>7 DEF UpdateRect
  <2>2. /\ DOMAIN s = DOMAIN rfb /\ s.conn = rfb.conn
        /\ s.resumes = rfb.resumes /\ s.rects = rfb.rects
    BY <1>2
  <2> HIDE DEF s, enc
  <2>3. CASE rfb' = [s EXCEPT !.encoding = enc]
    <3>1. DOMAIN rfb' = DOMAIN rfb /\ rfb'.conn = rfb.conn /\ rfb'.resumes = rfb.resumes /\ rfb'.rects = rfb.rects
      BY <1>0, <2>2, <2>3 DEF Parts
    <3> QED
      BY <1>0, <1>3, <2>1, <3>1
  <2>4. CASE RectDone(s, enc)
    <3> DEFINE left == IF enc = "last" THEN 0 ELSE s.rects - 1
    <3>1. left \in Nat
      BY <1>0, <2>1, <2>2
    <3>2. \E b : rfb' = [s EXCEPT !.rects = left, !.encoding = "", !.resizable = b]
      BY <2>4 DEF RectDone
    <3> HIDE DEF left
    <3>3. DOMAIN rfb' = DOMAIN rfb /\ rfb'.conn = rfb.conn /\ rfb'.resumes = rfb.resumes /\ rfb'.rects = left
      BY <1>0, <2>2, <3>2 DEF Parts
    <3> QED
      BY <1>3, <2>1, <3>1, <3>3
  <2> QED
    BY <2>1, <2>3, <2>4
<1>8. CASE MessageIncomplete
  BY <1>1, <1>4, <1>8 DEF MessageIncomplete
<1>9. ASSUME NEW k, NEW n, NEW msgs, NEW r, Handled(k, n, r, msgs), DOMAIN r = DOMAIN rfb, r.conn = rfb.conn,
             r.resumes = rfb.resumes, r.rects = rfb.rects
      PROVE  Typed(ui, rfb, ws, turn)'
  <2>1. ui' = ui /\ ws' = ws /\ turn' = turn /\ rfb' = r
    BY <1>9 DEF Handled
  <2> QED
    BY <1>0, <1>3, <1>9, <2>1
<1>10. CASE Bell \/ Xvp \/ ServerFence
  BY <1>9, <1>10 DEF Bell, Xvp, ServerFence
<1>11. CASE EndOfContinuousUpdates
  BY <1>0, <1>9, <1>11 DEF EndOfContinuousUpdates, Parts
<1>12. CASE ServerCutText
  BY <1>0, <1>9, <1>12 DEF ServerCutText, Parts
<1>13. CASE ExtendedClipboard
  <2>1. CASE \E k, n, msgs : Handled(k, n, rfb, msgs)
    BY <1>9, <2>1
  <2>2. CASE Handled("provide", 4, [rfb EXCEPT !.clipText = FALSE], <<>>)
    BY <1>0, <1>9, <2>2 DEF Parts
  <2> QED
    BY <1>13, <2>1, <2>2 DEF ExtendedClipboard
<1>14. CASE SetColourMap
  <2>1. Becomes(Failed([ui |-> ui, rfb |-> rfb, ws |-> ws])) /\ turn' \in Turns
    BY <1>1, <1>14 DEF SetColourMap, Conn
  <2> QED
    BY <1>0, <2>1, FailsTyped
<1>15. CASE UnexpectedMessage
  <2>1. [Conn EXCEPT !.rfb = At("other")] = [ui |-> ui, rfb |-> At("other"), ws |-> ws]
    BY DEF Conn
  <2>2. Becomes(Failed([ui |-> ui, rfb |-> At("other"), ws |-> ws])) /\ turn' \in Turns
    BY <1>0, <1>15, <2>1 DEF UnexpectedMessage
  <2> QED
    BY <1>0, <2>2, AtTyped, FailsTyped
<1> QED
  BY <1>5, <1>6, <1>7, <1>8, <1>10, <1>11, <1>12, <1>13, <1>14, <1>15 DEF NormalMsg

\* The channel's events keep the types.
LEMMA ChannelTyped ==
    ASSUME Typed(ui, rfb, ws, turn), scope' = scope, Channel
    PROVE  Typed(ui, rfb, ws, turn)'
<1>0. /\ ui \in Pages /\ ws \in Channels /\ turn \in Turns /\ Session(rfb)
      /\ Pages' = Pages /\ Channels' = Channels /\ Turns' = Turns
  BY DEF Typed, Pages, Channels, Turns
<1>1. CASE SocketOpens
  <2>1. ws' \in Channels
    BY <1>0, <1>1 DEF SocketOpens, Channels
  <2>2. Session(rfb')
    BY <1>0, <1>1 DEF SocketOpens, Session, Parts
  <2> QED
    BY <1>0, <1>1, <2>1, <2>2 DEF SocketOpens, Typed, Session
<1>2. CASE SocketCloses
  <2> DEFINE w == [ws EXCEPT !.ready = "closed"]
             c == [ui |-> ui, rfb |-> rfb, ws |-> w]
             after == CASE rfb.conn = "disconnecting" -> ToDisconnected(c)
                        [] rfb.conn \in {"connecting", "connected"} -> Failed(c)
                        [] OTHER -> c
  <2>1. w \in Channels
    BY <1>0 DEF Channels
  <2> HIDE DEF w
  <2>2. PICK u2, r2, w2 : after = [ui |-> u2, rfb |-> r2, ws |-> w2] /\ Typed(u2, r2, w2, turn)
    <3>1. CASE rfb.conn = "disconnecting"
      <4>1. after = ToDisconnected(c)
        BY <3>1
      <4> HIDE DEF after
      <4>2. \E u2, r2, w2 : ToDisconnected(c) = [ui |-> u2, rfb |-> r2, ws |-> w2] /\ Typed(u2, r2, w2, turn)
        BY <1>0, <2>1, ChangesTyped
      <4> QED
        BY <4>1, <4>2
    <3>2. CASE rfb.conn \in {"connecting", "connected"}
      <4>1. after = Failed(c)
        BY <3>2
      <4> HIDE DEF after
      <4> QED
        BY <1>0, <2>1, <4>1, FailedTyped
    <3>3. CASE rfb.conn \notin {"connecting", "connected", "disconnecting"}
      BY <1>0, <2>1, <3>3 DEF Typed
    <3> QED
      BY <3>1, <3>2, <3>3
  <2>3. [Conn EXCEPT !.ws.ready = "closed"] = c
    BY DEF Conn, w
  <2>4. Becomes(IF ws.close THEN [after EXCEPT !.ws.close = FALSE] ELSE c) /\ turn' = turn
    BY <1>2, <2>3 DEF SocketCloses
  <2> HIDE DEF after
  <2>5. CASE ws.close
    <3>1. ui' = u2 /\ rfb' = r2 /\ ws' = [w2 EXCEPT !.close = FALSE]
      BY <2>2, <2>4, <2>5 DEF Becomes
    <3>2. u2 \in Pages /\ Session(r2) /\ w2 \in Channels
      BY <2>2 DEF Typed
    <3>3. [w2 EXCEPT !.close = FALSE] \in Channels
      BY <3>2 DEF Channels
    <3> QED
      BY <1>0, <2>4, <3>1, <3>2, <3>3 DEF Typed, Session
  <2>6. CASE ~ ws.close
    <3>1. ui' = ui /\ rfb' = rfb /\ ws' = w
      BY <2>4, <2>6 DEF Becomes
    <3> QED
      BY <1>0, <2>1, <2>4, <3>1 DEF Typed, Session
  <2> QED
    BY <2>5, <2>6
<1>3. CASE ReceiveMessage
  <2>1. turn' \in Turns
    BY <1>0, <1>3 DEF ReceiveMessage, Turns
  <2> QED
    BY <1>0, <1>3, <2>1 DEF ReceiveMessage, Typed, Session
<1> QED
  BY <1>1, <1>2, <1>3 DEF Channel

\* The timers, and what is computed behind the page, keep the types.
LEMMA TimersTyped ==
    ASSUME Typed(ui, rfb, ws, turn), scope \in Scopes, scope' = scope, Timers
    PROVE  Typed(ui, rfb, ws, turn)'
<1>0. /\ ui \in Pages /\ ws \in Channels /\ turn \in Turns /\ Session(rfb) /\ MaxResumes \in Nat
      /\ Pages' = Pages /\ Channels' = Channels /\ Turns' = Turns
      /\ Parts \subseteq DOMAIN rfb /\ rfb.resumes \in 0 .. MaxResumes /\ rfb.rects \in Nat
  BY ScopeIs DEF Typed, Session, Pages, Channels, Turns
<1>1. CASE DisconnectTimesOut
  <2>1. PICK u2, r2, w2 : ToDisconnected(Conn) = [ui |-> u2, rfb |-> r2, ws |-> w2] /\ Typed(u2, r2, w2, turn)
    BY <1>0, ChangesTyped DEF Conn
  <2>2. ui' = u2 /\ rfb' = r2 /\ ws' = w2 /\ turn' = turn
    BY <1>1, <2>1 DEF DisconnectTimesOut, Becomes
  <2> QED
    BY <1>0, <2>1, <2>2 DEF Typed, Session
<1>2. CASE ResumeAuthentication
  <2>1. rfb.resumes - 1 \in 0 .. MaxResumes
    BY <1>0, <1>2 DEF ResumeAuthentication
  <2>2. /\ DOMAIN rfb' = DOMAIN rfb /\ rfb'.conn = rfb.conn
        /\ rfb'.resumes = rfb.resumes - 1 /\ rfb'.rects = rfb.rects
    BY <1>0, <1>2 DEF ResumeAuthentication, Parts
  <2>3. turn' \in Turns /\ ui' = ui /\ ws' = ws
    BY <1>2 DEF ResumeAuthentication, Turns
  <2> QED
    BY <1>0, <2>1, <2>2, <2>3, StaysTyped
<1>3. CASE ArdComputed
  <2>1. rfb.resumes + 1 \in 0 .. MaxResumes
    BY <1>0, <1>3 DEF ArdComputed
  <2>2. /\ DOMAIN rfb' = DOMAIN rfb /\ rfb'.conn = rfb.conn
        /\ rfb'.resumes = rfb.resumes + 1 /\ rfb'.rects = rfb.rects
    BY <1>0, <1>3 DEF ArdComputed, Parts
  <2>3. turn' \in Turns /\ ui' = ui /\ ws' = ws
    BY <1>0, <1>3 DEF ArdComputed
  <2> QED
    BY <1>0, <2>1, <2>2, <2>3, StaysTyped
<1>4. CASE ImageLoads
  <2>1. /\ ui' = ui /\ ws' = ws /\ turn' \in Turns
        /\ rfb' = rfb \/ rfb' = [rfb EXCEPT !.flushing = FALSE]
    BY <1>0, <1>4 DEF ImageLoads, AfterFlush, Turns
  <2>2. /\ DOMAIN rfb' = DOMAIN rfb /\ rfb'.conn = rfb.conn
        /\ rfb'.resumes = rfb.resumes /\ rfb'.rects = rfb.rects
    BY <1>0, <2>1 DEF Parts
  <2> QED
    BY <1>0, <2>1, <2>2, StaysTyped
<1> QED
  BY <1>1, <1>2, <1>3, <1>4 DEF Timers

\* Every step keeps the types.
LEMMA NextTyped ==
    ASSUME Typed(ui, rfb, ws, turn), Sound(buf), scope \in Scopes, [Next]_vars
    PROVE  Typed(ui, rfb, ws, turn)'
<1>0. scope' = scope
  BY DEF Next, vars
<1>1. CASE ui' = ui /\ rfb' = rfb /\ ws' = ws /\ turn' \in Turns
  BY <1>0, <1>1 DEF Typed, Session, Pages, Channels, Turns
<1>2. CASE ReceiveEnds \/ Server \/ UNCHANGED vars
  <2>1. turn \in Turns
    BY DEF Typed
  <2>2. ui' = ui /\ rfb' = rfb /\ ws' = ws /\ turn' \in Turns
    BY <1>2, <2>1 DEF ReceiveEnds, Server, ServerHandshake, ServerReads, ServerUpdates, ServerChatters, Sends, vars, Turns
  <2> QED
    BY <1>1, <2>2
<1> QED
  BY <1>0, <1>2, PageTyped, HandshakeTyped, MessagesTyped, ChannelTyped, TimersTyped DEF Next, Client

\* A page starts with the types.
LEMMA InitTyped == Init => Typed(ui, rfb, ws, turn)
<1> SUFFICES ASSUME Init PROVE Typed(ui, rfb, ws, turn)
  OBVIOUS
<1>0. scope \in Scopes /\ scope.sessions \in Nat /\ scope.ops \in Nat /\ MaxResumes \in Nat
  BY ScopeIs DEF Init
<1>1. ui \in Pages
  BY <1>0 DEF Init, Pages
<1>2. ws \in Channels /\ turn \in Turns
  BY DEF Init, Channels, Turns
<1>3. Parts \subseteq DOMAIN rfb
  BY DEF Init, NewRfb, Parts
<1>4. rfb.conn = "disconnected" /\ rfb.resumes = 0 /\ rfb.rects = 0
  BY DEF Init, NewRfb
<1> QED
  BY <1>0, <1>1, <1>2, <1>3, <1>4 DEF Typed, Session, States

\* The page, the session, the channel and the handler always have their types
\* (ui.js, rfb.js and websock.js), and no more sessions, operations or resumed
\* handshakes are counted than the scope has.
THEOREM ViewerIsTyped == Spec => []TypeOK
<1> DEFINE Inv == /\ Typed(ui, rfb, ws, turn) /\ Streams(buf, wire, srv) /\ scope \in Scopes
                  /\ Connection(ui, rfb) /\ Ordered(disp)
<1>1. Init => Inv
  <2>1. "wants" \in DOMAIN NewServer /\ NewServer.wants \subseteq DOMAIN Body
    BY DEF NewServer
  <2>2. Init => Streams(buf, wire, srv) /\ scope \in Scopes
    BY <2>1, EmptySound, EmptySeq DEF Init, Streams
  <2>3. Init => Ordered(disp)
    BY BlankOrdered DEF Init
  <2> QED
    BY <2>2, <2>3, InitTyped, InitConnection
<1>2. Inv /\ [Next]_vars => Inv'
  <2>1. [Next]_vars => scope' = scope
    BY DEF Next, vars
  <2>2. Streams(buf, wire, srv) => Sound(buf)
    BY DEF Streams
  <2> QED
    BY <2>1, <2>2, NextTyped, NextStreams, NextKeeps, NextDraws DEF Kept
<1>3. Inv => TypeOK
  BY DEF Typed, Session, Pages, Channels, Turns, States, Streams, Sound, Ordered, TypeOK
<1> QED
  BY <1>1, <1>2, <1>3, PTL DEF Spec

-----------------------------------------------------------------------------
(* What follows in the stream.                                             *)

\* A sequence without its first n elements.
Drop(S, n) == SubSeq(S, n + 1, Len(S))

\* S is the beginning of T, as far as it has come.
Beginning(S, T) == Len(S) <= Len(T) /\ \A i \in 1 .. Len(S) : S[i] = T[i]

\* S begins with R, as far as it goes.
Follows(S, R) == \A i \in 1 .. Len(R) : i <= Len(S) => S[i] = R[i]

Lists == UNION {s.updates : s \in Scopes}

Update(list) == <<U("update", 1, <<>>), U("update", 2, list)>> \o Rects(list)

Messages == {Units(k) : k \in DOMAIN Body} \cup {Update(list) : list \in Lists}

\* A message of the server begins at each place of B.
Starts(S, B) ==
    \A p \in B : p <= Len(S) =>
        \E m \in Messages :
            /\ p + Len(m) \in B
            /\ \A j \in 1 .. Len(m) : p + j - 1 <= Len(S) => S[p + j - 1] = m[j]

\* After n units come messages, the last of which is complete if the stream is
\* whole.
Flow(S, n, whole) ==
    \E B \in SUBSET Nat :
        /\ n + 1 \in B /\ Starts(S, B)
        /\ whole => Len(S) + 1 \in B /\ \A p \in B : p <= Len(S) + 1

\* What Drop leaves.
LEMMA DropIs ==
    ASSUME NEW X, NEW S \in Seq(X), NEW n \in Nat, n <= Len(S)
    PROVE  /\ Drop(S, n) \in Seq(X) /\ Len(Drop(S, n)) = Len(S) - n /\ Len(S) - n \in Nat
           /\ \A i \in 1 .. Len(S) - n : Drop(S, n)[i] = S[n + i]
<1>1. Len(S) \in Nat
  OBVIOUS
<1> QED
  BY <1>1 DEF Drop

\* What a concatenation holds.
LEMMA ConcatIs ==
    ASSUME NEW X, NEW S \in Seq(X), NEW T \in Seq(X)
    PROVE  /\ S \o T \in Seq(X) /\ Len(S \o T) = Len(S) + Len(T)
           /\ Len(S) \in Nat /\ Len(T) \in Nat
           /\ \A i \in 1 .. Len(S) : (S \o T)[i] = S[i]
           /\ \A i \in 1 .. Len(T) : (S \o T)[Len(S) + i] = T[i]
<1>1. S \o T \in Seq(X) /\ Len(S \o T) = Len(S) + Len(T) /\ Len(S) \in Nat /\ Len(T) \in Nat
  BY ConcatProperties
<1>2. \A i \in 1 .. Len(S) : (S \o T)[i] = S[i]
  OBVIOUS
<1>3. ASSUME NEW i \in 1 .. Len(T) PROVE (S \o T)[Len(S) + i] = T[i]
  <2>1. Len(S) + i \in 1 .. Len(S) + Len(T) /\ Len(S) + i > Len(S) /\ (Len(S) + i) - Len(S) = i
    BY <1>1
  <2> QED
    BY <1>1, <2>1
<1> QED
  BY <1>1, <1>2, <1>3

\* The beginning of a stream without its first n units begins the rest of it.
LEMMA BeginningDrop ==
    ASSUME NEW X, NEW S \in Seq(X), NEW T \in Seq(X), Beginning(S, T), NEW n \in Nat, n <= Len(S)
    PROVE  Beginning(Drop(S, n), Drop(T, n))
<1>1. Len(S) \in Nat /\ Len(T) \in Nat /\ Len(S) <= Len(T) /\ n <= Len(T)
      /\ \A i \in 1 .. Len(S) : S[i] = T[i]
  BY DEF Beginning
<1>2. /\ Len(Drop(S, n)) = Len(S) - n /\ \A i \in 1 .. Len(S) - n : Drop(S, n)[i] = S[n + i]
      /\ Len(Drop(T, n)) = Len(T) - n /\ \A i \in 1 .. Len(T) - n : Drop(T, n)[i] = T[n + i]
  <2>1. Len(Drop(S, n)) = Len(S) - n /\ \A i \in 1 .. Len(S) - n : Drop(S, n)[i] = S[n + i]
    BY DropIs
  <2>2. Len(Drop(T, n)) = Len(T) - n /\ \A i \in 1 .. Len(T) - n : Drop(T, n)[i] = T[n + i]
    BY <1>1, DropIs
  <2> QED
    BY <2>1, <2>2
<1>3. ASSUME NEW i \in 1 .. Len(S) - n PROVE Drop(S, n)[i] = Drop(T, n)[i]
  <2>1. i \in 1 .. Len(T) - n /\ n + i \in 1 .. Len(S)
    BY <1>1
  <2> QED
    BY <1>1, <1>2, <2>1
<1> QED
  BY <1>1, <1>2, <1>3 DEF Beginning

\* A sequence is the beginning of what it is concatenated to.
LEMMA BeginningConcat ==
    ASSUME NEW X, NEW S \in Seq(X), NEW T \in Seq(X)
    PROVE  Beginning(S, S \o T)
<1>1. Len(S) \in Nat /\ Len(T) \in Nat /\ Len(S \o T) = Len(S) + Len(T)
      /\ \A i \in 1 .. Len(S) : (S \o T)[i] = S[i]
  OBVIOUS
<1> QED
  BY <1>1 DEF Beginning

\* What follows R without its first n units follows the rest of R.
LEMMA FollowsDrop ==
    ASSUME NEW X, NEW S \in Seq(X), NEW R \in Seq(X), Follows(S, R),
           NEW n \in Nat, n <= Len(S), n <= Len(R)
    PROVE  Follows(Drop(S, n), Drop(R, n))
<1>1. Len(S) \in Nat /\ Len(R) \in Nat /\ \A i \in 1 .. Len(R) : i <= Len(S) => S[i] = R[i]
  BY DEF Follows
<1>2. /\ Len(Drop(S, n)) = Len(S) - n /\ \A i \in 1 .. Len(S) - n : Drop(S, n)[i] = S[n + i]
      /\ Len(Drop(R, n)) = Len(R) - n /\ \A i \in 1 .. Len(R) - n : Drop(R, n)[i] = R[n + i]
  BY DropIs
<1>3. ASSUME NEW i \in 1 .. Len(R) - n, i <= Len(S) - n PROVE Drop(S, n)[i] = Drop(R, n)[i]
  <2>1. i \in 1 .. Len(S) - n /\ n + i \in 1 .. Len(R) /\ n + i <= Len(S)
    BY <1>1, <1>3
  <2> QED
    BY <1>1, <1>2, <2>1
<1> QED
  BY <1>2, <1>3 DEF Follows

\* The beginning of what follows R follows R.
LEMMA FollowsBeginning ==
    ASSUME NEW X, NEW S \in Seq(X), NEW T \in Seq(X), NEW R \in Seq(X), Follows(T, R), Beginning(S, T)
    PROVE  Follows(S, R)
<1>1. Len(S) \in Nat /\ Len(R) \in Nat /\ Len(T) \in Nat
  OBVIOUS
<1> QED
  BY <1>1 DEF Follows, Beginning

\* What has come to the end of R follows it whatever comes next.
LEMMA FollowsConcat ==
    ASSUME NEW X, NEW S \in Seq(X), NEW T \in Seq(X), NEW R \in Seq(X), Follows(S, R), Len(R) <= Len(S)
    PROVE  Follows(S \o T, R)
<1>1. /\ Len(S) \in Nat /\ Len(T) \in Nat /\ Len(R) \in Nat /\ Len(S \o T) = Len(S) + Len(T)
      /\ \A i \in 1 .. Len(S) : (S \o T)[i] = S[i]
  OBVIOUS
<1> QED
  BY <1>1 DEF Follows

\* A message is a sequence of units, and not empty.
LEMMA BodyIs ==
    ASSUME NEW k \in DOMAIN Body
    PROVE  Body[k] \in Nat
<1>1. k \in {"bell", "endcu", "colourmap", "other", "xvp", "fence", "cut", "caps",
             "notify", "request", "peek", "provide"}
  BY DEF Body
<1>2. /\ Body["bell"] = 0 /\ Body["endcu"] = 0 /\ Body["colourmap"] = 0 /\ Body["other"] = 0
      /\ Body["xvp"] = 1 /\ Body["fence"] = 2 /\ Body["cut"] = 2 /\ Body["caps"] = 3
      /\ Body["notify"] = 2 /\ Body["request"] = 2 /\ Body["peek"] = 2 /\ Body["provide"] = 3
  BY DEF Body
<1> HIDE DEF Body
<1>3. Body[k] \in {0, 1, 2, 3}
  BY <1>1, <1>2, Zenon
<1> QED
  BY <1>3

\* The units of a message.
LEMMA UnitsAre ==
    ASSUME NEW k \in DOMAIN Body
    PROVE  /\ Units(k) \in Seq(Units0) /\ Len(Units(k)) = 1 + Body[k] /\ 1 + Body[k] \in Nat \ {0}
           /\ \A i \in 1 .. 1 + Body[k] : Units(k)[i] = U(k, i, <<>>)
<1>1. Body[k] \in Nat
  BY BodyIs
<1>2. 1 + Body[k] \in Nat \ {0}
  BY <1>1
<1> QED
  BY <1>2, UnitsTyped DEF Units

\* The rectangles of an update are encodings.
LEMMA ListsTyped ==
    ASSUME NEW list \in Lists
    PROVE  list \in Seq(Encodings) /\ list \in Seq(Details)
<1>1. list \in Seq(Encodings)
  BY ScopeAssumption DEF Lists
<1>2. Encodings \subseteq Details
  BY DEF Details
<1> QED
  BY <1>1, <1>2, SeqMonotonic

\* The units of an update.
LEMMA UpdateIs ==
    ASSUME NEW list \in Lists
    PROVE  /\ Update(list) \in Seq(Units0) /\ Len(Update(list)) = 2 + Len(Rects(list))
           /\ Rects(list) \in Seq(Units0)
           /\ Update(list)[1] = U("update", 1, <<>>) /\ Update(list)[2] = U("update", 2, list)
           /\ \A i \in 1 .. Len(Rects(list)) : Update(list)[2 + i] = Rects(list)[i]
<1> DEFINE head == <<U("update", 1, <<>>), U("update", 2, list)>>
           R == Rects(list)
<1>1. U("update", 1, <<>>) \in Units0 /\ U("update", 2, list) \in Units0
  BY HandshakeUnits, ListsTyped
<1>2. /\ head \in Seq(Units0) /\ Len(head) = 2
      /\ head[1] = U("update", 1, <<>>) /\ head[2] = U("update", 2, list)
  BY <1>1
<1>3. R \in Seq(Units0) /\ Len(R) \in Nat
  BY ListsTyped, RectsTyped
<1>4. Update(list) = head \o R
  BY DEF Update
<1> HIDE DEF head, R
<1>5. /\ head \o R \in Seq(Units0) /\ Len(head \o R) = 2 + Len(R)
      /\ (head \o R)[1] = head[1] /\ (head \o R)[2] = head[2]
      /\ \A i \in 1 .. Len(R) : (head \o R)[2 + i] = R[i]
  <2>1. /\ head \o R \in Seq(Units0) /\ Len(head \o R) = Len(head) + Len(R)
        /\ \A i \in 1 .. Len(head) : (head \o R)[i] = head[i]
        /\ \A i \in 1 .. Len(R) : (head \o R)[Len(head) + i] = R[i]
    <3>1. head \in Seq(Units0) /\ R \in Seq(Units0)
      BY <1>2, <1>3
    <3> QED
      BY <3>1, ConcatIs, SMT
  <2> QED
    BY <1>2, <2>1
<1> QED
  BY <1>2, <1>3, <1>4, <1>5 DEF R

\* A message is one unit or more.
LEMMA MessageIs ==
    ASSUME NEW m \in Messages
    PROVE  m \in Seq(Units0) /\ Len(m) \in Nat \ {0}
<1>1. CASE \E k \in DOMAIN Body : m = Units(k)
  BY <1>1, UnitsAre
<1>2. CASE \E list \in Lists : m = Update(list)
  <2>1. PICK list \in Lists : m = Update(list)
    BY <1>2
  <2>2. Len(Rects(list)) \in Nat
    BY UpdateIs
  <2> QED
    BY <2>1, <2>2, UpdateIs
<1> QED
  BY <1>1, <1>2 DEF Messages

\* Reading shortens what is left of the message at the front.
LEMMA FlowDrop ==
    ASSUME NEW S \in Seq(Units0), NEW o \in Nat, NEW whole, Flow(S, o, whole),
           NEW n \in Nat, n <= o, n <= Len(S)
    PROVE  Flow(Drop(S, n), o - n, whole)
<1>1. PICK B \in SUBSET Nat : /\ o + 1 \in B /\ Starts(S, B)
                              /\ whole => Len(S) + 1 \in B /\ \A p \in B : p <= Len(S) + 1
  BY DEF Flow
<1> DEFINE D == Drop(S, n)
           C == {p \in Nat : p >= 1 /\ p + n \in B}
<1>2. /\ D \in Seq(Units0) /\ Len(D) = Len(S) - n /\ Len(S) \in Nat
      /\ \A i \in 1 .. Len(S) - n : D[i] = S[n + i]
  BY DropIs
<1>3. (o - n) + 1 \in C
  BY <1>1
<1>4. ASSUME NEW p \in C, p <= Len(D)
      PROVE  \E m \in Messages : /\ p + Len(m) \in C
                                 /\ \A j \in 1 .. Len(m) : p + j - 1 <= Len(D) => D[p + j - 1] = m[j]
  <2>1. p \in Nat /\ p >= 1 /\ p + n \in B /\ p + n <= Len(S)
    BY <1>2, <1>4
  <2>2. PICK m \in Messages :
            /\ (p + n) + Len(m) \in B
            /\ \A j \in 1 .. Len(m) : (p + n) + j - 1 <= Len(S) => S[(p + n) + j - 1] = m[j]
    BY <1>1, <2>1 DEF Starts
  <2>3. Len(m) \in Nat
    BY MessageIs
  <2>4. p + Len(m) \in C
    <3>1. (p + Len(m)) + n = (p + n) + Len(m)
      BY <2>1, <2>3
    <3> QED
      BY <2>1, <2>2, <2>3, <3>1
  <2>5. ASSUME NEW j \in 1 .. Len(m), p + j - 1 <= Len(D) PROVE D[p + j - 1] = m[j]
    <3>1. /\ (p + n) + j - 1 = n + (p + j - 1) /\ (p + n) + j - 1 <= Len(S)
          /\ p + j - 1 \in 1 .. Len(S) - n
      BY <1>2, <2>1, <2>3, <2>5
    <3> QED
      BY <1>2, <2>2, <3>1
  <2> QED
    BY <2>4, <2>5
<1>5. whole => Len(D) + 1 \in C /\ \A p \in C : p <= Len(D) + 1
  BY <1>1, <1>2
<1> HIDE DEF C, D
<1>6. Starts(D, C)
  BY <1>4 DEF Starts
<1>7. C \in SUBSET Nat
  BY DEF C
<1> QED
  BY <1>3, <1>5, <1>6, <1>7 DEF Flow, D

\* Where no message is under way, one begins.
LEMMA FlowNext ==
    ASSUME NEW S \in Seq(Units0), NEW whole, Flow(S, 0, whole), Len(S) > 0
    PROVE  \E m \in Messages : Follows(S, m) /\ Flow(S, Len(m), whole) /\ (whole => Len(m) <= Len(S))
<1>1. PICK B \in SUBSET Nat : /\ 0 + 1 \in B /\ Starts(S, B)
                              /\ whole => Len(S) + 1 \in B /\ \A p \in B : p <= Len(S) + 1
  BY DEF Flow
<1>2. 1 \in B /\ 1 <= Len(S) /\ Len(S) \in Nat
  BY <1>1
<1>3. PICK m \in Messages : /\ 1 + Len(m) \in B
                            /\ \A j \in 1 .. Len(m) : 1 + j - 1 <= Len(S) => S[1 + j - 1] = m[j]
  BY <1>1, <1>2 DEF Starts
<1>4. Len(m) \in Nat
  BY MessageIs
<1>5. Follows(S, m)
  BY <1>3, <1>4 DEF Follows
<1>6. Len(m) + 1 \in B
  BY <1>3, <1>4
<1>7. Flow(S, Len(m), whole)
  BY <1>1, <1>6 DEF Flow
<1>8. whole => Len(m) <= Len(S)
  BY <1>1, <1>2, <1>4, <1>6
<1> QED
  BY <1>5, <1>7, <1>8

\* The beginning of a flow of messages is one, its last message perhaps cut.
LEMMA FlowCut ==
    ASSUME NEW S \in Seq(Units0), NEW T \in Seq(Units0), NEW o \in Nat, NEW whole,
           Flow(T, o, whole), Beginning(S, T)
    PROVE  Flow(S, o, FALSE)
<1>1. PICK B \in SUBSET Nat : o + 1 \in B /\ Starts(T, B)
  BY DEF Flow
<1>2. Len(S) \in Nat /\ Len(T) \in Nat /\ Len(S) <= Len(T) /\ \A i \in 1 .. Len(S) : S[i] = T[i]
  BY DEF Beginning
<1>3. \A p \in B : p \in Nat
  OBVIOUS
<1> DEFINE C == {p \in B : p >= 1}
<1>4. ASSUME NEW p \in C, p <= Len(S)
      PROVE  \E m \in Messages : /\ p + Len(m) \in C
                                 /\ \A j \in 1 .. Len(m) : p + j - 1 <= Len(S) => S[p + j - 1] = m[j]
  <2>1. p \in Nat /\ p >= 1 /\ p \in B /\ p <= Len(T)
    BY <1>2, <1>3, <1>4
  <2>2. PICK m \in Messages :
            /\ p + Len(m) \in B
            /\ \A j \in 1 .. Len(m) : p + j - 1 <= Len(T) => T[p + j - 1] = m[j]
    BY <1>1, <2>1 DEF Starts
  <2>3. Len(m) \in Nat
    BY MessageIs
  <2>4. p + Len(m) \in C
    BY <2>1, <2>2, <2>3
  <2>5. ASSUME NEW j \in 1 .. Len(m), p + j - 1 <= Len(S) PROVE S[p + j - 1] = m[j]
    <3>1. p + j - 1 \in 1 .. Len(S) /\ p + j - 1 <= Len(T)
      BY <1>2, <2>1, <2>3, <2>5
    <3> QED
      BY <1>2, <2>2, <3>1
  <2> QED
    BY <2>4, <2>5
<1>5. o + 1 \in C /\ C \in SUBSET Nat
  <2>1. o + 1 >= 1
    OBVIOUS
  <2> QED
    BY <1>1, <2>1
<1> HIDE DEF C
<1>6. Starts(S, C)
  BY <1>4 DEF Starts
<1> QED
  BY <1>5, <1>6 DEF Flow

\* Another message comes after all that has come.
LEMMA FlowGrow ==
    ASSUME NEW S \in Seq(Units0), NEW o \in Nat, Flow(S, o, TRUE), NEW m \in Messages
    PROVE  Flow(S \o m, o, TRUE) /\ o <= Len(S)
<1>1. PICK B \in SUBSET Nat : /\ o + 1 \in B /\ Starts(S, B)
                              /\ Len(S) + 1 \in B /\ \A p \in B : p <= Len(S) + 1
  BY DEF Flow
<1>2. m \in Seq(Units0) /\ Len(m) \in Nat \ {0} /\ Len(S) \in Nat
  BY MessageIs
<1> DEFINE T == S \o m
           C == {p \in B : p >= 1} \cup {Len(S) + 1 + Len(m)}
<1>3. /\ T \in Seq(Units0) /\ Len(T) = Len(S) + Len(m)
      /\ \A i \in 1 .. Len(S) : T[i] = S[i]
      /\ \A i \in 1 .. Len(m) : T[Len(S) + i] = m[i]
  BY <1>2
<1>4. ASSUME NEW p \in C, p <= Len(T)
      PROVE  \E k \in Messages : /\ p + Len(k) \in C
                                 /\ \A j \in 1 .. Len(k) : p + j - 1 <= Len(T) => T[p + j - 1] = k[j]
  <2>1. p \in B /\ p \in Nat /\ p >= 1 /\ p <= Len(S) + 1
    BY <1>1, <1>2, <1>3, <1>4
  <2>2. CASE p = Len(S) + 1
    <3>1. p + Len(m) \in C
      BY <2>2
    <3>2. ASSUME NEW j \in 1 .. Len(m) PROVE T[p + j - 1] = m[j]
      <4>1. p + j - 1 = Len(S) + j
        BY <1>2, <2>2
      <4> QED
        BY <1>3, <4>1
    <3> QED
      BY <3>1, <3>2
  <2>3. CASE p # Len(S) + 1
    <3>1. p <= Len(S)
      BY <1>2, <2>1, <2>3
    <3>2. PICK k \in Messages :
              /\ p + Len(k) \in B
              /\ \A j \in 1 .. Len(k) : p + j - 1 <= Len(S) => S[p + j - 1] = k[j]
      BY <1>1, <2>1, <3>1 DEF Starts
    <3>3. Len(k) \in Nat /\ p + Len(k) <= Len(S) + 1
      BY <1>1, <3>2, MessageIs
    <3>4. p + Len(k) \in C
      BY <2>1, <3>2, <3>3
    <3>5. ASSUME NEW j \in 1 .. Len(k) PROVE T[p + j - 1] = k[j]
      <4>1. p + j - 1 \in 1 .. Len(S)
        BY <1>2, <2>1, <3>3
      <4> QED
        BY <1>2, <1>3, <3>2, <4>1
    <3> QED
      BY <3>4, <3>5
  <2> QED
    BY <2>2, <2>3
<1>5. /\ o + 1 \in C /\ C \in SUBSET Nat /\ Len(T) + 1 \in C /\ \A p \in C : p <= Len(T) + 1
  <2>1. o + 1 >= 1 /\ Len(S) + 1 + Len(m) \in Nat /\ Len(T) + 1 = Len(S) + 1 + Len(m)
    BY <1>2, <1>3
  <2>2. o + 1 \in C /\ C \in SUBSET Nat /\ Len(T) + 1 \in C
    BY <1>1, <2>1
  <2>3. ASSUME NEW p \in C PROVE p <= Len(T) + 1
    <3>1. CASE p \in B
      <4>1. p \in Nat /\ p <= Len(S) + 1
        BY <1>1, <3>1
      <4> QED
        BY <1>2, <1>3, <4>1
    <3>2. CASE p \notin B
      BY <1>2, <2>1, <3>2
    <3> QED
      BY <3>1, <3>2
  <2> QED
    BY <2>2, <2>3
<1>6. o <= Len(S)
  BY <1>1, <1>2
<1> HIDE DEF C, T
<1>7. Starts(T, C)
  BY <1>4 DEF Starts
<1> QED
  BY <1>5, <1>6, <1>7 DEF Flow, T

-----------------------------------------------------------------------------
(* What is ahead of the client.                                            *)

\* The client reads what it is sent.
Live(r) == r.conn \in {"connecting", "connected"}

\* What has been received and not read, and what will still be received.
Ahead == Unread(buf) \o (IF Live(rfb) THEN wire ELSE <<>>)

\* What has been received and not read.
LEMMA UnreadIs ==
    ASSUME NEW b, Sound(b)
    PROVE  /\ Unread(b) \in Seq(Units0) /\ Len(Unread(b)) = RQlen(b) /\ RQlen(b) \in Nat
           /\ \A i \in 1 .. RQlen(b) : Unread(b)[i] = b.q[b.rQi + i]
<1>1. /\ b.q \in Seq(Units0) /\ b.rQi \in Nat /\ Len(b.q) \in Nat /\ b.rQi <= Len(b.q)
      /\ RQlen(b) = Len(b.q) - b.rQi /\ RQlen(b) \in Nat
  BY SoundParts DEF RQlen
<1>2. Unread(b) = Drop(b.q, b.rQi)
  BY DEF Unread, Drop
<1>3. /\ Drop(b.q, b.rQi) \in Seq(Units0) /\ Len(Drop(b.q, b.rQi)) = Len(b.q) - b.rQi
      /\ \A i \in 1 .. Len(b.q) - b.rQi : Drop(b.q, b.rQi)[i] = b.q[b.rQi + i]
  BY <1>1, DropIs
<1> QED
  BY <1>1, <1>2, <1>3

\* Reading takes the first units off.
LEMMA UnreadShift ==
    ASSUME NEW b, Sound(b), NEW n \in Nat, n <= RQlen(b)
    PROVE  Unread(Shift(b, n)) = Drop(Unread(b), n) /\ RQlen(Shift(b, n)) = RQlen(b) - n
<1>1. /\ b.q \in Seq(Units0) /\ b.rQi \in Nat /\ Len(b.q) \in Nat /\ b.rQi <= Len(b.q)
      /\ RQlen(b) = Len(b.q) - b.rQi /\ RQlen(b) \in Nat
      /\ b \in [q : Seq(Units0), rQi : Nat, size : Nat]
  BY SoundParts DEF RQlen
<1>2. Shift(b, n).q = b.q /\ Shift(b, n).rQi = b.rQi + n
  BY <1>1 DEF Shift
<1> DEFINE L == Drop(b.q, b.rQi + n)
           R == Drop(Drop(b.q, b.rQi), n)
<1>3. Unread(Shift(b, n)) = L /\ Drop(Unread(b), n) = R
  BY <1>2 DEF Unread, Drop
<1>4. b.rQi + n \in Nat /\ b.rQi + n <= Len(b.q)
  BY <1>1
<1>5. /\ L \in Seq(Units0) /\ Len(L) = Len(b.q) - (b.rQi + n)
      /\ \A i \in 1 .. Len(b.q) - (b.rQi + n) : L[i] = b.q[(b.rQi + n) + i]
  BY <1>1, <1>4, DropIs
<1>6. /\ Drop(b.q, b.rQi) \in Seq(Units0) /\ Len(Drop(b.q, b.rQi)) = Len(b.q) - b.rQi
      /\ \A i \in 1 .. Len(b.q) - b.rQi : Drop(b.q, b.rQi)[i] = b.q[b.rQi + i]
  BY <1>1, DropIs
<1>7. /\ R \in Seq(Units0) /\ Len(R) = (Len(b.q) - b.rQi) - n
      /\ \A i \in 1 .. (Len(b.q) - b.rQi) - n : R[i] = Drop(b.q, b.rQi)[n + i]
  <2>1. n <= Len(Drop(b.q, b.rQi))
    BY <1>1, <1>6
  <2> QED
    BY <1>6, <2>1, DropIs
<1> HIDE DEF L, R
<1>8. Len(L) = Len(R)
  BY <1>1, <1>5, <1>7
<1>9. ASSUME NEW i \in 1 .. Len(L) PROVE L[i] = R[i]
  <2>1. /\ i \in 1 .. Len(b.q) - (b.rQi + n) /\ i \in 1 .. (Len(b.q) - b.rQi) - n
        /\ n + i \in 1 .. Len(b.q) - b.rQi /\ b.rQi + (n + i) = (b.rQi + n) + i
    BY <1>1, <1>5
  <2> QED
    BY <1>5, <1>6, <1>7, <2>1
<1>10. L = R
  BY <1>5, <1>7, <1>8, <1>9, SeqEqual
<1>11. RQlen(Shift(b, n)) = RQlen(b) - n
  BY <1>1, <1>2 DEF RQlen
<1> QED
  BY <1>3, <1>10, <1>11

\* What was read and given back is unread again.
LEMMA GivenBack ==
    ASSUME NEW b, Sound(b), NEW n \in Nat
    PROVE  Goback(Shift(b, n), n) = b
<1>1. b \in [q : Seq(Units0), rQi : Nat, size : Nat] /\ b.rQi \in Nat /\ (b.rQi + n) - n = b.rQi
  BY SoundParts
<1> QED
  BY <1>1 DEF Shift, Goback

\* Resetting an empty queue takes nothing off it.
LEMMA ResetUnread ==
    ASSUME NEW b, Sound(b)
    PROVE  Unread(ResetIfRead(b)) = Unread(b)
<1>1. CASE Len(b.q) = b.rQi
  <2>1. b \in [q : Seq(Units0), rQi : Nat, size : Nat] /\ b.q \in Seq(Units0) /\ b.rQi \in Nat
    BY SoundParts
  <2>2. ResetIfRead(b).q = <<>> /\ ResetIfRead(b).rQi = 0
    BY <1>1, <2>1 DEF ResetIfRead
  <2>3. Sound(ResetIfRead(b))
    BY ResetSound
  <2>4. Len(Unread(ResetIfRead(b))) = 0 /\ Len(Unread(b)) = 0
    BY <1>1, <2>1, <2>2, <2>3, UnreadIs DEF RQlen
  <2>5. Unread(ResetIfRead(b)) \in Seq(Units0) /\ Unread(b) \in Seq(Units0)
    BY <2>3, UnreadIs
  <2> QED
    BY <2>4, <2>5, EmptySeq
<1>2. CASE Len(b.q) # b.rQi
  BY <1>2 DEF ResetIfRead
<1> QED
  BY <1>1, <1>2

\* What is ahead of the client starts with what it has received.
LEMMA AheadIs ==
    ASSUME Sound(buf), wire \in Seq(Units0)
    PROVE  /\ Ahead \in Seq(Units0) /\ Len(Ahead) \in Nat /\ RQlen(buf) \in Nat /\ RQlen(buf) <= Len(Ahead)
           /\ \A i \in 1 .. RQlen(buf) : Ahead[i] = Peek(i)
           /\ ~ Live(rfb) => Ahead = Unread(buf)
           /\ Beginning(Unread(buf), Ahead)
<1> DEFINE W == IF Live(rfb) THEN wire ELSE <<>>
<1>1. W \in Seq(Units0)
  BY EmptySeq
<1>2. /\ Unread(buf) \in Seq(Units0) /\ Len(Unread(buf)) = RQlen(buf) /\ RQlen(buf) \in Nat
      /\ \A i \in 1 .. RQlen(buf) : Unread(buf)[i] = Peek(i)
  BY UnreadIs DEF Peek
<1>3. Ahead = Unread(buf) \o W
  BY DEF Ahead
<1> HIDE DEF W
<1>4. /\ Ahead \in Seq(Units0) /\ Len(Ahead) = RQlen(buf) + Len(W) /\ Len(W) \in Nat
      /\ \A i \in 1 .. RQlen(buf) : Ahead[i] = Unread(buf)[i]
  <2>1. Unread(buf) \in Seq(Units0)
    BY <1>2
  <2>2. /\ Unread(buf) \o W \in Seq(Units0) /\ Len(Unread(buf) \o W) = Len(Unread(buf)) + Len(W) /\ Len(W) \in Nat
        /\ \A i \in 1 .. Len(Unread(buf)) : (Unread(buf) \o W)[i] = Unread(buf)[i]
    BY <1>1, <2>1, ConcatIs, SMT
  <2> QED
    BY <1>2, <1>3, <2>2
<1>5. ~ Live(rfb) => Ahead = Unread(buf)
  <2>1. ~ Live(rfb) => W = <<>>
    BY DEF W
  <2> QED
    BY <1>2, <1>3, <2>1, ConcatEmptySeq
<1>6. Beginning(Unread(buf), Ahead)
  BY <1>2, <1>3, <1>1, BeginningConcat
<1> QED
  BY <1>2, <1>4, <1>5, <1>6

\* Reading n units takes the first n of what is ahead.
LEMMA ReadsDrops ==
    ASSUME Sound(buf), wire \in Seq(Units0), NEW n \in Nat, Reads(n), wire' = wire,
           Live(rfb') <=> Live(rfb)
    PROVE  Ahead' = Drop(Ahead, n) /\ n <= RQlen(buf) /\ RQlen(buf)' = RQlen(buf) - n
<1> DEFINE W == IF Live(rfb) THEN wire ELSE <<>>
<1>1. n <= RQlen(buf) /\ buf' = Shift(buf, n)
  BY DEF Reads
<1>2. Unread(buf') = Drop(Unread(buf), n) /\ RQlen(buf') = RQlen(buf) - n
  BY <1>1, UnreadShift
<1>3. Ahead' = Drop(Unread(buf), n) \o W
  BY <1>2 DEF Ahead
<1>4. W \in Seq(Units0) /\ Unread(buf) \in Seq(Units0) /\ Len(Unread(buf)) = RQlen(buf)
  BY UnreadIs, EmptySeq
<1>5. Ahead = Unread(buf) \o W
  BY DEF Ahead
<1> HIDE DEF W
<1>6. Drop(Unread(buf) \o W, n) = Drop(Unread(buf), n) \o W
  <2>1. n <= Len(Unread(buf))
    BY <1>1, <1>4
  <2> QED
    BY <1>4, <2>1, TailOfConcat DEF Drop
<1> QED
  BY <1>1, <1>2, <1>3, <1>5, <1>6

\* What a session does that ends while it reads.
LEMMA ReadsDropsDown ==
    ASSUME Sound(buf), wire \in Seq(Units0), NEW n \in Nat, Reads(n), ~ Live(rfb')
    PROVE  Ahead' = Drop(Unread(buf), n) /\ n <= RQlen(buf)
<1>1. n <= RQlen(buf) /\ buf' = Shift(buf, n)
  BY DEF Reads
<1>2. Unread(buf') = Drop(Unread(buf), n)
  BY <1>1, UnreadShift
<1>3. Ahead' = Unread(buf') \o <<>>
  BY DEF Ahead
<1>4. Unread(buf') \in Seq(Units0)
  <2>1. Sound(buf')
    BY <1>1, ShiftSound
  <2> QED
    BY <2>1, UnreadIs
<1>5. Unread(buf') \o <<>> = Unread(buf')
  BY <1>4, ConcatEmptySeq
<1> QED
  BY <1>1, <1>2, <1>3, <1>5

\* Concatenation is associative.
LEMMA UnitsAssociative ==
    ASSUME NEW A \in Seq(Units0), NEW B \in Seq(Units0), NEW C \in Seq(Units0)
    PROVE  (A \o B) \o C = A \o (B \o C)
BY ConcatAssociative

\* What the network delivers is still ahead of the client.
LEMMA ReceivedAhead ==
    ASSUME Sound(buf), wire \in Seq(Units0), Live(rfb), ws.message, ReceiveMessage
    PROVE  Ahead' = Ahead
<1>1. PICK n \in 1 .. Len(wire) :
          /\ wire' = SubSeq(wire, n + 1, Len(wire))
          /\ Fits(buf, SubSeq(wire, 1, n)) /\ buf' = Receive(buf, SubSeq(wire, 1, n))
  BY DEF ReceiveMessage
<1> DEFINE D == SubSeq(wire, 1, n)
           R == SubSeq(wire, n + 1, Len(wire))
<1>2. D \in Seq(Units0) /\ R \in Seq(Units0) /\ D \o R = wire
  <2>1. Len(wire) \in Nat /\ n \in 1 .. Len(wire)
    OBVIOUS
  <2>2. D \in Seq(Units0) /\ Len(D) = n /\ \A i \in 1 .. n : D[i] = wire[i]
    BY <2>1
  <2>3. R \in Seq(Units0) /\ Len(R) = Len(wire) - n /\ \A i \in 1 .. Len(wire) - n : R[i] = wire[n + i]
    BY <2>1
  <2> HIDE DEF D, R
  <2>4. D \in Seq(Units0) /\ R \in Seq(Units0)
    BY <2>2, <2>3
  <2>5. /\ D \o R \in Seq(Units0) /\ Len(D \o R) = Len(D) + Len(R)
        /\ \A i \in 1 .. Len(D) : (D \o R)[i] = D[i]
        /\ \A i \in 1 .. Len(R) : (D \o R)[Len(D) + i] = R[i]
    BY <2>4, ConcatIs, SMT
  <2>6. Len(D \o R) = Len(wire)
    BY <2>1, <2>2, <2>3, <2>5
  <2>7. ASSUME NEW i \in 1 .. Len(D \o R) PROVE (D \o R)[i] = wire[i]
    <3>1. CASE i <= n
      BY <2>1, <2>2, <2>5, <2>6, <3>1
    <3>2. CASE ~ (i <= n)
      <4>1. i - n \in 1 .. Len(wire) - n /\ n + (i - n) = i
        BY <2>1, <2>6, <3>2
      <4>2. (D \o R)[Len(D) + (i - n)] = R[i - n] /\ R[i - n] = wire[n + (i - n)]
        BY <2>3, <2>5, <4>1
      <4> QED
        BY <2>2, <4>1, <4>2
    <3> QED
      BY <3>1, <3>2
  <2> QED
    BY <2>4, <2>5, <2>6, <2>7, SeqEqual
<1>3. Unread(buf') = Unread(buf) \o D /\ Unread(buf) \in Seq(Units0)
  BY <1>1, <1>2, ReceiveSound, UnreadIs
<1>4. Ahead = Unread(buf) \o wire /\ rfb' = rfb /\ wire' = R
  BY <1>1 DEF Ahead, ReceiveMessage
<1>5. Ahead' = (Unread(buf) \o D) \o R
  BY <1>3, <1>4 DEF Ahead
<1> HIDE DEF D, R
<1>6. (Unread(buf) \o D) \o R = Unread(buf) \o (D \o R)
  <2>1. Unread(buf) \in Seq(Units0) /\ D \in Seq(Units0) /\ R \in Seq(Units0)
    BY <1>2, <1>3
  <2> QED
    BY ZenonT(60), <2>1, UnitsAssociative
<1> QED
  BY <1>2, <1>4, <1>5, <1>6

\* What the server sends comes behind.
LEMMA SentAhead ==
    ASSUME Sound(buf), wire \in Seq(Units0), Live(rfb), NEW m \in Seq(Units0), wire' = wire \o m,
           buf' = buf, rfb' = rfb
    PROVE  Ahead' = Ahead \o m
<1>1. Ahead = Unread(buf) \o wire /\ Ahead' = Unread(buf) \o (wire \o m) /\ Unread(buf) \in Seq(Units0)
  BY UnreadIs DEF Ahead
<1>2. (Unread(buf) \o wire) \o m = Unread(buf) \o (wire \o m)
  BY <1>1, ConcatAssociative
<1> QED
  BY <1>1, <1>2

-----------------------------------------------------------------------------
(* The handshake.                                                          *)

\* What the client sends that the server does not answer, the schemes it asks
\* credentials for, and being at one of them.
Silent == {"xvp", "plain"}

Dialogs == {"vnc", "plain", "xvp", "ard"}

Auth(r, s) == r.init = "Authentication" /\ r.scheme = s

\* What the server says to give a reason, to refuse, and to offer schemes.
Reasons == <<U("reason", 1, <<>>), U("reason", 2, <<>>)>>

Refusal == <<U("result", 1, <<"bad">>), U("reason", 1, <<>>), U("reason", 2, <<>>)>>

Offer(list) == IF list = <<>> THEN <<U("types", 1, list), U("reason", 1, <<>>), U("reason", 2, <<>>)>>
               ELSE <<U("types", 1, list), U("types", 2, list)>>

\* What is ahead of a client that need not ask, in each state of its handshake.
Says(r, T) ==
    /\ r.init \in {"", "ClientInitialisation"} => T = <<>>
    /\ r.init = "ProtocolVersion" => T = <<U("version", 1, <<>>)>>
    /\ r.init = "Security" => \E list \in Seq(Schemes \cup {"other"}) : T = Offer(list)
    /\ r.init = "SecurityReason" => T = Reasons
    /\ Auth(r, "none") \/ r.init = "SecurityResult" => T = <<U("result", 1, <<"ok">>)>> \/ T = Refusal
    /\ Auth(r, "vnc") => T = <<U("challenge", 1, <<>>)>>
    /\ Auth(r, "plain") \/ Auth(r, "xvp") => T = <<>>
    /\ Auth(r, "vencrypt") =>
          \/ r.vencrypt = 0 /\ T = <<U("vencrypt", 1, <<>>)>>
          \/ r.vencrypt = 1 /\ T = <<U("ack", 1, <<>>), U("count", 1, <<>>), U("subtypes", 1, <<>>)>>
          \/ r.vencrypt = 2 /\ T = <<U("count", 1, <<>>), U("subtypes", 1, <<>>)>>
          \/ r.vencrypt = 3 /\ T = <<U("subtypes", 1, <<>>)>>
    /\ Auth(r, "tight") /\ ~ r.tight => T = <<U("tunnels", 1, <<>>), U("tunnels", 2, <<>>)>>
    /\ Auth(r, "tight") /\ r.tight => T = <<U("subauths", 1, <<>>), U("subauths", 2, <<>>)>>
    /\ Auth(r, "ard") /\ r.ard = "idle" => T = <<U("dh", 1, <<>>), U("dh", 2, <<>>)>>
    /\ Auth(r, "ard") /\ r.ard # "idle" => T = <<>>

\* What a client has to ask of the server, in each state of its handshake.
Asks(r, m, stage) ==
    \/ r.init = "Security" /\ m = "version" /\ stage # "vencrypt"
    \/ Auth(r, "none") /\ m = "none"
    \/ Auth(r, "vnc") /\ m \in {"vnc", "target", "subauth"}
    \/ Auth(r, "vencrypt") /\ m = "vencrypt" /\ r.vencrypt = 0 /\ stage # "vencrypt"
    \/ Auth(r, "vencrypt") /\ m = "vencrypt" /\ r.vencrypt = 1 /\ stage = "vencrypt"
    \/ Auth(r, "tight") /\ ~ r.tight /\ m = "tight"
    \/ Auth(r, "tight") /\ r.tight /\ m = "tunnel"
    \/ Auth(r, "ard") /\ r.ard = "idle" /\ m = "ard"
    \/ r.init = "SecurityResult" /\ m \in {"none", "response"}
    \/ r.init = "ServerInitialisation" /\ m = "init"

\* A question is behind what needs no answer.
Asked(q, m) == \E p \in Seq(Silent) : q = Append(p, m)

\* Nothing waits for an answer: what the client needs next is ahead of it.
Quiet ==
    /\ up \in Seq(Silent) /\ Says(rfb, Ahead)
    /\ srv.stage \in {"shown", "normal"} => rfb.init = "ServerInitialisation"
    /\ Auth(rfb, "vencrypt") /\ rfb.vencrypt = 0 => srv.stage = "vencrypt"
    /\ rfb.init \in {"", "ProtocolVersion", "Security"} => srv.stage # "vencrypt"

\* Nothing is ahead, and the server has the client's question.
Waiting ==
    /\ Ahead = <<>> /\ srv.stage \notin {"shown", "normal"}
    /\ \E m : Asked(up, m) /\ Asks(rfb, m, srv.stage)

\* How the two sides of a handshake stand to each other.
Talk == srv.wants = {} /\ (Quiet \/ Waiting)

\* Of a session that is over: what it has still to read of its handshake.
Begun(r, S) ==
    /\ Auth(r, "vnc") => Beginning(S, <<U("challenge", 1, <<>>)>>)
    /\ Auth(r, "plain") \/ Auth(r, "xvp") => S = <<>>
    /\ Auth(r, "ard") /\ r.ard = "idle" => Beginning(S, <<U("dh", 1, <<>>), U("dh", 2, <<>>)>>)
    /\ Auth(r, "ard") /\ r.ard # "idle" => S = <<>>

\* No update has been begun, and nothing is drawn.
Fresh ==
    /\ rfb.rects = 0 /\ rfb.encoding = "" /\ rfb.update = 0 /\ ~ rfb.flushing /\ rfb.synced
    /\ disp.q = <<>> /\ turn \notin {"normal", "flushed"}

\* The client may wait for credentials.
Asking(r) == r.init = "Authentication" /\ r.scheme \in Dialogs

\* Where the dialog, the key exchange and the timers that resume a handshake
\* can be.
Resuming ==
    /\ ui.dialog => Asking(rfb) /\ ~ rfb.creds
    /\ rfb.ard # "idle" => Auth(rfb, "ard")
    /\ rfb.resumes > 0 => Asking(rfb) \/ (rfb.init = "SecurityResult" /\ Ahead = <<>>)
    /\ turn = "once" => Asking(rfb) \/ (rfb.init = "SecurityResult" /\ RQlen(buf) = 0)
    /\ rfb.init \in {"", "ProtocolVersion", "Security"} => rfb.vencrypt = 0 /\ ~ rfb.tight

\* The updates that what waits to be drawn belongs to.
Drawing == {disp.q[i].update : i \in 1 .. Len(disp.q)}

\* The handshake is over. What waits to be drawn is of the update being read,
\* or, when the client waits for the drawing to end, of one update.
Late ==
    /\ rfb.init = "ServerInitialisation" /\ rfb.resumes = 0 /\ turn \notin {"once", "init"}
    /\ ~ ui.dialog /\ rfb.ard = "idle"
    /\ ~ rfb.flushing => Drawing \subseteq {rfb.update}
    /\ \A a, b \in Drawing : a = b
    /\ rfb.flushing => disp.flushing

\* The page, the session and the channel know of each other.
Linked ==
    /\ ws.message <=> Live(rfb)
    /\ ws.close <=> rfb.conn # "disconnected"
    /\ ui.rfb <=> rfb.conn # "disconnected"
    /\ IF Live(rfb) THEN ws.ready \in {"connecting", "open"} ELSE ws.ready \in {"closing", "closed"}
    /\ ws.ready = "connecting" => rfb.init = "" /\ turn = "idle" /\ up = <<>> /\ Ahead = <<>>

\* The inductive invariant.
Hand ==
    /\ Linked
    /\ rfb.conn = "connecting" => Fresh /\ Resuming /\ Talk
    /\ rfb.conn = "connected" => Late
    /\ ~ Live(rfb) => (Fresh /\ Resuming /\ Begun(rfb, Ahead)) \/ Late

-----------------------------------------------------------------------------
(* What is known of every state.                                           *)

\* What is watched of the server.
Serving == {"stage", "asked", "continuous", "wants", "sent", "refusals"}

\* The dialog is that of a session.
Shown(u) == u.dialog => u.rfb

\* The other invariants: types, the streams, the order of what is drawn.
Base ==
    /\ Shown(ui)
    /\ Typed(ui, rfb, ws, turn) /\ Streams(buf, wire, srv) /\ Ordered(disp) /\ Connection(ui, rfb)
    /\ scope \in Scopes /\ Serving \subseteq DOMAIN srv

\* What Base says, one fact at a time.
LEMMA BaseIs ==
    ASSUME Base
    PROVE  /\ ui \in Pages /\ ws \in Channels /\ turn \in Turns /\ Session(rfb) /\ Parts \subseteq DOMAIN rfb
           /\ rfb.conn \in States /\ rfb.resumes \in 0 .. MaxResumes /\ MaxResumes \in Nat /\ rfb.resumes \in Nat
           /\ rfb.rects \in Nat /\ rfb.update \in Nat
           /\ Sound(buf) /\ wire \in Seq(Units0) /\ RQlen(buf) \in Nat
           /\ disp.q \in Seq(Actions) /\ Len(disp.q) \in Nat
           /\ Serving \subseteq DOMAIN srv
<1>1. MaxResumes \in Nat
  BY ScopeIs DEF Base
<1>2. ui \in Pages /\ ws \in Channels /\ turn \in Turns /\ Session(rfb)
  BY DEF Base, Typed
<1>3. /\ Parts \subseteq DOMAIN rfb /\ rfb.conn \in States /\ rfb.resumes \in 0 .. MaxResumes /\ rfb.rects \in Nat
  BY <1>2 DEF Session
<1>4. rfb.update \in Nat
  BY DEF Base, Connection, Fields
<1>5. Sound(buf) /\ wire \in Seq(Units0)
  BY DEF Base, Streams
<1>6. RQlen(buf) \in Nat
  BY <1>5, SoundParts
<1>7. disp.q \in Seq(Actions) /\ Len(disp.q) \in Nat
  BY OrderedParts DEF Base
<1>8. rfb.resumes \in Nat
  BY <1>1, <1>3
<1> QED
  BY <1>1, <1>2, <1>3, <1>4, <1>5, <1>6, <1>7, <1>8 DEF Base

\* The dialog goes with its session when the connection changes,
LEMMA ChangesShown ==
    ASSUME NEW u \in Pages, Shown(u), NEW r, NEW w
    PROVE  /\ Shown(DisconnectFinished(u)) /\ Shown(ConnectFinished(u))
           /\ ToDisconnecting([ui |-> u, rfb |-> r, ws |-> w]).ui = u
           /\ Shown(ToDisconnected([ui |-> u, rfb |-> r, ws |-> w]).ui)
           /\ Shown(ToConnected([ui |-> u, rfb |-> r, ws |-> w]).ui)
<1>1. Shown(DisconnectFinished(u)) /\ Shown(ConnectFinished(u))
  BY DEF Shown, DisconnectFinished, ConnectFinished, Pages
<1> DEFINE c == [ui |-> u, rfb |-> r, ws |-> w]
<1>2. ToDisconnected(c).ui = DisconnectFinished(u) \/ ToDisconnected(c).ui = u
  BY DEF ToDisconnected
<1>3. ToDisconnecting(c).ui = u
  BY DEF ToDisconnecting
<1>4. ToConnected(c).ui = ConnectFinished(u) \/ ToConnected(c).ui = u
  BY DEF ToConnected
<1> QED
  BY <1>1, <1>2, <1>3, <1>4

\* when it fails,
LEMMA FailedShown ==
    ASSUME NEW u \in Pages, Shown(u), NEW r, Session(r), NEW w \in Channels
    PROVE  Shown(Failed([ui |-> u, rfb |-> r, ws |-> w]).ui)
<1>0. "idle" \in Turns
  BY DEF Turns
<1>1. PICK r1, w1 : /\ ToDisconnecting([ui |-> u, rfb |-> r, ws |-> w]) = [ui |-> u, rfb |-> r1, ws |-> w1]
                    /\ Typed(u, r1, w1, "idle")
  BY SMTT(30), <1>0, ChangesTyped
<1>2. Failed([ui |-> u, rfb |-> r, ws |-> w]) = ToDisconnected([ui |-> u, rfb |-> r1, ws |-> w1])
  BY <1>1 DEF Failed
<1> QED
  BY <1>2, ChangesShown

\* and so it does in a step that fails it.
LEMMA FailsShown ==
    ASSUME ui \in Pages, Shown(ui), NEW r, Session(r), NEW w \in Channels, Becomes(Failed([ui |-> ui, rfb |-> r, ws |-> w]))
    PROVE  Shown(ui')
<1>1. Shown(Failed([ui |-> ui, rfb |-> r, ws |-> w]).ui)
  BY FailedShown
<1> QED
  BY <1>1 DEF Becomes

\* The page's operations show a dialog for a session only,
LEMMA PageShown ==
    ASSUME Session(rfb), ws \in Channels, ui \in Pages, Shown(ui), Page
    PROVE  Shown(ui')
<1>1. CASE UIConnect \/ UIReconnect
  BY <1>1 DEF UIConnect, UIReconnect, Open, Shown, Pages
<1>2. CASE UICancelReconnect \/ UISetCredentials \/ ClipboardPasteFrom \/ UpdateViewOnly
  BY <1>2 DEF UICancelReconnect, UISetCredentials, ClipboardPasteFrom, UpdateViewOnly, UserOp, Shown, Pages
<1>3. CASE UIDisconnect
  <2>1. ToDisconnecting(Conn) = [Conn EXCEPT !.rfb.conn = "disconnecting", !.rfb.timer = TRUE, !.ws = CloseSocket(@)]
    BY <1>3 DEF UIDisconnect, ToDisconnecting, Conn
  <2>2. ui' = [ui EXCEPT !.connected = FALSE, !.inhibit = TRUE, !.dialog = FALSE, !.ops = @ + 1, !.left = TRUE]
    BY <1>3, <2>1 DEF UIDisconnect, Becomes, Conn
  <2> QED
    BY <2>2 DEF Shown, Pages
<1> QED
  BY <1>1, <1>2, <1>3 DEF Page

\* and so do the handlers of the handshake,
LEMMA HandshakeShown ==
    ASSUME Session(rfb), ws \in Channels, turn \in Turns, ui \in Pages, Shown(ui), Handshake
    PROVE  Shown(ui')
<1>1. CASE Plain
  BY <1>1 DEF Plain, Shown, Pages
<1>2. ASSUME NEW k, Becomes(Failed([Conn EXCEPT !.rfb = At(k)])) PROVE Shown(ui')
  <2>1. [Conn EXCEPT !.rfb = At(k)] = [ui |-> ui, rfb |-> At(k), ws |-> ws]
    BY DEF Conn
  <2> QED
    BY <1>2, <2>1, AtTyped, FailsShown
<1>3. CASE Becomes(ToConnected([Conn EXCEPT !.rfb = At("serverinit")]))
  <2>1. [Conn EXCEPT !.rfb = At("serverinit")] = [ui |-> ui, rfb |-> At("serverinit"), ws |-> ws]
    BY DEF Conn
  <2>2. Shown(ToConnected([Conn EXCEPT !.rfb = At("serverinit")]).ui)
    BY <2>1, ChangesShown
  <2> QED
    BY <1>3, <2>2 DEF Becomes
<1> QED
  BY <1>1, <1>2, <1>3, HandshakeWrites

\* the handlers of the messages
LEMMA MessagesShown ==
    ASSUME Session(rfb), ws \in Channels, ui \in Pages, Shown(ui), NormalMsg
    PROVE  Shown(ui')
<1>1. CASE SetColourMap
  BY <1>1, FailsShown DEF SetColourMap, Conn
<1>2. CASE UnexpectedMessage
  <2>1. [Conn EXCEPT !.rfb = At("other")] = [ui |-> ui, rfb |-> At("other"), ws |-> ws]
    BY DEF Conn
  <2> QED
    BY <1>2, <2>1, AtTyped, FailsShown DEF UnexpectedMessage
<1>3. CASE ~ SetColourMap /\ ~ UnexpectedMessage
  <2>1. ui' = ui
    BY <1>3 DEF NormalMsg, NormalTurnEnds, UpdateHeader, UpdateRect, MessageIncomplete, Handled, Bell, Xvp,
       ServerFence, EndOfContinuousUpdates, ServerCutText, ExtendedClipboard
  <2> QED
    BY <2>1
<1> QED
  BY <1>1, <1>2, <1>3

\* and the end of the channel.
LEMMA ClosesShown ==
    ASSUME Session(rfb), ws \in Channels, ui \in Pages, Shown(ui), SocketCloses
    PROVE  Shown(ui')
<1> DEFINE w == [ws EXCEPT !.ready = "closed"]
           c == [ui |-> ui, rfb |-> rfb, ws |-> w]
           after == CASE rfb.conn = "disconnecting" -> ToDisconnected(c)
                      [] rfb.conn \in {"connecting", "connected"} -> Failed(c)
                      [] OTHER -> c
<1>1. [Conn EXCEPT !.ws.ready = "closed"] = c
  BY DEF Conn
<1>2. Becomes(IF ws.close THEN [after EXCEPT !.ws.close = FALSE] ELSE c)
  BY <1>1 DEF SocketCloses
<1>6. w \in Channels
  BY DEF Channels
<1> HIDE DEF w
<1>3. Shown(after.ui)
  <2>1. Shown(ToDisconnected(c).ui) /\ Shown(Failed(c).ui) /\ Shown(c.ui)
    BY <1>6, ChangesShown, FailedShown
  <2>2. after = ToDisconnected(c) \/ after = Failed(c) \/ after = c
    OBVIOUS
  <2> HIDE DEF after, c
  <2> QED
    BY <2>1, <2>2
<1> HIDE DEF after
<1>4. ws.close => ui' = [after EXCEPT !.ws.close = FALSE].ui
  BY <1>2 DEF Becomes
<1>5. ~ ws.close => ui' = ui
  BY <1>2 DEF Becomes
<1>7. [after EXCEPT !.ws.close = FALSE].ui = after.ui
  OBVIOUS
<1> QED
  BY <1>3, <1>4, <1>5, <1>7

\* Every step shows a dialog for a session only.
LEMMA NextShown ==
    ASSUME Typed(ui, rfb, ws, turn), Shown(ui), [Next]_vars
    PROVE  Shown(ui')
<1>1. ui \in Pages /\ turn \in Turns /\ ws \in Channels /\ Session(rfb)
  BY DEF Typed
<1>2. CASE ReceiveEnds \/ Server \/ SocketOpens \/ ReceiveMessage \/ ResumeAuthentication \/ ArdComputed
           \/ ImageLoads \/ UNCHANGED vars
  <2>1. ui' = ui
    BY <1>2 DEF ReceiveEnds, Server, ServerHandshake, ServerReads, ServerUpdates, ServerChatters, Sends, SocketOpens,
       ReceiveMessage, ResumeAuthentication, ArdComputed, ImageLoads, vars
  <2> QED
    BY <2>1
<1>3. CASE DisconnectTimesOut
  <2>1. Shown(ToDisconnected(Conn).ui)
    BY <1>1, ChangesShown DEF Conn
  <2> QED
    BY <1>3, <2>1 DEF DisconnectTimesOut, Becomes
<1> QED
  BY <1>1, <1>2, <1>3, PageShown, HandshakeShown, MessagesShown, ClosesShown DEF Next, Client, Channel, Timers

\* The other invariants hold.
LEMMA BaseHolds == Spec => []Base
<1>1. Init => Base
  <2>1. "wants" \in DOMAIN NewServer /\ NewServer.wants \subseteq DOMAIN Body /\ Serving \subseteq DOMAIN NewServer
    BY DEF NewServer, Serving
  <2>2. Init => Streams(buf, wire, srv) /\ scope \in Scopes /\ Serving \subseteq DOMAIN srv
    BY <2>1, EmptySound, EmptySeq DEF Init, Streams
  <2>3. Init => Ordered(disp)
    BY BlankOrdered DEF Init
  <2>4. Init => Shown(ui)
    BY DEF Init, Shown
  <2> QED
    BY <2>2, <2>3, <2>4, InitTyped, InitConnection DEF Base
<1>2. Base /\ [Next]_vars => Base'
  <2> SUFFICES ASSUME Base, [Next]_vars PROVE Base'
    OBVIOUS
  <2>1. scope' = scope
    BY DEF Next, vars
  <2>2. Sound(buf) /\ Typed(ui, rfb, ws, turn) /\ scope \in Scopes /\ Streams(buf, wire, srv)
        /\ Connection(ui, rfb) /\ Ordered(disp) /\ Serving \subseteq DOMAIN srv /\ Shown(ui)
    BY DEF Base, Streams
  <2>3. Serving \subseteq DOMAIN srv'
    <3>1. srv' = NewServer \/ DOMAIN srv' = DOMAIN srv
      <4>1. CASE Server
        BY <4>1 DEF Server, ServerHandshake, Result, Answers, ServerReads, ServerUpdates, ServerChatters, Sends
      <4>2. CASE Page
        BY <4>2 DEF Page, UIConnect, UIReconnect, Open, UICancelReconnect, UIDisconnect,
           UISetCredentials, ClipboardPasteFrom, UpdateViewOnly
      <4>3. CASE Handshake \/ NormalMsg
        BY <2>2, <4>3, HandshakeConsumes, MessagesConsume
      <4>4. CASE ReceiveEnds \/ Channel \/ Timers \/ UNCHANGED vars
        BY <4>4 DEF ReceiveEnds, Channel, SocketOpens, SocketCloses, ReceiveMessage,
           Timers, DisconnectTimesOut, ResumeAuthentication, ArdComputed, ImageLoads, vars
      <4> QED
        BY <4>1, <4>2, <4>3, <4>4 DEF Next, Client
    <3>2. Serving \subseteq DOMAIN NewServer
      BY DEF NewServer, Serving
    <3> QED
      BY <2>2, <3>1, <3>2
  <2>4. Typed(ui, rfb, ws, turn)'
    BY <2>2, NextTyped
  <2>5. Streams(buf', wire', srv')
    BY <2>2, NextStreams
  <2>6. Connection(ui', rfb') /\ Ordered(disp')
    BY <2>2, NextKeeps, NextDraws DEF Kept
  <2>7. Shown(ui')
    BY <2>2, NextShown
  <2> QED
    BY <2>1, <2>2, <2>3, <2>4, <2>5, <2>6, <2>7 DEF Base
<1> QED
  BY <1>1, <1>2, PTL DEF Spec

\* DropIs, of units.
LEMMA UnitsDrop ==
    ASSUME NEW S \in Seq(Units0), NEW n \in Nat, n <= Len(S)
    PROVE  /\ Drop(S, n) \in Seq(Units0) /\ Len(Drop(S, n)) = Len(S) - n
           /\ \A i \in 1 .. Len(S) - n : Drop(S, n)[i] = S[n + i]
BY DropIs

\* What is left of an answer of one to three units.
LEMMA DropShort ==
    ASSUME NEW a \in Units0, NEW b \in Units0, NEW c \in Units0
    PROVE  /\ Drop(<<a>>, 1) = <<>> /\ Drop(<<a, b>>, 2) = <<>> /\ Drop(<<a, b, c>>, 1) = <<b, c>>
           /\ Drop(<<a, b, c>>, 3) = <<>> /\ Drop(<<a, b>>, 1) = <<b>>
<1> DEFINE A1 == <<a>>
           A2 == <<a, b>>
           A3 == <<a, b, c>>
<1>1. /\ A1 \in Seq(Units0) /\ A2 \in Seq(Units0) /\ A3 \in Seq(Units0)
      /\ Len(A1) = 1 /\ Len(A2) = 2 /\ Len(A3) = 3
      /\ A2[2] = b /\ A3[2] = b /\ A3[3] = c
      /\ <<b>> \in Seq(Units0) /\ <<b, c>> \in Seq(Units0) /\ Len(<<b>>) = 1 /\ Len(<<b, c>>) = 2
      /\ <<b>>[1] = b /\ <<b, c>>[1] = b /\ <<b, c>>[2] = c
  OBVIOUS
<1> HIDE DEF A1, A2, A3
<1>2. ASSUME NEW S \in Seq(Units0), NEW n \in Nat, Len(S) = n PROVE Drop(S, n) = <<>>
  <2>1. Drop(S, n) \in Seq(Units0) /\ Len(Drop(S, n)) = 0
    BY <1>2, UnitsDrop
  <2> QED
    BY <2>1, EmptySeq
<1>3. Drop(A1, 1) = <<>> /\ Drop(A2, 2) = <<>> /\ Drop(A3, 3) = <<>>
  BY <1>1, <1>2
<1>4. /\ Drop(A2, 1) \in Seq(Units0) /\ Len(Drop(A2, 1)) = 1 /\ Drop(A2, 1)[1] = b
  <2>1. 1 \in Nat /\ 1 <= Len(A2) /\ 1 \in 1 .. Len(A2) - 1
    BY <1>1
  <2>2. /\ Drop(A2, 1) \in Seq(Units0) /\ Len(Drop(A2, 1)) = Len(A2) - 1
        /\ \A i \in 1 .. Len(A2) - 1 : Drop(A2, 1)[i] = A2[1 + i]
    BY <1>1, <2>1, UnitsDrop
  <2> QED
    BY <1>1, <2>1, <2>2
<1>5. /\ Drop(A3, 1) \in Seq(Units0) /\ Len(Drop(A3, 1)) = 2 /\ Drop(A3, 1)[1] = b /\ Drop(A3, 1)[2] = c
  <2>1. 1 \in Nat /\ 1 <= Len(A3) /\ 1 \in 1 .. Len(A3) - 1 /\ 2 \in 1 .. Len(A3) - 1
    BY <1>1
  <2>2. /\ Drop(A3, 1) \in Seq(Units0) /\ Len(Drop(A3, 1)) = Len(A3) - 1
        /\ \A i \in 1 .. Len(A3) - 1 : Drop(A3, 1)[i] = A3[1 + i]
    BY <1>1, <2>1, UnitsDrop
  <2> QED
    BY <1>1, <2>1, <2>2
<1>6. Drop(A2, 1) = <<b>>
  BY <1>1, <1>4, SeqEqual
<1>7. Drop(A3, 1) = <<b, c>>
  BY <1>1, <1>5, SeqEqual
<1> QED
  BY <1>3, <1>6, <1>7 DEF A1, A2, A3

\* A message sent behind silent ones.
LEMMA SendsSilent ==
    ASSUME NEW q \in Seq(Silent)
    PROVE  /\ q \o <<>> \in Seq(Silent)
           /\ \A m \in Silent : q \o <<m>> \in Seq(Silent)
           /\ \A m : Asked(q \o <<m>>, m)
<1>1. q \o <<>> \in Seq(Silent)
  BY EmptySeq, ConcatProperties
<1>2. ASSUME NEW m \in Silent PROVE q \o <<m>> \in Seq(Silent)
  BY ConcatProperties
<1>3. ASSUME NEW m PROVE Asked(q \o <<m>>, m)
  <2>1. q \o <<m>> = Append(q, m)
    <3>1. q \in Seq(Silent \cup {m}) /\ m \in Silent \cup {m}
      BY SeqMonotonic
    <3> QED
      BY <3>1, AppendIsConcat
  <2> QED
    BY <2>1 DEF Asked
<1> QED
  BY <1>1, <1>2, <1>3

\* A handler of the handshake runs.
Runs == Base /\ Hand /\ turn \in {"init", "once"} /\ (turn = "init" => rfb.conn = "connecting")

\* What is known when a handler of the handshake runs.
LEMMA Turned ==
    ASSUME Runs
    PROVE  /\ Fresh /\ Resuming /\ rfb.conn # "connected" /\ ws.ready # "connecting"
           /\ rfb.conn = "connecting" => Talk /\ Live(rfb) /\ ws.ready = "open"
           /\ rfb.conn # "connecting" => ~ Live(rfb) /\ turn = "once" /\ Begun(rfb, Ahead)
<1>1. rfb.conn \in States
  BY BaseIs DEF Runs
<1>2. Late => turn \notin {"once", "init"}
  BY DEF Late
<1>3. rfb.conn # "connected" /\ ws.ready # "connecting"
  BY <1>2 DEF Runs, Hand, Linked
<1>4. CASE rfb.conn = "connecting"
  <2>1. Live(rfb)
    BY <1>4 DEF Live
  <2> QED
    BY <1>3, <1>4, <2>1 DEF Runs, Hand, Linked
<1>5. CASE rfb.conn # "connecting"
  <2>1. ~ Live(rfb)
    BY <1>3, <1>5 DEF Live
  <2> QED
    BY <1>2, <1>3, <1>5, <2>1 DEF Runs, Hand
<1> QED
  BY <1>4, <1>5

\* A handler that goes on with the handshake keeps what is known of it.
Steps == {"init", "scheme", "vencrypt", "tight", "ard", "synced"}

\* A handler that goes on with the handshake keeps the invariant if the two
\* sides still stand as they should.
LEMMA Moves ==
    ASSUME Runs, Base', turn' \in {turn, "idle", "end"},
           \A p \in Parts \ Steps : rfb'[p] = rfb[p], rfb'.synced,
           ui'.rfb = ui.rfb, ws' = ws, disp' = disp, Resuming',
           rfb.conn = "connecting" => Talk', rfb.conn # "connecting" => Begun(rfb', Ahead')
    PROVE  Hand'
<1>1. /\ Fresh /\ rfb.conn # "connected" /\ ws.ready # "connecting"
      /\ rfb.conn = "connecting" \/ ~ Live(rfb)
  BY Turned
<1>2. /\ rfb'.conn = rfb.conn /\ rfb'.rects = rfb.rects /\ rfb'.encoding = rfb.encoding
      /\ rfb'.update = rfb.update /\ rfb'.flushing = rfb.flushing
  BY DEF Parts, Steps
<1>3. turn' \notin {"normal", "flushed"}
  BY DEF Runs
<1>4. Fresh'
  BY <1>1, <1>2, <1>3 DEF Fresh
<1>5. Live(rfb') <=> Live(rfb)
  BY <1>2 DEF Live
<1>6. Linked'
  BY <1>1, <1>2, <1>5 DEF Runs, Hand, Linked
<1>7. CASE rfb.conn = "connecting"
  <2>1. rfb'.conn = "connecting" /\ Live(rfb)' /\ Talk'
    BY <1>2, <1>5, <1>7 DEF Live
  <2> QED
    BY <1>4, <1>6, <2>1 DEF Hand
<1>8. CASE rfb.conn # "connecting"
  <2>1. rfb'.conn \notin {"connecting", "connected"} /\ Begun(rfb, Ahead)'
    BY <1>1, <1>2, <1>8 DEF Begun
  <2> QED
    BY <1>4, <1>6, <2>1 DEF Hand
<1> QED
  BY <1>7, <1>8

\* A wait gives back what it has read.
LEMMA WaitsHand ==
    ASSUME Runs, Base', NEW n \in Nat, NEW m, WaitsFor(n, m, n)
    PROVE  Hand'
<1>1. /\ buf' = buf /\ ui' = ui /\ rfb' = rfb /\ ws' = ws /\ disp' = disp /\ wire' = wire /\ up' = up /\ srv' = srv
      /\ turn' \in {"idle", "end"}
  <2>1. Sound(buf)
    BY BaseIs DEF Runs
  <2> QED
    BY <2>1, GivenBack DEF WaitsFor, Ends
<1>2. Fresh /\ Resuming
  BY Turned
<1>3. Ahead' = Ahead /\ RQlen(buf)' = RQlen(buf)
  BY <1>1 DEF Ahead, RQlen
<1>4. Resuming'
  BY <1>1, <1>2, <1>3 DEF Resuming
<1>5. Talk => Talk'
  BY <1>1, <1>3 DEF Talk, Quiet, Waiting
<1>6. rfb'.synced /\ \A p \in Parts \ Steps : rfb'[p] = rfb[p]
  BY <1>1, <1>2 DEF Fresh
<1>7. rfb.conn = "connecting" => Talk'
  BY <1>5, Turned
<1>8. rfb.conn # "connecting" => Begun(rfb', Ahead')
  BY <1>1, <1>3, Turned
<1> QED
  BY <1>1, <1>4, <1>6, <1>7, <1>8, Moves

\* A handler that asks for credentials,
LEMMA AsksHand ==
    ASSUME Runs, Base', Asking(rfb), ~ rfb.creds, AskCredentials
    PROVE  Hand'
<1>1. /\ buf' = buf /\ rfb' = rfb /\ ws' = ws /\ disp' = disp /\ wire' = wire /\ up' = up /\ srv' = srv
      /\ turn' \in {"idle", "end"} /\ ui'.rfb = ui.rfb
  <2>1. ui \in Pages
    BY BaseIs DEF Runs
  <2> QED
    BY <2>1 DEF AskCredentials, Ends, Pages
<1>2. Fresh /\ Resuming
  BY Turned
<1>3. Ahead' = Ahead /\ RQlen(buf)' = RQlen(buf)
  BY <1>1 DEF Ahead, RQlen
<1>4. Resuming'
  BY <1>1, <1>2, <1>3 DEF Resuming
<1>5. Talk => Talk'
  BY <1>1, <1>3 DEF Talk, Quiet, Waiting
<1>6. rfb'.synced /\ \A p \in Parts \ Steps : rfb'[p] = rfb[p]
  BY <1>1, <1>2 DEF Fresh
<1>7. rfb.conn = "connecting" => Talk'
  BY <1>5, Turned
<1>8. rfb.conn # "connecting" => Begun(rfb', Ahead')
  BY <1>1, <1>3, Turned
<1> QED
  BY <1>1, <1>4, <1>6, <1>7, <1>8, Moves

\* What a handler reads is what the server has said.
LEMMA HandReads ==
    ASSUME Runs, NEW n \in Nat \ {0}, Reads(n), wire' = wire, Live(rfb') <=> Live(rfb)
    PROVE  /\ Ahead' = Drop(Ahead, n) /\ n <= RQlen(buf) /\ n <= Len(Ahead) /\ Peek(1) = Ahead[1]
           /\ RQlen(buf)' = RQlen(buf) - n /\ Ahead # <<>> /\ Ahead \in Seq(Units0)
           /\ rfb.conn = "connecting" => Quiet /\ srv.wants = {}
<1>1. Sound(buf) /\ wire \in Seq(Units0)
  BY BaseIs DEF Runs
<1>2. Ahead' = Drop(Ahead, n) /\ n <= RQlen(buf) /\ RQlen(buf)' = RQlen(buf) - n
  BY <1>1, ReadsDrops
<1>3. /\ Ahead \in Seq(Units0) /\ RQlen(buf) \in Nat /\ RQlen(buf) <= Len(Ahead)
      /\ \A i \in 1 .. RQlen(buf) : Ahead[i] = Peek(i)
  BY <1>1, AheadIs
<1>4. n <= Len(Ahead) /\ Peek(1) = Ahead[1] /\ Ahead # <<>>
  <2>1. 1 \in 1 .. RQlen(buf) /\ Len(Ahead) > 0
    BY <1>2, <1>3
  <2> QED
    BY <1>2, <1>3, <2>1, EmptySeq
<1>5. rfb.conn = "connecting" => Talk
  BY Turned
<1> QED
  BY <1>2, <1>3, <1>4, <1>5 DEF Talk, Waiting

\* A handler that reads nothing leaves what is ahead.
LEMMA HandPlain ==
    ASSUME Runs, buf' = buf, wire' = wire, Live(rfb') <=> Live(rfb)
    PROVE  Ahead' = Ahead /\ RQlen(buf)' = RQlen(buf)
BY DEF Ahead, RQlen

\* The first unit of what a handler reads is where it should be.
LEMMA AtIs ==
    ASSUME NEW k, Parts \subseteq DOMAIN rfb
    PROVE  /\ \A p \in Parts \ {"synced"} : At(k)[p] = rfb[p]
           /\ Parts \subseteq DOMAIN At(k) /\ DOMAIN At(k) = DOMAIN rfb
           /\ rfb.synced /\ Peek(1).k = k /\ Peek(1).i = 1 => At(k).synced
BY DEF At, Parts

\* A message is read where it begins.
LEMMA Begins ==
    ASSUME Fresh, Parts \subseteq DOMAIN rfb, NEW k, NEW x, Peek(1) = U(k, 1, x)
    PROVE  At(k).synced /\ Peek(1).x = x
<1>1. Peek(1).k = k /\ Peek(1).i = 1 /\ Peek(1).x = x
  BY DEF U
<1>2. rfb.synced
  BY DEF Fresh
<1> QED
  BY <1>1, <1>2, AtIs

\* What a handler writes of a session.
LEMMA Written ==
    ASSUME NEW r, Parts \subseteq DOMAIN r, NEW f \in Parts, NEW v
    PROVE  /\ [r EXCEPT ![f] = v][f] = v
           /\ \A p \in Parts \ {f} : [r EXCEPT ![f] = v][p] = r[p]
           /\ Parts \subseteq DOMAIN [r EXCEPT ![f] = v]
OBVIOUS

\* A message that asks the server for an answer, sent when all has been read.
LEMMA AsksWaits ==
    ASSUME up \in Seq(Silent), ws.ready = "open", NEW m, Send(<<m>>), Ahead' = <<>>, srv' = srv,
           srv.stage \notin {"shown", "normal"}, Asks(rfb', m, srv.stage), srv.wants = {}
    PROVE  Talk'
<1>1. up' = up \o <<m>>
  BY DEF Send
<1>2. Asked(up', m)
  BY <1>1, SendsSilent
<1> QED
  BY <1>2 DEF Talk, Waiting, Asked

\* The protocol version.
LEMMA VersionHand ==
    ASSUME Runs, Base', NegotiateProtocolVersion
    PROVE  Hand'
<1>0. Fresh /\ Resuming /\ Parts \subseteq DOMAIN rfb
  BY Turned, BaseIs DEF Runs
<1>1. turn = "init" /\ rfb.conn = "connecting" /\ rfb.init = "ProtocolVersion" /\ ws.ready = "open"
  <2>1. rfb.init = "ProtocolVersion"
    BY DEF NegotiateProtocolVersion, InitTurn
  <2>2. turn # "once"
    BY <1>0, <2>1 DEF Resuming, Asking
  <2> QED
    BY <2>1, <2>2, Turned DEF Runs
<1>2. CASE WaitsFor(0, 1, 0)
  BY <1>2, WaitsHand
<1>3. CASE ~ WaitsFor(0, 1, 0)
  <2>1. /\ Reads(1) /\ Ends /\ rfb' = [At("version") EXCEPT !.init = "Security"]
        /\ Send(<<"version">>) /\ ui' = ui /\ ws' = ws /\ disp' = disp /\ wire' = wire /\ srv' = srv
    BY <1>3 DEF NegotiateProtocolVersion
  <2>2. /\ rfb'.init = "Security" /\ rfb'.synced = At("version").synced
        /\ \A p \in Parts \ {"init", "synced"} : rfb'[p] = rfb[p]
    BY <1>0, <2>1, AtIs DEF Parts
  <2>3. Live(rfb') <=> Live(rfb)
    BY <2>2 DEF Live, Parts
  <2>4. /\ Ahead' = Drop(Ahead, 1) /\ Peek(1) = Ahead[1] /\ Quiet /\ srv.wants = {}
    BY <1>1, <2>1, <2>3, HandReads
  <2>5. Ahead = <<U("version", 1, <<>>)>> /\ up \in Seq(Silent)
        /\ srv.stage \notin {"shown", "normal", "vencrypt"}
    BY <1>1, <2>4 DEF Quiet, Says
  <2>6. Ahead' = <<>> /\ Peek(1) = U("version", 1, <<>>)
    BY <2>4, <2>5, DropShort, HandshakeUnits
  <2>7. rfb'.synced
    BY <1>0, <2>2, <2>6, Begins
  <2>8. Talk'
    <3>1. Asks(rfb', "version", srv.stage)
      BY <2>2, <2>5 DEF Asks
    <3> QED
      BY <1>1, <2>1, <2>4, <2>5, <2>6, <3>1, AsksWaits
  <2>9. Resuming' /\ turn' \in {"idle", "end"}
    <3>1. /\ rfb'.scheme = rfb.scheme /\ rfb'.creds = rfb.creds /\ rfb'.ard = rfb.ard /\ rfb'.resumes = rfb.resumes
          /\ rfb'.vencrypt = rfb.vencrypt /\ rfb'.tight = rfb.tight
      BY <2>2 DEF Parts
    <3>2. turn' \in {"idle", "end"}
      BY <2>1 DEF Ends
    <3> QED
      BY <1>0, <1>1, <2>1, <2>2, <3>1, <3>2 DEF Resuming, Asking, Auth
  <2>10. \A p \in Parts \ Steps : rfb'[p] = rfb[p]
    BY <2>2 DEF Steps
  <2> QED
    BY <1>1, <2>1, <2>7, <2>8, <2>9, <2>10, Moves
<1> QED
  BY <1>2, <1>3

\* Where no credentials are asked for, no timer is waited for either.
LEMMA Settled ==
    ASSUME Runs, ~ Asking(rfb), rfb.init = "SecurityResult" => RQlen(buf) > 0
    PROVE  /\ turn = "init" /\ rfb.conn = "connecting" /\ ws.ready = "open" /\ Live(rfb) /\ Talk
           /\ rfb.resumes = 0 /\ ~ ui.dialog /\ rfb.ard = "idle" /\ Fresh /\ Parts \subseteq DOMAIN rfb
           /\ rfb.init \in {"", "ProtocolVersion", "Security"} => rfb.vencrypt = 0 /\ ~ rfb.tight
<1>0. Fresh /\ Resuming /\ Parts \subseteq DOMAIN rfb /\ rfb.resumes \in Nat /\ RQlen(buf) \in Nat
  BY Turned, BaseIs DEF Runs
<1>1. turn # "once"
  <2>1. ~ (RQlen(buf) > 0 /\ RQlen(buf) = 0)
    BY <1>0
  <2> QED
    BY <1>0, <2>1 DEF Resuming
<1>2. turn = "init" /\ rfb.conn = "connecting"
  BY <1>1 DEF Runs
<1>3. ~ (rfb.resumes > 0)
  <2>1. Sound(buf) /\ wire \in Seq(Units0)
    BY BaseIs DEF Runs
  <2>2. RQlen(buf) > 0 => Ahead # <<>>
    BY <2>1, AheadIs, EmptySeq
  <2> QED
    BY <1>0, <2>2 DEF Resuming
<1>4. rfb.resumes = 0
  BY <1>0, <1>3
<1>5. ~ ui.dialog /\ rfb.ard = "idle"
  BY <1>0 DEF Resuming, Auth, Asking, Dialogs
<1> QED
  BY <1>0, <1>2, <1>4, <1>5, Turned DEF Resuming

\* No resumed handshake is waiting when their count is zero.
LEMMA NoneMore == ~ (0 > 0)
OBVIOUS

\* A handler that shows no dialog and starts no timer is settled after it.
LEMMA StaysSettled ==
    ASSUME ui' = ui, ~ ui.dialog, rfb'.ard = "idle", rfb'.resumes = 0, turn' # "once",
           rfb'.init \notin {"", "ProtocolVersion", "Security"}
    PROVE  Resuming'
<1>1. ~ (rfb'.resumes > 0)
  BY NoneMore, Zenon
<1> QED
  BY <1>1 DEF Resuming

\* No authentication.
LEMMA NoAuthHand ==
    ASSUME Runs, Base', NoAuth
    PROVE  Hand'
<1>0. /\ rfb.init = "Authentication" /\ rfb.scheme = "none" /\ rfb' = [rfb EXCEPT !.init = "SecurityResult"]
      /\ Send(<<>>) /\ GoesOn /\ ui' = ui /\ ws' = ws /\ buf' = buf /\ disp' = disp /\ wire' = wire /\ srv' = srv
  BY DEF NoAuth, Scheme, InitTurn, Authenticated
<1>1. /\ turn = "init" /\ rfb.conn = "connecting" /\ ws.ready = "open" /\ Talk
      /\ rfb.resumes = 0 /\ ~ ui.dialog /\ rfb.ard = "idle" /\ Fresh /\ Parts \subseteq DOMAIN rfb
  BY <1>0, Settled DEF Asking, Dialogs
<1>2. rfb'.init = "SecurityResult" /\ \A p \in Parts \ {"init"} : rfb'[p] = rfb[p]
  BY <1>0, <1>1 DEF Parts
<1>3. /\ rfb'.conn = rfb.conn /\ rfb'.ard = rfb.ard /\ rfb'.resumes = rfb.resumes /\ rfb'.synced = rfb.synced
  BY <1>2 DEF Parts
<1>4. Ahead' = Ahead
  BY <1>0, <1>3, HandPlain DEF Live
<1>5. up' = up
  <2>1. up \in Seq(Silent) \/ \E m : Asked(up, m)
    BY <1>1 DEF Talk, Quiet, Waiting
  <2>2. \E X : up \in Seq(X)
    <3>1. ASSUME NEW m, Asked(up, m) PROVE up \in Seq(Silent \cup {m})
      <4>1. PICK p \in Seq(Silent) : up = Append(p, m)
        BY <3>1 DEF Asked
      <4>2. p \in Seq(Silent \cup {m}) /\ m \in Silent \cup {m}
        BY SeqMonotonic
      <4> QED
        BY <4>1, <4>2
    <3> QED
      BY <2>1, <3>1
  <2>3. up \o <<>> = up
    BY <2>2, ConcatEmptySeq
  <2> QED
    BY <1>0, <2>3 DEF Send
<1>6. Talk'
  <2>1. Quiet => Quiet'
    BY <1>0, <1>2, <1>4, <1>5 DEF Quiet, Says, Auth
  <2>2. Waiting => Waiting'
    BY <1>0, <1>2, <1>4, <1>5 DEF Waiting, Asks, Auth
  <2> QED
    BY <1>0, <1>1, <2>1, <2>2 DEF Talk
<1>7. Resuming' /\ turn' = turn
  BY <1>0, <1>1, <1>2, <1>3, StaysSettled DEF GoesOn
<1>8. rfb'.synced /\ \A p \in Parts \ Steps : rfb'[p] = rfb[p]
  BY <1>1, <1>2, <1>3 DEF Fresh, Steps
<1> QED
  BY <1>0, <1>1, <1>6, <1>7, <1>8, Moves

\* The last message of an authentication with credentials.
LEMMA Answered ==
    ASSUME Runs, Base', Asking(rfb), rfb.creds, rfb'.init = "SecurityResult", rfb'.ard = "idle",
           \A p \in Parts \ Steps : rfb'[p] = rfb[p], rfb'.synced, Ahead' = <<>>, Send(<<"response">>), GoesOn,
           ui' = ui, ws' = ws, disp' = disp, srv' = srv,
           rfb.conn = "connecting" => Quiet /\ srv.wants = {}
    PROVE  Hand'
<1>1. Resuming /\ Fresh /\ turn' \in {turn, "idle"} /\ turn' # "once"
  BY Turned DEF GoesOn
<1>2. Resuming'
  <2>1. ~ ui'.dialog
    BY <1>1 DEF Resuming
  <2> QED
    BY <1>1, <2>1 DEF Resuming
<1>3. rfb.conn = "connecting" => Talk'
  <2> SUFFICES ASSUME rfb.conn = "connecting" PROVE Talk'
    OBVIOUS
  <2>1. ws.ready = "open"
    BY Turned
  <2>2. up \in Seq(Silent) /\ srv.wants = {} /\ srv.stage \notin {"shown", "normal"}
    BY DEF Quiet, Asking
  <2>3. Asks(rfb', "response", srv.stage)
    BY DEF Asks
  <2> QED
    BY <2>1, <2>2, <2>3, AsksWaits
<1>4. Begun(rfb', Ahead')
  BY DEF Begun, Auth
<1> QED
  BY <1>1, <1>2, <1>3, <1>4, Moves

\* VNC authentication.
LEMMA VncHand ==
    ASSUME Runs, Base', NegotiateStdVNCAuth
    PROVE  Hand'
<1>0. rfb.init = "Authentication" /\ rfb.scheme = "vnc" /\ Asking(rfb) /\ Auth(rfb, "vnc")
  BY DEF NegotiateStdVNCAuth, Scheme, InitTurn, Asking, Dialogs, Auth
<1>1. Fresh /\ Resuming /\ Parts \subseteq DOMAIN rfb
  BY Turned, BaseIs DEF Runs
<1>2. CASE WaitsFor(0, 1, 0)
  BY <1>2, WaitsHand
<1>3. CASE ~ rfb.creds /\ AskCredentials
  BY <1>0, <1>3, AsksHand
<1>4. CASE rfb.creds /\ Reads(1) /\ Authenticated(At("challenge"), <<"response">>)
           /\ ui' = ui /\ ws' = ws /\ disp' = disp /\ wire' = wire /\ srv' = srv
  <2>1. /\ Reads(1) /\ GoesOn /\ rfb' = [At("challenge") EXCEPT !.init = "SecurityResult"]
        /\ Send(<<"response">>) /\ rfb.creds
    BY <1>4 DEF Authenticated
  <2>2. /\ rfb'.init = "SecurityResult" /\ rfb'.synced = At("challenge").synced
        /\ \A p \in Parts \ {"init", "synced"} : rfb'[p] = rfb[p]
    BY <1>1, <2>1, AtIs DEF Parts
  <2>3. rfb'.conn = rfb.conn /\ rfb'.ard = rfb.ard
    BY <2>2 DEF Parts
  <2>4. /\ Ahead' = Drop(Ahead, 1) /\ Peek(1) = Ahead[1] /\ Ahead # <<>> /\ Ahead \in Seq(Units0)
        /\ 1 <= Len(Ahead) /\ (rfb.conn = "connecting" => Quiet /\ srv.wants = {})
    BY <1>4, <2>1, <2>3, HandReads DEF Live
  <2>5. Ahead = <<U("challenge", 1, <<>>)>>
    <3>1. CASE rfb.conn = "connecting"
      BY <1>0, <2>4, <3>1 DEF Quiet, Says
    <3>2. CASE rfb.conn # "connecting"
      <4>1. Beginning(Ahead, <<U("challenge", 1, <<>>)>>)
        BY <1>0, <3>2, Turned DEF Begun
      <4> DEFINE a == U("challenge", 1, <<>>)
      <4>2. <<a>> \in Seq(Units0) /\ Len(<<a>>) = 1
        BY HandshakeUnits
      <4>3. Len(Ahead) = 1 /\ Ahead[1] = <<a>>[1]
        BY <2>4, <4>1, <4>2 DEF Beginning
      <4> QED
        BY <2>4, <4>2, <4>3, SeqEqual
    <3> QED
      BY <3>1, <3>2
  <2>6. Ahead' = <<>> /\ Peek(1) = U("challenge", 1, <<>>)
    BY <2>4, <2>5, DropShort, HandshakeUnits
  <2>7. rfb'.synced
    BY <1>1, <2>2, <2>6, Begins
  <2>8. rfb'.ard = "idle"
    BY <1>0, <1>1, <2>3 DEF Resuming, Auth
  <2>9. \A p \in Parts \ Steps : rfb'[p] = rfb[p]
    BY <2>2 DEF Steps
  <2> QED
    BY <1>0, <1>4, <2>1, <2>2, <2>4, <2>6, <2>7, <2>8, <2>9, Answered
<1> QED
  BY <1>2, <1>3, <1>4 DEF NegotiateStdVNCAuth

\* Plain authentication has nothing to read.
LEMMA PlainSilent ==
    ASSUME Runs, Auth(rfb, "plain") \/ Auth(rfb, "xvp") \/ (Auth(rfb, "ard") /\ rfb.ard # "idle")
    PROVE  Ahead = <<>> /\ (rfb.conn = "connecting" => Quiet /\ srv.wants = {})
<1>1. CASE rfb.conn = "connecting"
  <2>1. Talk
    BY <1>1, Turned
  <2>2. ~ Waiting
    BY DEF Waiting, Asks, Auth
  <2> QED
    BY <2>1, <2>2 DEF Talk, Quiet, Says
<1>2. CASE rfb.conn # "connecting"
  BY <1>2, Turned DEF Begun
<1> QED
  BY <1>1, <1>2

\* A user name and a password.
LEMMA PlainHand ==
    ASSUME Runs, Base', NegotiatePlainAuth
    PROVE  Hand'
<1>0. rfb.init = "Authentication" /\ rfb.scheme = "plain" /\ Asking(rfb) /\ Auth(rfb, "plain")
  BY DEF NegotiatePlainAuth, Scheme, InitTurn, Asking, Dialogs, Auth
<1>1. Fresh /\ Resuming /\ Parts \subseteq DOMAIN rfb
  BY Turned, BaseIs DEF Runs
<1>3. CASE ~ rfb.creds /\ AskCredentials
  BY <1>0, <1>3, AsksHand
<1>4. CASE rfb.creds /\ Authenticated(rfb, <<"response">>)
           /\ ui' = ui /\ ws' = ws /\ buf' = buf /\ disp' = disp /\ wire' = wire /\ srv' = srv
  <2>1. GoesOn /\ rfb' = [rfb EXCEPT !.init = "SecurityResult"] /\ Send(<<"response">>) /\ rfb.creds
    BY <1>4 DEF Authenticated
  <2>2. rfb'.init = "SecurityResult" /\ \A p \in Parts \ {"init"} : rfb'[p] = rfb[p]
    BY <1>1, <2>1 DEF Parts
  <2>3. rfb'.conn = rfb.conn /\ rfb'.ard = rfb.ard /\ rfb'.synced = rfb.synced
    BY <2>2 DEF Parts
  <2>4. Ahead' = Ahead
    BY <1>4, <2>3, HandPlain DEF Live
  <2>5. Ahead = <<>> /\ (rfb.conn = "connecting" => Quiet /\ srv.wants = {})
    BY <1>0, PlainSilent
  <2>6. rfb'.ard = "idle" /\ rfb'.synced
    BY <1>0, <1>1, <2>3 DEF Resuming, Auth, Fresh
  <2>7. \A p \in Parts \ Steps : rfb'[p] = rfb[p]
    BY <2>2 DEF Steps
  <2> QED
    BY <1>0, <1>4, <2>1, <2>2, <2>4, <2>5, <2>6, <2>7, Answered
<1> QED
  BY <1>3, <1>4 DEF NegotiatePlainAuth

\* XVP authentication.
LEMMA XvpHand ==
    ASSUME Runs, Base', NegotiateXvpAuth
    PROVE  Hand'
<1>0. rfb.init = "Authentication" /\ rfb.scheme = "xvp" /\ Asking(rfb) /\ Auth(rfb, "xvp")
  BY DEF NegotiateXvpAuth, Scheme, InitTurn, Asking, Dialogs, Auth
<1>1. Fresh /\ Resuming /\ Parts \subseteq DOMAIN rfb
  BY Turned, BaseIs DEF Runs
<1>3. CASE ~ rfb.creds /\ AskCredentials
  BY <1>0, <1>3, AsksHand
<1>4. CASE rfb.creds /\ rfb' = [rfb EXCEPT !.scheme = "vnc"] /\ Send(<<"target">>) /\ turn' = turn
           /\ ui' = ui /\ ws' = ws /\ buf' = buf /\ disp' = disp /\ wire' = wire /\ srv' = srv
  <2>2. rfb'.scheme = "vnc" /\ \A p \in Parts \ {"scheme"} : rfb'[p] = rfb[p]
    BY <1>1, <1>4 DEF Parts
  <2>3. /\ rfb'.conn = rfb.conn /\ rfb'.ard = rfb.ard /\ rfb'.synced = rfb.synced /\ rfb'.init = rfb.init
        /\ rfb'.resumes = rfb.resumes /\ rfb'.creds = rfb.creds
    BY <2>2 DEF Parts
  <2>4. Ahead' = Ahead
    BY <1>4, <2>3, HandPlain DEF Live
  <2>5. Ahead = <<>> /\ (rfb.conn = "connecting" => Quiet /\ srv.wants = {})
    BY <1>0, PlainSilent
  <2>6. Resuming' /\ rfb'.synced
    <3>1. Asking(rfb)' /\ rfb'.ard = "idle" /\ ~ ui'.dialog
      BY <1>0, <1>1, <1>4, <2>2, <2>3 DEF Resuming, Auth, Asking, Dialogs
    <3> QED
      BY <1>0, <1>1, <2>3, <3>1 DEF Resuming, Fresh, Auth
  <2>7. \A p \in Parts \ Steps : rfb'[p] = rfb[p]
    BY <2>2 DEF Steps
  <2>8. rfb.conn = "connecting" => Talk'
    <3> SUFFICES ASSUME rfb.conn = "connecting" PROVE Talk'
      OBVIOUS
    <3>1. ws.ready = "open"
      BY Turned
    <3>2. up \in Seq(Silent) /\ srv.wants = {} /\ srv.stage \notin {"shown", "normal"}
      BY <1>0, <2>5 DEF Quiet
    <3>3. Asks(rfb', "target", srv.stage)
      BY <1>0, <2>2, <2>3 DEF Asks, Auth
    <3> QED
      BY <1>4, <2>4, <2>5, <3>1, <3>2, <3>3, AsksWaits
  <2>9. Begun(rfb', Ahead')
    <3>1. Beginning(<<>>, <<U("challenge", 1, <<>>)>>)
      <4>1. Len(<<>>) = 0 /\ Len(<<U("challenge", 1, <<>>)>>) = 1
        OBVIOUS
      <4> QED
        BY <4>1 DEF Beginning
    <3> QED
      BY <2>2, <2>4, <2>5, <3>1 DEF Begun, Auth
  <2> QED
    BY <1>4, <2>6, <2>7, <2>8, <2>9, Moves
<1> QED
  BY <1>3, <1>4 DEF NegotiateXvpAuth

\* Reading the two units of a message, and the first of three.
LEMMA PairRead ==
    ASSUME NEW k \in UnitKinds, NEW S, S = <<U(k, 1, <<>>), U(k, 2, <<>>)>>
    PROVE  Drop(S, 2) = <<>> /\ S[1] = U(k, 1, <<>>)
<1>1. U(k, 1, <<>>) \in Units0 /\ U(k, 2, <<>>) \in Units0
  BY UnitTyped, NoDetail
<1> QED
  BY <1>1, DropShort

LEMMA FirstOfThree ==
    ASSUME NEW a \in Units0, NEW b \in Units0, NEW c \in Units0, NEW S, S = <<a, b, c>>
    PROVE  Drop(S, 1) = <<b, c>> /\ S[1] = a
BY DropShort

\* Apple's key exchange.
LEMMA ArdHand ==
    ASSUME Runs, Base', NegotiateARDAuth
    PROVE  Hand'
<1>0. rfb.init = "Authentication" /\ rfb.scheme = "ard" /\ Asking(rfb) /\ Auth(rfb, "ard")
  BY DEF NegotiateARDAuth, Scheme, InitTurn, Asking, Dialogs, Auth
<1>1. Fresh /\ Resuming /\ Parts \subseteq DOMAIN rfb
  BY Turned, BaseIs DEF Runs
<1>2. CASE WaitsFor(0, 1, 0) \/ WaitsFor(1, 1, 1)
  BY <1>2, WaitsHand
<1>3. CASE ~ rfb.creds /\ AskCredentials
  BY <1>0, <1>3, AsksHand
<1>4. CASE rfb.creds /\ rfb.ard = "ready" /\ Authenticated([rfb EXCEPT !.ard = "idle"], <<"response">>)
           /\ ui' = ui /\ ws' = ws /\ buf' = buf /\ disp' = disp /\ wire' = wire /\ srv' = srv
  <2>1. GoesOn /\ rfb' = [[rfb EXCEPT !.ard = "idle"] EXCEPT !.init = "SecurityResult"] /\ Send(<<"response">>) /\ rfb.creds
    BY <1>4 DEF Authenticated
  <2>2. rfb'.init = "SecurityResult" /\ rfb'.ard = "idle" /\ \A p \in Parts \ {"init", "ard"} : rfb'[p] = rfb[p]
    BY <1>1, <2>1 DEF Parts
  <2>3. rfb'.conn = rfb.conn /\ rfb'.synced = rfb.synced
    BY <2>2 DEF Parts
  <2>4. Ahead' = Ahead
    BY <1>4, <2>3, HandPlain DEF Live
  <2>5. Ahead = <<>> /\ (rfb.conn = "connecting" => Quiet /\ srv.wants = {})
    BY <1>0, <1>4, PlainSilent
  <2>6. rfb'.synced
    BY <1>1, <2>3 DEF Fresh
  <2>7. \A p \in Parts \ Steps : rfb'[p] = rfb[p]
    BY <2>2 DEF Steps
  <2> QED
    BY <1>0, <1>4, <2>1, <2>2, <2>4, <2>5, <2>6, <2>7, Answered
<1>5. CASE rfb.creds /\ rfb.ard # "ready" /\ Reads(2) /\ Ends /\ rfb' = [At("dh") EXCEPT !.ard = "computing"]
           /\ ui' = ui /\ ws' = ws /\ disp' = disp /\ wire' = wire /\ up' = up /\ srv' = srv
  <2>2. /\ rfb'.ard = "computing" /\ rfb'.synced = At("dh").synced
        /\ \A p \in Parts \ {"ard", "synced"} : rfb'[p] = rfb[p]
    BY <1>1, <1>5, AtIs DEF Parts
  <2>3. /\ rfb'.conn = rfb.conn /\ rfb'.init = rfb.init /\ rfb'.scheme = rfb.scheme /\ rfb'.creds = rfb.creds
    BY <2>2 DEF Parts
  <2>4. /\ Ahead' = Drop(Ahead, 2) /\ Peek(1) = Ahead[1] /\ Ahead # <<>> /\ Ahead \in Seq(Units0)
        /\ 2 <= Len(Ahead) /\ (rfb.conn = "connecting" => Quiet /\ srv.wants = {})
    BY <1>5, <2>3, HandReads DEF Live
  <2>5. rfb.ard = "idle"
    BY <1>0, <2>4, PlainSilent
  <2> DEFINE a == U("dh", 1, <<>>)
             b == U("dh", 2, <<>>)
  <2>6. Ahead = <<a, b>>
    <3>1. CASE rfb.conn = "connecting"
      BY <1>0, <2>4, <2>5, <3>1 DEF Quiet, Says
    <3>2. CASE rfb.conn # "connecting"
      <4>1. Beginning(Ahead, <<a, b>>)
        BY <1>0, <2>5, <3>2, Turned DEF Begun
      <4>2. a \in Units0 /\ b \in Units0
        BY HandshakeUnits
      <4> HIDE DEF a, b
      <4>3. <<a, b>> \in Seq(Units0) /\ Len(<<a, b>>) = 2
        BY <4>2
      <4>4. Len(Ahead) = 2 /\ \A i \in 1 .. 2 : Ahead[i] = <<a, b>>[i]
        <5>1. Len(Ahead) \in Nat /\ 2 <= Len(Ahead)
          BY <2>4
        <5> QED
          BY <4>1, <4>3, <5>1 DEF Beginning
      <4> QED
        BY <2>4, <4>3, <4>4, SeqEqual
    <3> QED
      BY <3>1, <3>2
  <2>7. Ahead' = <<>> /\ Peek(1) = U("dh", 1, <<>>)
    <3>1. "dh" \in UnitKinds
      BY DEF UnitKinds
    <3> QED
      BY <2>4, <2>6, <3>1, PairRead
  <2>8. rfb'.synced
    BY <1>1, <2>2, <2>7, Begins
  <2>9. Auth(rfb', "ard") /\ Asking(rfb)'
    BY <1>0, <2>3 DEF Auth, Asking
  <2>10. Resuming'
    <3>1. ~ ui'.dialog /\ turn' # "once"
      BY <1>1, <1>5 DEF Resuming, Ends
    <3> QED
      BY <1>0, <2>3, <2>9, <3>1 DEF Resuming
  <2>11. \A p \in Parts \ Steps : rfb'[p] = rfb[p]
    BY <2>2 DEF Steps
  <2>12. rfb.conn = "connecting" => Talk'
    <3> SUFFICES ASSUME rfb.conn = "connecting" PROVE Talk'
      OBVIOUS
    <3>1. up \in Seq(Silent) /\ srv.wants = {} /\ srv.stage \notin {"shown", "normal"}
      BY <1>0, <2>4 DEF Quiet
    <3>2. Says(rfb', Ahead')
      BY <2>2, <2>7, <2>9 DEF Says, Auth
    <3> QED
      BY <1>5, <2>9, <3>1, <3>2 DEF Talk, Quiet, Auth
  <2>13. Begun(rfb', Ahead')
    BY <2>2, <2>7, <2>9 DEF Begun, Auth
  <2> QED
    BY <1>5, <2>8, <2>10, <2>11, <2>12, <2>13, Moves DEF Ends
<1> QED
  BY <1>2, <1>3, <1>4, <1>5 DEF NegotiateARDAuth

\* Tight: tunnels, then the sub-authentications.
LEMMA TightHand ==
    ASSUME Runs, Base', NegotiateTightAuth
    PROVE  Hand'
<1>0. rfb.init = "Authentication" /\ rfb.scheme = "tight" /\ ~ Asking(rfb) /\ Auth(rfb, "tight")
  BY DEF NegotiateTightAuth, Scheme, InitTurn, Asking, Dialogs, Auth
<1>1. /\ turn = "init" /\ rfb.conn = "connecting" /\ ws.ready = "open"
      /\ rfb.resumes = 0 /\ ~ ui.dialog /\ rfb.ard = "idle" /\ Fresh /\ Parts \subseteq DOMAIN rfb
  BY <1>0, Settled
<1>2. CASE WaitsFor(0, 1, 0) \/ WaitsFor(1, 1, 1)
  BY <1>2, WaitsHand
<1>3. CASE ~ (WaitsFor(0, 1, 0) \/ WaitsFor(1, 1, 1))
  <2>1. /\ Reads(2) /\ ui' = ui /\ ws' = ws /\ disp' = disp /\ wire' = wire /\ srv' = srv
        /\ \/ /\ rfb.tight /\ rfb' = [At("subauths") EXCEPT !.scheme = "vnc"]
              /\ Send(<<"subauth">>) /\ GoesOn
           \/ /\ ~ rfb.tight /\ rfb' = [At("tunnels") EXCEPT !.tight = TRUE]
              /\ Send(<<"tunnel">>) /\ Ends
    BY <1>3 DEF NegotiateTightAuth
  <2>2. \A p \in Parts \ {"scheme", "tight", "synced"} : rfb'[p] = rfb[p]
    BY <1>1, <2>1, AtIs DEF Parts
  <2>3. /\ rfb'.conn = rfb.conn /\ rfb'.init = rfb.init /\ rfb'.ard = rfb.ard /\ rfb'.resumes = rfb.resumes
    BY <2>2 DEF Parts
  <2>4. /\ Ahead' = Drop(Ahead, 2) /\ Peek(1) = Ahead[1] /\ Quiet /\ srv.wants = {}
    BY <1>1, <2>1, <2>3, HandReads DEF Live
  <2>5. up \in Seq(Silent) /\ srv.stage \notin {"shown", "normal"}
    BY <1>0, <2>4 DEF Quiet
  <2>6. Resuming' /\ turn' \in {turn, "idle", "end"}
    BY <1>0, <1>1, <2>1, <2>3, StaysSettled DEF GoesOn, Ends
  <2>7. \A p \in Parts \ Steps : rfb'[p] = rfb[p]
    BY <2>2 DEF Steps
  <2>8. CASE rfb.tight /\ rfb' = [At("subauths") EXCEPT !.scheme = "vnc"] /\ Send(<<"subauth">>)
    <3>1. rfb'.scheme = "vnc" /\ rfb'.synced = At("subauths").synced
      BY <1>1, <2>8, AtIs DEF Parts
    <3>2. Ahead = <<U("subauths", 1, <<>>), U("subauths", 2, <<>>)>>
      BY <1>0, <2>4, <2>8 DEF Quiet, Says
    <3>3. Ahead' = <<>> /\ Peek(1) = U("subauths", 1, <<>>)
      <4>1. "subauths" \in UnitKinds
        BY DEF UnitKinds
      <4> QED
        BY <2>4, <3>2, <4>1, PairRead
    <3>4. rfb'.synced
      BY <1>1, <3>1, <3>3, Begins
    <3>5. Asks(rfb', "subauth", srv.stage)
      BY <1>0, <2>3, <3>1 DEF Asks, Auth
    <3>6. Talk'
      BY <1>1, <2>1, <2>4, <2>5, <2>8, <3>3, <3>5, AsksWaits
    <3> QED
      BY <1>1, <2>1, <2>6, <2>7, <3>4, <3>6, Moves
  <2>9. CASE ~ rfb.tight /\ rfb' = [At("tunnels") EXCEPT !.tight = TRUE] /\ Send(<<"tunnel">>)
    <3>1. rfb'.tight /\ rfb'.scheme = rfb.scheme /\ rfb'.synced = At("tunnels").synced
      BY <1>1, <2>9, AtIs DEF Parts
    <3>2. Ahead = <<U("tunnels", 1, <<>>), U("tunnels", 2, <<>>)>>
      BY <1>0, <2>4, <2>9 DEF Quiet, Says
    <3>3. Ahead' = <<>> /\ Peek(1) = U("tunnels", 1, <<>>)
      <4>1. "tunnels" \in UnitKinds
        BY DEF UnitKinds
      <4> QED
        BY <2>4, <3>2, <4>1, PairRead
    <3>4. rfb'.synced
      BY <1>1, <3>1, <3>3, Begins
    <3>5. Asks(rfb', "tunnel", srv.stage)
      BY <1>0, <2>3, <3>1 DEF Asks, Auth
    <3>6. Talk'
      BY <1>1, <2>1, <2>4, <2>5, <2>9, <3>3, <3>5, AsksWaits
    <3> QED
      BY <1>1, <2>1, <2>6, <2>7, <3>4, <3>6, Moves
  <2> QED
    BY <2>1, <2>8, <2>9
<1> QED
  BY <1>2, <1>3

\* VeNCrypt: the version, the acknowledgment, the number and the sub-types.
LEMMA VencryptHand ==
    ASSUME Runs, Base', NegotiateVeNCryptAuth
    PROVE  Hand'
<1>0. rfb.init = "Authentication" /\ rfb.scheme = "vencrypt" /\ ~ Asking(rfb) /\ Auth(rfb, "vencrypt")
  BY DEF NegotiateVeNCryptAuth, Scheme, InitTurn, Asking, Dialogs, Auth
<1>1. /\ turn = "init" /\ rfb.conn = "connecting" /\ ws.ready = "open"
      /\ rfb.resumes = 0 /\ ~ ui.dialog /\ rfb.ard = "idle" /\ Fresh /\ Parts \subseteq DOMAIN rfb
  BY <1>0, Settled
<1>2. CASE WaitsFor(0, 1, 0)
  BY <1>2, WaitsHand
<1>3. CASE ~ WaitsFor(0, 1, 0)
  <2> DEFINE kind == VeNCryptUnit[rfb.vencrypt + 1]
             r == At(kind)
  <2>1. /\ Reads(1) /\ ui' = ui /\ ws' = ws /\ disp' = disp /\ wire' = wire /\ srv' = srv
        /\ IF rfb.vencrypt < 3
           THEN /\ rfb' = [r EXCEPT !.vencrypt = @ + 1]
                /\ Send(IF rfb.vencrypt = 0 THEN <<"vencrypt">> ELSE <<>>)
                /\ turn' = turn
           ELSE /\ rfb' = [r EXCEPT !.scheme = "plain"] /\ Send(<<"plain">>) /\ GoesOn
    BY <1>3 DEF NegotiateVeNCryptAuth
  <2>2. Parts \subseteq DOMAIN r /\ \A p \in Parts \ {"synced"} : r[p] = rfb[p]
    BY <1>1, AtIs
  <2> HIDE DEF r
  <2>3. \A p \in Parts \ {"scheme", "vencrypt", "synced"} : rfb'[p] = rfb[p]
    BY <2>1, <2>2 DEF Parts
  <2>4. /\ rfb'.conn = rfb.conn /\ rfb'.init = rfb.init /\ rfb'.ard = rfb.ard /\ rfb'.resumes = rfb.resumes
    BY <2>3 DEF Parts
  <2>5. /\ Ahead' = Drop(Ahead, 1) /\ Peek(1) = Ahead[1] /\ Quiet /\ srv.wants = {}
    BY <1>1, <2>1, <2>4, HandReads DEF Live
  <2>6. up \in Seq(Silent) /\ srv.stage \notin {"shown", "normal"} /\ Says(rfb, Ahead)
        /\ (rfb.vencrypt = 0 => srv.stage = "vencrypt")
    BY <1>0, <2>5 DEF Quiet
  <2>7. Resuming' /\ turn' \in {turn, "idle", "end"}
    BY <1>0, <1>1, <2>1, <2>4, StaysSettled DEF GoesOn
  <2>8. \A p \in Parts \ Steps : rfb'[p] = rfb[p]
    BY <2>3 DEF Steps
  <2>9. /\ VeNCryptUnit[1] = "vencrypt" /\ VeNCryptUnit[2] = "ack" /\ VeNCryptUnit[3] = "count"
        /\ VeNCryptUnit[4] = "subtypes"
    BY DEF VeNCryptUnit
  <2>10. CASE rfb.vencrypt < 3
    <3>1. /\ rfb' = [r EXCEPT !.vencrypt = @ + 1] /\ Send(IF rfb.vencrypt = 0 THEN <<"vencrypt">> ELSE <<>>)
      BY <2>1, <2>10
    <3>2. rfb'.vencrypt = rfb.vencrypt + 1 /\ rfb'.scheme = rfb.scheme /\ rfb'.synced = r.synced
      BY <2>2, <3>1 DEF Parts
    <3>3. Auth(rfb', "vencrypt")
      BY <1>0, <2>4, <3>2 DEF Auth
    <3>4. CASE rfb.vencrypt = 0
      <4>1. Ahead = <<U("vencrypt", 1, <<>>)>>
        BY <1>0, <2>6, <3>4 DEF Says
      <4>2. Ahead' = <<>> /\ Peek(1) = U("vencrypt", 1, <<>>)
        BY <2>5, <4>1, DropShort, HandshakeUnits
      <4>3. rfb'.synced
        BY <1>1, <2>9, <3>2, <3>4, <4>2, Begins DEF r
      <4>4. Asks(rfb', "vencrypt", srv.stage)
        BY <2>6, <3>2, <3>3, <3>4 DEF Asks
      <4>5. Talk'
        BY <1>1, <2>1, <2>5, <2>6, <3>1, <3>4, <4>2, <4>4, AsksWaits
      <4> QED
        BY <1>1, <2>1, <2>7, <2>8, <4>3, <4>5, Moves
    <3>5. ASSUME rfb.vencrypt # 0, rfb'.synced, Says(rfb', Ahead'), rfb'.vencrypt # 0 PROVE Hand'
      <4>1. up' = up
        BY <1>1, <2>6, <3>1, <3>5, ConcatEmptySeq DEF Send
      <4>2. Talk'
        BY <1>0, <2>1, <2>4, <2>5, <2>6, <3>5, <4>1 DEF Talk, Quiet
      <4> QED
        BY <1>1, <2>1, <2>7, <2>8, <3>5, <4>2, Moves
    <3>6. CASE rfb.vencrypt = 1
      <4>1. Ahead = <<U("ack", 1, <<>>), U("count", 1, <<>>), U("subtypes", 1, <<>>)>>
        BY <1>0, <2>6, <3>6 DEF Says
      <4>2. Ahead' = <<U("count", 1, <<>>), U("subtypes", 1, <<>>)>> /\ Peek(1) = U("ack", 1, <<>>)
        <5>1. U("ack", 1, <<>>) \in Units0 /\ U("count", 1, <<>>) \in Units0 /\ U("subtypes", 1, <<>>) \in Units0
          BY HandshakeUnits
        <5> QED
          BY <2>5, <4>1, <5>1, FirstOfThree
      <4>3. rfb'.synced
        BY <1>1, <2>9, <3>2, <3>6, <4>2, Begins DEF r
      <4>4. rfb'.vencrypt = 2
        BY <3>2, <3>6
      <4>5. Says(rfb', Ahead')
        BY <3>3, <4>2, <4>4 DEF Says, Auth
      <4> QED
        BY <3>5, <3>6, <4>3, <4>4, <4>5
    <3>7. CASE rfb.vencrypt = 2
      <4>1. Ahead = <<U("count", 1, <<>>), U("subtypes", 1, <<>>)>>
        BY <1>0, <2>6, <3>7 DEF Says
      <4>2. Ahead' = <<U("subtypes", 1, <<>>)>> /\ Peek(1) = U("count", 1, <<>>)
        BY <2>5, <4>1, DropShort, HandshakeUnits
      <4>3. rfb'.synced
        BY <1>1, <2>9, <3>2, <3>7, <4>2, Begins DEF r
      <4>4. rfb'.vencrypt = 3
        BY <3>2, <3>7
      <4>5. Says(rfb', Ahead')
        BY <3>3, <4>2, <4>4 DEF Says, Auth
      <4> QED
        BY <3>5, <3>7, <4>3, <4>4, <4>5
    <3>8. rfb.vencrypt \in {0, 1, 2, 3}
      BY <1>0, <2>6 DEF Says
    <3> QED
      BY <2>10, <3>4, <3>6, <3>7, <3>8
  <2>11. CASE ~ (rfb.vencrypt < 3)
    <3>1. rfb' = [r EXCEPT !.scheme = "plain"] /\ Send(<<"plain">>)
      BY <2>1, <2>11
    <3>2. rfb.vencrypt = 3 /\ Ahead = <<U("subtypes", 1, <<>>)>>
      BY <1>0, <2>6, <2>11 DEF Says
    <3>3. Ahead' = <<>> /\ Peek(1) = U("subtypes", 1, <<>>)
      BY <2>5, <3>2, DropShort, HandshakeUnits
    <3>4. rfb'.scheme = "plain" /\ rfb'.synced = r.synced
      BY <2>2, <3>1 DEF Parts
    <3>5. rfb'.synced
      BY <1>1, <2>9, <3>2, <3>3, <3>4, Begins DEF r
    <3>6. up' \in Seq(Silent)
      BY <1>1, <2>6, <3>1, SendsSilent DEF Send, Silent
    <3>7. Says(rfb', Ahead')
      BY <1>0, <2>4, <3>3, <3>4 DEF Says, Auth
    <3>8. Talk'
      BY <1>0, <2>1, <2>4, <2>5, <2>6, <3>4, <3>6, <3>7 DEF Talk, Quiet, Auth
    <3> QED
      BY <1>1, <2>1, <2>7, <2>8, <3>5, <3>8, Moves
  <2> QED
    BY <2>10, <2>11
<1> QED
  BY <1>2, <1>3

\* The result of the authentication.
LEMMA ResultHand ==
    ASSUME Runs, Base', HandleSecurityResult
    PROVE  Hand'
<1>0. rfb.init = "SecurityResult" /\ ~ Asking(rfb) /\ Parts \subseteq DOMAIN rfb /\ RQlen(buf) \in Nat
  BY BaseIs DEF HandleSecurityResult, InitTurn, Asking, Runs
<1>2. CASE WaitsFor(0, 1, 0)
  BY <1>2, WaitsHand
<1>3. CASE ~ WaitsFor(0, 1, 0)
  <2> DEFINE next == IF Peek(1).x = <<"ok">> THEN "ClientInitialisation" ELSE "SecurityReason"
  <2>1. /\ Reads(1) /\ GoesOn /\ rfb' = [At("result") EXCEPT !.init = next]
        /\ ui' = ui /\ ws' = ws /\ disp' = disp /\ wire' = wire /\ up' = up /\ srv' = srv
    BY <1>3 DEF HandleSecurityResult
  <2>2. RQlen(buf) > 0
    BY <1>0, <2>1 DEF Reads
  <2>3. /\ turn = "init" /\ rfb.conn = "connecting" /\ ws.ready = "open"
        /\ rfb.resumes = 0 /\ ~ ui.dialog /\ rfb.ard = "idle" /\ Fresh
    BY <1>0, <2>2, Settled
  <2> HIDE DEF next
  <2>4. /\ rfb'.init = next /\ rfb'.synced = At("result").synced
        /\ \A p \in Parts \ {"init", "synced"} : rfb'[p] = rfb[p]
    BY <1>0, <2>1, AtIs DEF Parts
  <2>5. /\ rfb'.conn = rfb.conn /\ rfb'.ard = rfb.ard /\ rfb'.resumes = rfb.resumes
    BY <2>4 DEF Parts
  <2>6. /\ Ahead' = Drop(Ahead, 1) /\ Peek(1) = Ahead[1] /\ Quiet /\ srv.wants = {}
    BY <2>1, <2>3, <2>5, HandReads DEF Live
  <2>7. up \in Seq(Silent) /\ srv.stage \notin {"shown", "normal"} /\ Says(rfb, Ahead)
    BY <1>0, <2>6 DEF Quiet
  <2>8. Says(rfb', Ahead') /\ rfb'.synced
    <3>1. CASE Ahead = <<U("result", 1, <<"ok">>)>>
      <4>1. Ahead' = <<>> /\ Peek(1) = U("result", 1, <<"ok">>)
        BY <2>6, <3>1, DropShort, HandshakeUnits
      <4>2. Peek(1).x = <<"ok">> /\ At("result").synced
        BY <1>0, <2>3, <4>1, Begins
      <4>3. rfb'.init = "ClientInitialisation"
        BY <2>4, <4>2 DEF next
      <4> QED
        BY <2>4, <4>1, <4>2, <4>3 DEF Says, Auth
    <3>2. CASE Ahead = Refusal
      <4>1. Ahead' = Reasons /\ Peek(1) = U("result", 1, <<"bad">>)
        <5>1. /\ U("result", 1, <<"bad">>) \in Units0 /\ U("reason", 1, <<>>) \in Units0
              /\ U("reason", 2, <<>>) \in Units0
          BY HandshakeUnits
        <5> QED
          BY <2>6, <3>2, <5>1, FirstOfThree DEF Refusal, Reasons
      <4>2. Peek(1).x = <<"bad">> /\ At("result").synced
        BY <1>0, <2>3, <4>1, Begins
      <4>3. <<"bad">> # <<"ok">>
        OBVIOUS
      <4>4. rfb'.init = "SecurityReason"
        BY <2>4, <4>2, <4>3 DEF next
      <4> QED
        BY <2>4, <4>1, <4>2, <4>4 DEF Says, Auth
    <3> QED
      BY <1>0, <2>7, <3>1, <3>2 DEF Says
  <2>9. rfb'.init \in {"ClientInitialisation", "SecurityReason"}
    BY <2>4 DEF next
  <2>10. Talk'
    BY <2>1, <2>6, <2>7, <2>8, <2>9 DEF Talk, Quiet, Auth
  <2>11. Resuming' /\ turn' = turn
    BY <2>1, <2>3, <2>5, <2>9, StaysSettled DEF GoesOn
  <2>12. \A p \in Parts \ Steps : rfb'[p] = rfb[p]
    BY <2>4 DEF Steps
  <2> QED
    BY <2>1, <2>3, <2>8, <2>10, <2>11, <2>12, Moves
<1> QED
  BY <1>2, <1>3

\* The client's initialisation.
LEMMA ClientInitHand ==
    ASSUME Runs, Base', ClientInitialisation
    PROVE  Hand'
<1>0. /\ rfb.init = "ClientInitialisation" /\ ~ Asking(rfb) /\ rfb' = [rfb EXCEPT !.init = "ServerInitialisation"]
      /\ Send(<<"init">>) /\ GoesOn
      /\ ui' = ui /\ ws' = ws /\ buf' = buf /\ disp' = disp /\ wire' = wire /\ srv' = srv
  BY DEF ClientInitialisation, InitTurn, Asking
<1>1. /\ turn = "init" /\ rfb.conn = "connecting" /\ ws.ready = "open" /\ Talk
      /\ rfb.resumes = 0 /\ ~ ui.dialog /\ rfb.ard = "idle" /\ Fresh /\ Parts \subseteq DOMAIN rfb
  BY <1>0, Settled
<1>2. rfb'.init = "ServerInitialisation" /\ \A p \in Parts \ {"init"} : rfb'[p] = rfb[p]
  BY <1>0, <1>1 DEF Parts
<1>3. /\ rfb'.conn = rfb.conn /\ rfb'.ard = rfb.ard /\ rfb'.resumes = rfb.resumes /\ rfb'.synced = rfb.synced
  BY <1>2 DEF Parts
<1>4. Ahead' = Ahead
  BY <1>0, <1>3, HandPlain DEF Live
<1>5. ~ Waiting
  BY <1>0 DEF Waiting, Asks, Auth
<1>6. Ahead = <<>> /\ up \in Seq(Silent) /\ srv.stage \notin {"shown", "normal"} /\ srv.wants = {}
  BY <1>0, <1>1, <1>5 DEF Talk, Quiet, Says
<1>7. Talk'
  <2>1. Asks(rfb', "init", srv.stage)
    BY <1>2 DEF Asks
  <2> QED
    BY <1>0, <1>1, <1>4, <1>6, <2>1, AsksWaits
<1>8. Resuming' /\ turn' = turn
  BY <1>0, <1>1, <1>2, <1>3, StaysSettled DEF GoesOn
<1>9. rfb'.synced /\ \A p \in Parts \ Steps : rfb'[p] = rfb[p]
  BY <1>1, <1>2, <1>3 DEF Fresh, Steps
<1> QED
  BY <1>0, <1>1, <1>7, <1>8, <1>9, Moves

\* What the server offers, as the handler finds it.
LEMMA OfferIs ==
    ASSUME NEW list \in Seq(Schemes \cup {"other"})
    PROVE  /\ U("types", 1, list) \in Units0 /\ U("types", 2, list) \in Units0
           /\ Offer(list)[1] = U("types", 1, list)
           /\ list = <<>> => Drop(Offer(list), 1) = Reasons
           /\ list # <<>> => Drop(Offer(list), 2) = <<>>
<1>1. list \in Seq(Details)
  BY SeqMonotonic DEF Details
<1>2. U("types", 1, list) \in Units0 /\ U("types", 2, list) \in Units0
  BY <1>1, HandshakeUnits
<1>3. U("reason", 1, <<>>) \in Units0 /\ U("reason", 2, <<>>) \in Units0
  BY HandshakeUnits
<1>4. CASE list = <<>>
  <2>1. Offer(list) = <<U("types", 1, list), U("reason", 1, <<>>), U("reason", 2, <<>>)>>
    BY <1>4 DEF Offer
  <2> QED
    BY <1>2, <1>3, <1>4, <2>1, FirstOfThree DEF Reasons
<1>5. CASE list # <<>>
  <2>1. Offer(list) = <<U("types", 1, list), U("types", 2, list)>>
    BY <1>5 DEF Offer
  <2>2. "types" \in UnitKinds
    BY DEF UnitKinds
  <2>3. Offer(list)[1] = U("types", 1, list)
    BY <2>1
  <2>4. Drop(Offer(list), 2) = <<>>
    BY ZenonT(60), <1>2, <2>1, DropShort
  <2> QED
    BY <1>2, <1>5, <2>3, <2>4
<1> QED
  BY <1>4, <1>5

\* The choice of a security type, when there is one.
LEMMA SecurityHand ==
    ASSUME Runs, Base', NegotiateSecurity, ~ Becomes(Failed([Conn EXCEPT !.rfb = At("types")]))
    PROVE  Hand'
<1>0. rfb.init = "Security" /\ ~ Asking(rfb)
  BY DEF NegotiateSecurity, InitTurn, Asking
<1>1. /\ turn = "init" /\ rfb.conn = "connecting" /\ ws.ready = "open" /\ rfb.vencrypt = 0 /\ ~ rfb.tight
      /\ rfb.resumes = 0 /\ ~ ui.dialog /\ rfb.ard = "idle" /\ Fresh /\ Parts \subseteq DOMAIN rfb
  BY <1>0, Settled
<1>2. ASSUME NEW m, WaitsFor(1, m, 1) PROVE Hand'
  BY <1>2, WaitsHand
<1>3. ASSUME NEW n \in {1, 2}, Reads(n), Live(rfb') <=> Live(rfb), wire' = wire
      PROVE  /\ Quiet /\ srv.wants = {} /\ up \in Seq(Silent)
             /\ srv.stage \notin {"shown", "normal", "vencrypt"} /\ At("types").synced
             /\ \E list \in Seq(Schemes \cup {"other"}) :
                    Ahead = Offer(list) /\ Ahead' = Drop(Ahead, n) /\ Peek(1).x = list
  <2>1. /\ Ahead' = Drop(Ahead, n) /\ Peek(1) = Ahead[1] /\ Quiet /\ srv.wants = {}
    BY <1>1, <1>3, HandReads
  <2>2. PICK list \in Seq(Schemes \cup {"other"}) : Ahead = Offer(list)
    BY <1>0, <2>1 DEF Quiet, Says
  <2>3. Peek(1) = U("types", 1, list)
    BY <2>1, <2>2, OfferIs
  <2>4. Peek(1).x = list /\ At("types").synced
    BY <1>1, <2>3, Begins
  <2>5. up \in Seq(Silent) /\ srv.stage \notin {"shown", "normal", "vencrypt"}
    BY <1>0, <2>1 DEF Quiet
  <2> QED
    BY <2>1, <2>2, <2>4, <2>5
<1>4. CASE /\ Peek(1).x = <<>> /\ Reads(1) /\ GoesOn
           /\ rfb' = [At("types") EXCEPT !.init = "SecurityReason"]
           /\ ui' = ui /\ ws' = ws /\ disp' = disp /\ wire' = wire /\ up' = up /\ srv' = srv
  <2>1. /\ rfb'.init = "SecurityReason" /\ rfb'.synced = At("types").synced
        /\ \A p \in Parts \ {"init", "synced"} : rfb'[p] = rfb[p]
    BY <1>1, <1>4, AtIs DEF Parts
  <2>2. /\ rfb'.conn = rfb.conn /\ rfb'.ard = rfb.ard /\ rfb'.resumes = rfb.resumes
    BY <2>1 DEF Parts
  <2>3. /\ Quiet /\ srv.wants = {} /\ up \in Seq(Silent) /\ srv.stage \notin {"shown", "normal", "vencrypt"}
        /\ At("types").synced
        /\ \E list \in Seq(Schemes \cup {"other"}) :
                    Ahead = Offer(list) /\ Ahead' = Drop(Ahead, 1) /\ Peek(1).x = list
    BY <1>3, <1>4, <2>2 DEF Live
  <2>4. Ahead' = Reasons
    BY <1>4, <2>3, OfferIs
  <2>5. Talk'
    BY <1>4, <2>1, <2>3, <2>4 DEF Talk, Quiet, Says, Auth
  <2>6. Resuming' /\ turn' = turn
    BY <1>1, <1>4, <2>1, <2>2, StaysSettled DEF GoesOn
  <2>7. \A p \in Parts \ Steps : rfb'[p] = rfb[p]
    BY <2>1 DEF Steps
  <2> QED
    BY <1>1, <1>4, <2>1, <2>3, <2>5, <2>6, <2>7, Moves
<1>5. ASSUME NEW s \in Schemes, Peek(1).x # <<>>, Reads(2), GoesOn,
             rfb' = [At("types") EXCEPT !.scheme = s, !.init = "Authentication"], Send(<<s>>),
             ui' = ui, ws' = ws, disp' = disp, wire' = wire, srv' = srv
      PROVE  Hand'
  <2>1. /\ rfb'.init = "Authentication" /\ rfb'.scheme = s /\ rfb'.synced = At("types").synced
        /\ \A p \in Parts \ {"init", "scheme", "synced"} : rfb'[p] = rfb[p]
    BY <1>1, <1>5, AtIs DEF Parts
  <2>2. /\ rfb'.conn = rfb.conn /\ rfb'.ard = rfb.ard /\ rfb'.resumes = rfb.resumes
        /\ rfb'.vencrypt = rfb.vencrypt /\ rfb'.tight = rfb.tight
    BY <2>1 DEF Parts
  <2>3. /\ Quiet /\ srv.wants = {} /\ up \in Seq(Silent) /\ srv.stage \notin {"shown", "normal", "vencrypt"}
        /\ At("types").synced
        /\ \E list \in Seq(Schemes \cup {"other"}) :
                    Ahead = Offer(list) /\ Ahead' = Drop(Ahead, 2) /\ Peek(1).x = list
    BY <1>3, <1>5, <2>2 DEF Live
  <2>4. Ahead' = <<>>
    BY <1>5, <2>3, OfferIs
  <2>5. Talk'
    <3>1. CASE s \in Silent
      <4>1. up' \in Seq(Silent)
        BY <1>1, <1>5, <2>3, <3>1, SendsSilent DEF Send
      <4>2. Says(rfb', Ahead')
        BY <2>1, <2>4, <3>1 DEF Says, Auth, Silent
      <4> QED
        BY <1>5, <2>1, <2>3, <3>1, <4>1, <4>2 DEF Talk, Quiet, Auth, Silent
    <3>2. CASE s \notin Silent
      <4>1. s \in {"none", "vnc", "vencrypt", "tight", "ard"}
        BY <3>2 DEF Schemes, Silent
      <4>2. Asks(rfb', s, srv.stage)
        BY <1>1, <2>1, <2>2, <2>3, <4>1 DEF Asks, Auth
      <4> QED
        BY <1>1, <1>5, <2>3, <2>4, <4>2, AsksWaits
    <3> QED
      BY <3>1, <3>2
  <2>6. Resuming' /\ turn' = turn
    BY <1>1, <1>5, <2>1, <2>2, StaysSettled DEF GoesOn
  <2>7. \A p \in Parts \ Steps : rfb'[p] = rfb[p]
    BY <2>1 DEF Steps
  <2> QED
    BY <1>1, <1>5, <2>1, <2>3, <2>5, <2>6, <2>7, Moves
<1>6. CASE \E m : WaitsFor(1, m, 1)
  BY <1>2, <1>6
<1>7. ASSUME NEW i \in Supported(Peek(1).x) PROVE Peek(1).x[i] \in Schemes
  BY DEF Supported
<1> QED
  BY <1>4, <1>5, <1>6, <1>7 DEF NegotiateSecurity
=============================================================================
