------------------------- MODULE SpiceDisplayProofs --------------------------
(***************************************************************************)
(* Theorems about a SPICE display channel, for any number of consumers and *)
(* any messages.                                                           *)
(*                                                                         *)
(*   Inv       a consumer is idle or has one task at its worker            *)
(*   InOrder   from the last frame shown to the last message received,     *)
(*             numbers only rise                                           *)
(*   Faithful  what is held and what is behind it will paint, on the       *)
(*             canvases as they are, the picture that was sent; so will    *)
(*             the frame that loads, unless a task outran it               *)
(*                                                                         *)
(* The RunQueue and the search for redundant draws are folds.  What a fold *)
(* does with one element more is derived from its definition, and what it  *)
(* does with every list by AppendInduction and ConsInduction.              *)
(***************************************************************************)
EXTENDS SpiceDisplay, SequenceLemmas, SequenceTheorems

\* The first of T is looked for in the list, and nowhere else.
LEMMA BeforeInRange ==
    ASSUME NEW ns, Len(ns) \in Nat, NEW T
    PROVE  Before(ns, T) \in 0 .. Len(ns)
<1> DEFINE Stops(k) == (\A i \in 1 .. k : ns[i] \notin T) /\ (k < Len(ns) => ns[k + 1] \in T)
           Found == {i \in 1 .. Len(ns) : ns[i] \in T}
<1>1. \E k \in 0 .. Len(ns) : Stops(k)
  <2>1. CASE Found = {}
    <3>1. Len(ns) \in 0 .. Len(ns) /\ Stops(Len(ns))
      BY <2>1
    <3> QED
      BY <3>1
  <2>2. CASE Found # {}
    <3>1. PICK x \in Found : \A y \in Found : x <= y
      <4>1. Found \subseteq Nat
        OBVIOUS
      <4> QED
        BY <2>2, <4>1, Least
    <3>2. x \in 1 .. Len(ns) /\ ns[x] \in T
      OBVIOUS
    <3>3. ASSUME NEW i \in 1 .. x - 1 PROVE ns[i] \notin T
      <4>1. i \in 1 .. Len(ns) /\ ~ (x <= i)
        BY <3>2
      <4> QED
        BY <4>1, <3>1
    <3>4. x - 1 \in 0 .. Len(ns) /\ (x - 1) + 1 = x
      BY <3>2
    <3>5. Stops(x - 1)
      BY <3>2, <3>3, <3>4
    <3> QED
      BY <3>4, <3>5
  <2> QED
    BY <2>1, <2>2
<1>2. Before(ns, T) = CHOOSE k \in 0 .. Len(ns) : Stops(k)
  BY DEF Before
<1> HIDE DEF Stops
<1> QED
  BY <1>1, <1>2
-----------------------------------------------------------------------------
(* The consumers.                                                          *)

\* What is queued was received, each message once, and no worker has it yet.
Waits(p, received) ==
    /\ p.queued \in Seq(1 .. received)
    /\ \A i, j \in 1 .. Len(p.queued) : p.queued[i] = p.queued[j] => i = j
    /\ \A i \in 1 .. Len(p.queued) : p.queued[i] \notin p.working

\* Each consumer is idle or has one task at its worker.
Counted(p, received) ==
    /\ p.working \subseteq 1 .. received /\ IsFiniteSet(p.working)
    /\ p.idle \in Nat
    /\ p.idle + Cardinality(p.working) = Consumers

Served(p) == p.queued # <<>> => p.idle = 0

Fields == {"queued", "inProcess", "working", "idle", "waiting"}

Consistent(p, received) == DOMAIN p = Fields /\ Waits(p, received) /\ Counted(p, received)

\* What is done goes on, which concerns no consumer.
LEMMA HandOnKeeps ==
    ASSUME NEW p, DOMAIN p = Fields
    PROVE  LET q == HandOn(p) IN
           /\ DOMAIN q = Fields
           /\ q.queued = p.queued /\ q.working = p.working /\ q.idle = p.idle
BY DEF HandOn, Fields

\* A consumer takes tasks until one needs its worker or none is left.  Unless
\* another is idle and more is queued, none is then idle for nothing.
LEMMA ExecuteConsumerKeeps ==
    ASSUME NEW p, NEW received \in Nat, Consistent(p, received), NEW msgs,
           p.idle <= 1 \/ Len(p.queued) <= 1,
           p.idle # 0 => p.queued # <<>>
    PROVE  LET q == ExecuteConsumer(p, msgs) IN Consistent(q, received) /\ Served(q)
<1> DEFINE ns == p.queued
           k == Before(ns, ForWorkers(msgs))
           taken == Smaller(k + 1, Len(ns))
           new == {ns[i] : i \in k + 1 .. taken}
           r == [p EXCEPT !.queued = SubSeq(@, taken + 1, Len(@)),
                          !.inProcess = @ \o SubSeq(ns, 1, taken),
                          !.working = @ \cup new,
                          !.idle = IF k = Len(ns) /\ k > 0 THEN @ ELSE @ - 1]
<1>1. CASE p.idle = 0
  <2>1. ExecuteConsumer(p, msgs) = p
    BY <1>1 DEF ExecuteConsumer
  <2> QED
    BY <1>1, <2>1 DEF Served
<1>2. CASE p.idle # 0
  <2>1. ExecuteConsumer(p, msgs) = HandOn(r)
    BY <1>2 DEF ExecuteConsumer
  <2>2. /\ DOMAIN p = Fields /\ p.working \subseteq 1 .. received /\ IsFiniteSet(p.working)
        /\ p.idle \in Nat /\ p.idle + Cardinality(p.working) = Consumers
        /\ ns \in Seq(1 .. received)
        /\ \A i, j \in 1 .. Len(ns) : ns[i] = ns[j] => i = j
        /\ \A i \in 1 .. Len(ns) : ns[i] \notin p.working
    BY DEF Consistent, Waits, Counted
  <2>3. Len(ns) \in Nat \ {0} /\ k \in 0 .. Len(ns)
    <3>1. Len(ns) \in Nat /\ Len(ns) # 0
      BY <1>2, <2>2
    <3> QED
      BY <3>1, BeforeInRange
  <2> HIDE DEF k
  <2>4. /\ DOMAIN r = Fields
        /\ r.queued = SubSeq(ns, taken + 1, Len(ns)) /\ r.working = p.working \cup new
        /\ r.idle = IF k = Len(ns) /\ k > 0 THEN p.idle ELSE p.idle - 1
    BY <2>2 DEF Fields
  <2> HIDE DEF r
  <2>5. Consistent(r, received) /\ Served(r)
    <3>1. CASE k = Len(ns)
      <4>1. taken = Len(ns) /\ new = {} /\ k > 0
        BY <2>3, <3>1 DEF Smaller
      <4> HIDE DEF taken, new
      <4>2. SubSeq(ns, Len(ns) + 1, Len(ns)) = <<>>
        BY <2>2, <2>3
      <4>3. r.queued = <<>> /\ r.working = p.working /\ r.idle = p.idle
        BY <2>4, <3>1, <4>1, <4>2
      <4>4. Waits(r, received)
        BY <4>3 DEF Waits
      <4>5. Counted(r, received)
        BY <2>2, <4>3 DEF Counted
      <4>6. Served(r)
        BY <4>3 DEF Served
      <4> QED
        BY <2>4, <4>4, <4>5, <4>6 DEF Consistent
    <3>2. CASE k # Len(ns)
      <4>1. taken = k + 1 /\ taken \in 1 .. Len(ns)
        BY <2>3, <3>2 DEF Smaller
      <4>2. new = {ns[taken]} /\ ns[taken] \in 1 .. received /\ ns[taken] \notin p.working
        BY <2>2, <2>3, <4>1
      <4> HIDE DEF taken, new
      <4>3. Cardinality(p.working \cup {ns[taken]}) = Cardinality(p.working) + 1
            /\ IsFiniteSet(p.working \cup {ns[taken]})
        BY <2>2, <4>2, FS_AddElement
      <4>4. r.idle = p.idle - 1
        BY <2>4, <3>2
      <4>5. Cardinality(p.working) \in Nat
        BY <2>2, FS_CardinalityType
      <4>6. /\ r.queued \in Seq(1 .. received)
            /\ Len(r.queued) = Len(ns) - taken
            /\ \A i \in 1 .. Len(ns) - taken : r.queued[i] = ns[taken + i]
        <5>1. LET rest == SubSeq(ns, taken + 1, Len(ns)) IN
              /\ rest \in Seq(1 .. received) /\ Len(rest) = Len(ns) - taken
              /\ \A i \in 1 .. Len(ns) - taken : rest[i] = ns[taken + i]
          BY <2>2, <2>3, <4>1
        <5> QED
          BY <2>4, <5>1
      <4>7. Waits(r, received)
        <5>1. ASSUME NEW i \in 1 .. Len(r.queued), NEW j \in 1 .. Len(r.queued),
                     r.queued[i] = r.queued[j]
              PROVE  i = j
          <6>1. /\ taken + i \in 1 .. Len(ns) /\ taken + j \in 1 .. Len(ns)
                /\ ns[taken + i] = ns[taken + j]
            BY <2>3, <4>1, <4>6, <5>1
          <6>2. taken + i = taken + j
            BY <2>2, <6>1
          <6> QED
            BY <2>3, <4>1, <4>6, <6>2
        <5>2. ASSUME NEW i \in 1 .. Len(r.queued)
              PROVE  r.queued[i] \notin r.working
          <6>1. taken + i \in 1 .. Len(ns) /\ taken + i # taken /\ r.queued[i] = ns[taken + i]
            BY <2>3, <4>1, <4>6
          <6>2. ns[taken + i] # ns[taken] /\ ns[taken + i] \notin p.working
            BY <2>2, <4>1, <6>1
          <6> QED
            BY <2>4, <4>2, <6>1, <6>2
        <5> QED
          BY <4>6, <5>1, <5>2 DEF Waits
      <4>8. Counted(r, received)
        <5>1. r.working = p.working \cup {ns[taken]}
          BY <2>4, <4>2
        <5>2. r.idle \in Nat /\ r.idle + (Cardinality(p.working) + 1) = Consumers
          BY SMTT(30), <1>2, <2>2, <4>4, <4>5
        <5> QED
          BY <2>2, <4>2, <4>3, <5>1, <5>2 DEF Counted
      <4>9. Served(r)
        <5>1. CASE p.idle = 1
          BY <2>2, <4>4, <5>1 DEF Served
        <5>2. CASE Len(ns) = 1
          <6>1. Len(r.queued) = 0
            BY <4>1, <4>6, <5>2
          <6>2. r.queued = <<>>
            BY <4>6, <6>1
          <6> QED
            BY <6>2 DEF Served
        <5>3. p.idle = 1 \/ Len(ns) = 1
          <6>1. p.idle <= 1 \/ Len(ns) <= 1
            OBVIOUS
          <6>2. p.idle \in Nat \ {0} /\ Len(ns) \in Nat \ {0}
            BY <1>2, <2>2, <2>3
          <6>3. \A a, b \in Nat \ {0} : a <= 1 \/ b <= 1 => a = 1 \/ b = 1
            OBVIOUS
          <6> QED
            BY <6>1, <6>2, <6>3
        <5> QED
          BY <5>1, <5>2, <5>3
      <4> QED
        BY <2>4, <4>7, <4>8, <4>9 DEF Consistent
    <3> QED
      BY <3>1, <3>2
  <2>6. LET q == HandOn(r) IN
        /\ DOMAIN q = Fields
        /\ q.queued = r.queued /\ q.working = r.working /\ q.idle = r.idle
    BY <2>4, HandOnKeeps
  <2> QED
    BY <2>1, <2>5, <2>6 DEF Consistent, Waits, Counted, Served
<1> QED
  BY <1>1, <1>2
-----------------------------------------------------------------------------
(* The steps.                                                              *)

Inv == palette \in Palettes /\ sent \in Seq(Messages) /\ Consistent(Pre, Len(sent)) /\ Served(Pre)

\* A record that the lists become is as consistent as they are then.
LEMMA BecomesKeeps ==
    ASSUME NEW q, NEW received, Consistent(q, received), Served(q), Becomes(q)
    PROVE  Consistent(Pre', received) /\ Served(Pre')
<1>1. queued' = q.queued /\ working' = q.working /\ idle' = q.idle
  BY DEF Becomes
<1>2. /\ Pre'.queued = q.queued /\ Pre'.working = q.working /\ Pre'.idle = q.idle
      /\ DOMAIN Pre' = Fields
  BY <1>1 DEF Pre, Fields
<1> QED
  BY <1>2 DEF Consistent, Waits, Counted, Served

\* At first nothing waits and every consumer is idle.
LEMMA InitConsistent == Init => Inv
<1> SUFFICES ASSUME Init PROVE Inv
  OBVIOUS
<1>1. /\ Pre.queued = <<>> /\ Pre.working = {} /\ Pre.idle = Consumers /\ DOMAIN Pre = Fields
      /\ sent = <<>> /\ palette \in Palettes
  BY DEF Init, Pre, Fields
<1>2. Waits(Pre, 0) /\ Served(Pre)
  BY <1>1 DEF Waits, Served
<1>3. Counted(Pre, 0)
  <2>1. IsFiniteSet({}) /\ Cardinality({}) = 0
    BY FS_EmptySet
  <2> QED
    BY <1>1, <2>1, DisplayAssumption DEF Counted
<1>4. sent \in Seq(Messages) /\ Len(sent) = 0
  BY <1>1
<1> QED
  BY <1>1, <1>2, <1>3, <1>4 DEF Inv, Consistent

\* A message that arrives finds an idle consumer, or waits because there is none.
LEMMA ReceiveKeeps ==
    ASSUME Inv, NEW m \in palette, Receive(m)
    PROVE  Inv'
<1> DEFINE n == Len(sent) + 1
           p == [Pre EXCEPT !.queued = Append(@, n)]
<1>1. /\ sent' = Append(sent, m) /\ palette' = palette
      /\ Becomes(ExecuteConsumer(p, sent'))
  BY DEF Receive
<1>2. m \in Messages /\ sent \in Seq(Messages) /\ Len(sent) \in Nat
  BY DisplayAssumption DEF Inv
<1>3. sent' \in Seq(Messages) /\ Len(sent') = n /\ n \in Nat
  BY <1>1, <1>2
<1>4. /\ DOMAIN Pre = Fields /\ Pre.queued \in Seq(1 .. Len(sent)) /\ Pre.working \subseteq 1 .. Len(sent)
      /\ Waits(Pre, Len(sent)) /\ Counted(Pre, Len(sent)) /\ Served(Pre)
  BY DEF Inv, Consistent, Waits, Counted
<1>5. DOMAIN p = Fields /\ p.queued = Append(Pre.queued, n) /\ p.working = Pre.working /\ p.idle = Pre.idle
  BY <1>4 DEF Fields
<1> HIDE DEF p
<1>6. /\ p.queued \in Seq(1 .. n) /\ Len(p.queued) = Len(Pre.queued) + 1
      /\ \A i \in 1 .. Len(Pre.queued) : p.queued[i] = Pre.queued[i] /\ p.queued[i] \in 1 .. Len(sent)
      /\ p.queued[Len(Pre.queued) + 1] = n /\ Len(Pre.queued) \in Nat
  <2>1. Pre.queued \in Seq(1 .. n) /\ n \in 1 .. n
    BY <1>2, <1>4
  <2> QED
    BY SMTT(30), <1>2, <1>4, <1>5, <2>1
<1>7. Waits(p, n)
  <2>1. ASSUME NEW i \in 1 .. Len(p.queued), NEW j \in 1 .. Len(p.queued), p.queued[i] = p.queued[j]
        PROVE  i = j
    <3>1. CASE i # Len(p.queued) /\ j # Len(p.queued)
      <4>1. i \in 1 .. Len(Pre.queued) /\ j \in 1 .. Len(Pre.queued)
        BY SMTT(30), <1>6, <3>1
      <4>2. Pre.queued[i] = Pre.queued[j]
        BY <1>6, <2>1, <4>1
      <4> QED
        BY <1>4, <4>1, <4>2 DEF Waits
    <3>2. ASSUME NEW k \in 1 .. Len(p.queued) PROVE p.queued[k] = n <=> k = Len(p.queued)
      <4>1. CASE k \in 1 .. Len(Pre.queued)
        <5>1. p.queued[k] \in 1 .. Len(sent) /\ k # Len(p.queued)
          BY SMTT(30), <1>6, <4>1
        <5> QED
          BY <1>2, <5>1
      <4>2. CASE k \notin 1 .. Len(Pre.queued)
        <5>1. k = Len(Pre.queued) + 1
          BY <1>6, <4>2
        <5> QED
          BY <1>6, <5>1
      <4> QED
        BY <4>1, <4>2
    <3> QED
      BY <2>1, <3>1, <3>2
  <2>2. ASSUME NEW i \in 1 .. Len(p.queued)
        PROVE  p.queued[i] \notin p.working
    <3>1. CASE i \in 1 .. Len(Pre.queued)
      <4>1. Pre.queued[i] \notin Pre.working
        BY <1>4, <3>1 DEF Waits
      <4> QED
        BY <1>5, <1>6, <3>1, <4>1
    <3>2. CASE i \notin 1 .. Len(Pre.queued)
      <4>1. p.queued[i] = n
        BY <1>6, <3>2
      <4>2. n \notin 1 .. Len(sent)
        BY <1>2
      <4> QED
        BY <1>4, <1>5, <4>1, <4>2
    <3> QED
      BY <3>1, <3>2
  <2> QED
    BY <1>6, <2>1, <2>2 DEF Waits
<1>8. Counted(p, n)
  <2>1. p.working \subseteq 1 .. n
    BY <1>2, <1>4, <1>5
  <2> QED
    BY <1>4, <1>5, <2>1 DEF Counted
<1>9. p.queued # <<>> /\ (p.idle = 0 \/ Len(p.queued) = 1)
  <2>1. CASE Pre.queued = <<>>
    BY <1>6, <2>1
  <2>2. CASE Pre.queued # <<>>
    BY SMTT(30), <1>4, <1>5, <1>6, <2>2 DEF Served
  <2> QED
    BY <2>1, <2>2
<1>10. p.idle <= 1 \/ Len(p.queued) <= 1
  <2>1. \A a, b \in Nat : a = 0 \/ b = 1 => a <= 1 \/ b <= 1
    OBVIOUS
  <2>2. p.idle \in Nat /\ Len(p.queued) \in Nat
    BY <1>6, <1>8 DEF Counted
  <2> QED
    BY <1>9, <2>1, <2>2
<1>11. LET q == ExecuteConsumer(p, sent') IN Consistent(q, n) /\ Served(q)
  <2>1. Consistent(p, n)
    BY <1>5, <1>7, <1>8 DEF Consistent
  <2> QED
    BY <1>3, <1>9, <1>10, <2>1, ExecuteConsumerKeeps
<1>12. Consistent(Pre', n) /\ Served(Pre')
  BY <1>1, <1>11, BecomesKeeps
<1> QED
  BY <1>1, <1>3, <1>12 DEF Inv

\* A consumer that is done takes what waits, or is idle.
LEMMA WorkerDoneKeeps ==
    ASSUME Inv, NEW n \in working, WorkerDone(n)
    PROVE  Inv'
<1> DEFINE received == Len(sent)
           p == [Pre EXCEPT !.working = @ \ {n}]
           free == [HandOn(p) EXCEPT !.idle = @ + 1]
<1>1. /\ sent' = sent /\ palette' = palette
      /\ Becomes(IF free.queued # <<>> THEN ExecuteConsumer(free, sent) ELSE free)
  BY DEF WorkerDone, ConsumerDone
<1>2. /\ DOMAIN Pre = Fields /\ received \in Nat /\ Pre.working = working
      /\ Waits(Pre, received) /\ Counted(Pre, received) /\ Served(Pre)
  BY DEF Inv, Consistent, Pre
<1>3. DOMAIN p = Fields /\ p.queued = Pre.queued /\ p.working = Pre.working \ {n} /\ p.idle = Pre.idle
  BY <1>2 DEF Fields
<1> HIDE DEF p
<1>4. /\ DOMAIN HandOn(p) = Fields
      /\ HandOn(p).queued = p.queued /\ HandOn(p).working = p.working /\ HandOn(p).idle = p.idle
  BY <1>3, HandOnKeeps
<1>5. /\ DOMAIN free = Fields
      /\ free.queued = Pre.queued /\ free.working = Pre.working \ {n} /\ free.idle = Pre.idle + 1
  BY <1>3, <1>4 DEF Fields
<1> HIDE DEF free
<1>6. Consistent(free, received)
  <2>1. Waits(free, received)
    BY <1>2, <1>5 DEF Waits
  <2>2. /\ IsFiniteSet(Pre.working \ {n}) /\ Cardinality(Pre.working \ {n}) = Cardinality(Pre.working) - 1
        /\ Cardinality(Pre.working) \in Nat
    BY <1>2, FS_RemoveElement, FS_CardinalityType DEF Counted
  <2>3. Counted(free, received)
    BY <1>2, <1>5, <2>2 DEF Counted
  <2> QED
    BY <1>5, <2>1, <2>3 DEF Consistent
<1>7. CASE free.queued # <<>>
  <2>1. free.idle = 1
    BY <1>2, <1>5, <1>7 DEF Served
  <2>2. free.idle <= 1 \/ Len(free.queued) <= 1
    BY <2>1
  <2>3. LET q == ExecuteConsumer(free, sent) IN Consistent(q, received) /\ Served(q)
    BY <1>2, <1>6, <1>7, <2>2, ExecuteConsumerKeeps
  <2>4. Consistent(Pre', received) /\ Served(Pre')
    BY <1>1, <1>7, <2>3, BecomesKeeps
  <2> QED
    BY <1>1, <2>4 DEF Inv
<1>8. CASE free.queued = <<>>
  <2>1. Served(free)
    BY <1>8 DEF Served
  <2>2. Consistent(Pre', received) /\ Served(Pre')
    BY <1>1, <1>6, <1>8, <2>1, BecomesKeeps
  <2> QED
    BY <1>1, <2>2 DEF Inv
<1> QED
  BY <1>7, <1>8

\* The other steps concern neither what is queued nor the consumers.
LEMMA NextConsistent == Inv /\ [Next]_vars => Inv'
<1> SUFFICES ASSUME Inv, [Next]_vars PROVE Inv'
  OBVIOUS
<1>1. ASSUME NEW m \in palette, Receive(m) PROVE Inv'
  BY <1>1, ReceiveKeeps
<1>2. ASSUME NEW n \in working, WorkerDone(n) PROVE Inv'
  BY <1>2, WorkerDoneKeeps
<1>3. ASSUME UNCHANGED <<palette, sent, preVars>> PROVE Inv'
  <2>1. Pre'.queued = Pre.queued /\ Pre'.working = Pre.working /\ Pre'.idle = Pre.idle
        /\ DOMAIN Pre' = Fields
    BY <1>3 DEF Pre, preVars, Fields
  <2> QED
    BY <1>3, <2>1 DEF Inv, Consistent, Waits, Counted, Served
<1>4. ASSUME Flush \/ ImageLoads \/ ImageFails \/ (\E n \in screen.video : FrameLoads(n) \/ FrameFails(n))
      PROVE  Inv'
  BY <1>3, <1>4 DEF Flush, ImageLoads, ImageFails, FrameLoads, FrameFails
<1>5. ASSUME UNCHANGED vars PROVE Inv'
  BY <1>3, <1>5 DEF vars, preVars
<1> QED
  BY <1>1, <1>2, <1>4, <1>5 DEF Next

\* Every consumer of displaypreprocess.js is idle or busy at its worker, and
\* nothing waits while one is idle: for any number of consumers, any messages
\* and any order in which the workers finish.
THEOREM ConsumersAreKept == Spec => []NoConsumerIsLost
<1>1. Inv => NoConsumerIsLost
  <2> SUFFICES ASSUME Inv PROVE NoConsumerIsLost
    OBVIOUS
  <2>1. Pre.queued = queued /\ Pre.working = working /\ Pre.idle = idle
    BY DEF Pre
  <2> QED
    BY <2>1 DEF Inv, Consistent, Counted, Served, NoConsumerIsLost
<1> QED
  BY <1>1, InitConsistent, NextConsistent, PTL DEF Spec
-----------------------------------------------------------------------------
(* What a run of tasks is.                                                 *)

\* A set of numbers up to k has a greatest.
LEMMA MaxIs ==
    ASSUME NEW k \in Nat, NEW S \in SUBSET (1 .. k), S # {}
    PROVE  Max(S) \in S /\ \A y \in S : Max(S) >= y
<1> DEFINE Below == {k - x : x \in S}
<1>1. Below \subseteq Nat /\ Below # {}
  OBVIOUS
<1>2. PICK b \in Below : \A c \in Below : b <= c
  BY <1>1, Least
<1>3. PICK x \in S : b = k - x
  OBVIOUS
<1>4. ASSUME NEW y \in S PROVE x >= y
  <2>1. k - y \in Below
    OBVIOUS
  <2>2. k - x <= k - y /\ x \in Nat /\ y \in Nat
    BY <1>2, <1>3, <2>1
  <2> QED
    BY <2>2
<1>5. \E z \in S : \A y \in S : z >= y
  BY <1>4
<1> QED
  BY <1>5 DEF Max

\* When k is of it, that is k.
LEMMA MaxTop ==
    ASSUME NEW k \in Nat, NEW S \in SUBSET (1 .. k), k \in S
    PROVE  Max(S) = k
<1>1. S # {}
  OBVIOUS
<1>2. Max(S) \in S /\ Max(S) >= k
  BY <1>1, MaxIs
<1>3. Max(S) \in 1 .. k
  BY <1>2
<1> QED
  BY <1>2, <1>3

\* The equation that the fold of RunTask over ns solves, up to the k-th task.
Solves(it, s, ns, k) ==
    it = [S \in SUBSET (1 .. k) |->
            IF S = {} THEN s ELSE RunTask(it[S \ {Max(S)}], ns[Max(S)])]

\* FoldLeft is a choice of a solution of that equation.
LEMMA RunIsFold ==
    ASSUME NEW s, NEW ns \in Seq(Nat)
    PROVE  Run(s, ns) = (CHOOSE it : Solves(it, s, ns, Len(ns)))[1 .. Len(ns)]
<1>1. DOMAIN ns = 1 .. Len(ns)
  OBVIOUS
<1>2. Run(s, ns) = (CHOOSE it : it = [S \in SUBSET DOMAIN ns |->
            IF S = {} THEN s ELSE RunTask(it[S \ {Max(S)}], ns[Max(S)])])[DOMAIN ns]
  BY Zenon DEF Run, FoldLeft, MapThenFoldSet
<1> QED
  BY Zenon, <1>1, <1>2 DEF Solves

\* The equation has a solution, one task at a time.
LEMMA FoldExists ==
    ASSUME NEW s, NEW ns, NEW n \in Nat
    PROVE  \E it : Solves(it, s, ns, n)
<1> DEFINE Unsolved == {k \in Nat : ~ \E it : Solves(it, s, ns, k)}
<1> SUFFICES ASSUME n \in Unsolved PROVE FALSE
  OBVIOUS
<1>1. PICK m \in Unsolved : \A j \in Unsolved : m <= j
  BY Least
<1>2. CASE m = 0
  <2> DEFINE it == [S \in {{}} |-> s]
  <2>1. SUBSET (1 .. 0) = {{}}
    OBVIOUS
  <2>2. it = [S \in {{}} |-> IF S = {} THEN s ELSE RunTask(it[S \ {Max(S)}], ns[Max(S)])]
    OBVIOUS
  <2>3. Solves(it, s, ns, 0)
    BY Zenon, <2>1, <2>2 DEF Solves
  <2> QED
    BY <1>2, <2>3
<1>3. CASE m # 0
  <2>1. m - 1 \in Nat /\ m - 1 \notin Unsolved
    BY <1>1, <1>3
  <2>2. PICK old : Solves(old, s, ns, m - 1)
    BY <2>1
  <2> DEFINE Body(it, S) == IF S = {} THEN s ELSE RunTask(it[S \ {Max(S)}], ns[Max(S)])
             new == [S \in SUBSET (1 .. m) |->
                        IF m \in S THEN RunTask(old[S \ {m}], ns[m]) ELSE old[S]]
  <2>3. ASSUME NEW S \in SUBSET (1 .. m - 1) PROVE old[S] = Body(old, S)
    BY <2>2 DEF Solves
  <2>4. ASSUME NEW S \in SUBSET (1 .. m) PROVE new[S] = Body(new, S)
    <3>1. CASE m \in S
      <4>1. S # {} /\ Max(S) = m
        BY <3>1, MaxTop
      <4>2. S \ {m} \in SUBSET (1 .. m) /\ m \notin S \ {m}
        OBVIOUS
      <4>3. new[S \ {m}] = old[S \ {m}]
        BY <4>2
      <4> QED
        BY <3>1, <4>1, <4>3
    <3>2. CASE m \notin S
      <4>1. S \in SUBSET (1 .. m - 1)
        BY <3>2
      <4>2. S # {} => S \ {Max(S)} \in SUBSET (1 .. m) /\ m \notin S \ {Max(S)}
        BY <3>2
      <4>3. S # {} => new[S \ {Max(S)}] = old[S \ {Max(S)}]
        BY <4>2
      <4>4. new[S] = old[S] /\ old[S] = Body(old, S)
        BY <3>2, <4>1, <2>3
      <4> QED
        BY <4>3, <4>4
    <3> QED
      BY <3>1, <3>2
  <2>5. new = [S \in SUBSET (1 .. m) |-> new[S]]
    OBVIOUS
  <2>6. [S \in SUBSET (1 .. m) |-> new[S]] = [S \in SUBSET (1 .. m) |-> Body(new, S)]
    <3> HIDE DEF new, Body
    <3> QED
      BY <2>4
  <2>7. Solves(new, s, ns, m)
    BY Zenon, <2>5, <2>6 DEF Solves
  <2> QED
    BY <2>7
<1> QED
  BY <1>2, <1>3

\* The states of the RunQueue, task by task.
Trace(g, s, ns) ==
    /\ g[0] = s
    /\ \A k \in 1 .. Len(ns) : g[k] = RunTask(g[k - 1], ns[k])

\* There are such states, and a run of tasks ends in the last of them.
LEMMA RunTrace ==
    ASSUME NEW s, NEW ns \in Seq(Nat)
    PROVE  \E g : Trace(g, s, ns) /\ Run(s, ns) = g[Len(ns)]
<1> DEFINE it == CHOOSE it : Solves(it, s, ns, Len(ns))
           g == [k \in 0 .. Len(ns) |-> it[1 .. k]]
<1>0. Len(ns) \in Nat
  OBVIOUS
<1>1. Solves(it, s, ns, Len(ns))
  <2>1. \E x : Solves(x, s, ns, Len(ns))
    BY <1>0, FoldExists
  <2> QED
    BY Zenon, <2>1
<1>2. Run(s, ns) = it[1 .. Len(ns)]
  BY Zenon, RunIsFold
<1> HIDE DEF it
<1>3. ASSUME NEW S \in SUBSET (1 .. Len(ns))
      PROVE  it[S] = IF S = {} THEN s ELSE RunTask(it[S \ {Max(S)}], ns[Max(S)])
  BY <1>1 DEF Solves
<1>4. g[0] = s
  <2>1. 1 .. 0 = {} /\ 0 \in 0 .. Len(ns)
    BY <1>0
  <2> QED
    BY <1>3, <2>1
<1>5. ASSUME NEW k \in 1 .. Len(ns) PROVE g[k] = RunTask(g[k - 1], ns[k])
  <2>0. k \in Nat /\ k \in 1 .. k /\ k \in 0 .. Len(ns) /\ k - 1 \in 0 .. Len(ns)
    BY <1>0
  <2>1. 1 .. k \in SUBSET (1 .. Len(ns)) /\ 1 .. k # {}
    <3>1. k <= Len(ns)
      OBVIOUS
    <3>2. 1 .. k \subseteq 1 .. Len(ns)
      BY <1>0, <2>0, <3>1
    <3> QED
      BY <2>0, <3>2
  <2>4. (1 .. k) \ {k} = 1 .. k - 1
    BY <2>0
  <2>2. Max(1 .. k) = k
    BY <2>0, <2>1, MaxTop
  <2>3. it[1 .. k] = RunTask(it[1 .. k - 1], ns[k])
    BY <1>3, <2>1, <2>2, <2>4
  <2> QED
    BY <2>0, <2>3
<1>6. Run(s, ns) = g[Len(ns)]
  BY <1>0, <1>2
<1>7. Trace(g, s, ns)
  BY <1>4, <1>5 DEF Trace
<1> QED
  BY <1>6, <1>7

\* No task, no change.
LEMMA RunEmpty == \A s : Run(s, <<>>) = s
<1> SUFFICES ASSUME NEW s PROVE Run(s, <<>>) = s
  OBVIOUS
<1>1. <<>> \in Seq(Nat) /\ Len(<<>>) = 0
  OBVIOUS
<1>2. PICK g : Trace(g, s, <<>>) /\ Run(s, <<>>) = g[Len(<<>>)]
  BY <1>1, RunTrace
<1> QED
  BY <1>1, <1>2 DEF Trace

\* The last task is run on what those before it left.
LEMMA RunAppend ==
    ASSUME NEW s, NEW ns \in Seq(Nat), NEW n \in Nat
    PROVE  Run(s, Append(ns, n)) = RunTask(Run(s, ns), n)
<1> DEFINE more == Append(ns, n)
<1>1. /\ more \in Seq(Nat) /\ Len(more) = Len(ns) + 1 /\ Len(ns) \in Nat
      /\ more[Len(ns) + 1] = n /\ \A k \in 1 .. Len(ns) : more[k] = ns[k]
  OBVIOUS
<1> HIDE DEF more
<1>2. PICK g : Trace(g, s, ns) /\ Run(s, ns) = g[Len(ns)]
  BY RunTrace
<1>3. PICK h : Trace(h, s, more) /\ Run(s, more) = h[Len(more)]
  BY <1>1, RunTrace
<1>4. ASSUME NEW j \in 0 .. Len(ns) PROVE h[j] = g[j]
  <2> DEFINE Apart == {k \in 0 .. Len(ns) : h[k] # g[k]}
  <2> SUFFICES ASSUME Apart # {} PROVE FALSE
    OBVIOUS
  <2>1. PICK k \in Apart : \A i \in Apart : k <= i
    <3>1. Apart \subseteq Nat
      BY <1>1
    <3> QED
      BY <3>1, Least
  <2>2. k # 0
    BY <1>2, <1>3 DEF Trace
  <2>3. k \in 1 .. Len(ns) /\ k \in 1 .. Len(more) /\ k - 1 \in 0 .. Len(ns) /\ k - 1 \notin Apart
    BY <1>1, <2>1, <2>2
  <2>4. h[k] = RunTask(h[k - 1], ns[k]) /\ g[k] = RunTask(g[k - 1], ns[k]) /\ h[k - 1] = g[k - 1]
    BY <1>1, <1>2, <1>3, <2>3 DEF Trace
  <2> QED
    BY <2>4
<1>5. h[Len(more)] = RunTask(h[Len(ns)], n)
  <2>1. Len(more) \in 1 .. Len(more) /\ Len(more) - 1 = Len(ns) /\ more[Len(more)] = n
    BY <1>1
  <2> QED
    BY <1>3, <2>1 DEF Trace
<1>6. h[Len(ns)] = g[Len(ns)]
  BY <1>1, <1>4
<1> QED
  BY <1>2, <1>3, <1>5, <1>6 DEF more
-----------------------------------------------------------------------------
(* What the search for redundant draws is.                                 *)

Untouched == [kept |-> <<>>, boxes |-> {}, ended |-> FALSE]
Scanned(ns) == FoldRight(ScanDraw, ns, Untouched)

\* A set of numbers from k on has a least.
LEMMA MinIs ==
    ASSUME NEW k \in Nat, NEW n \in Nat, NEW S \in SUBSET (k .. n), S # {}
    PROVE  Min(S) \in S /\ \A y \in S : Min(S) <= y
<1>1. S \subseteq Nat
  OBVIOUS
<1>2. \E x \in S : \A y \in S : x =< y
  BY <1>1, Least
<1> QED
  BY <1>2 DEF Min

\* When k is of it, that is k.
LEMMA MinBottom ==
    ASSUME NEW k \in Nat, NEW n \in Nat, NEW S \in SUBSET (k .. n), k \in S
    PROVE  Min(S) = k
<1>1. S # {}
  OBVIOUS
<1>2. Min(S) \in S /\ Min(S) <= k
  BY <1>1, MinIs
<1>3. Min(S) \in k .. n
  BY <1>2
<1> QED
  BY <1>2, <1>3

\* The equation that the fold of ScanDraw over ns solves, from the k-th draw on.
SolvesBack(it, ns, k) ==
    it = [S \in SUBSET (k .. Len(ns)) |->
            IF S = {} THEN Untouched ELSE ScanDraw(ns[Min(S)], it[S \ {Min(S)}])]

\* FoldRight is a choice of a solution of that equation.
LEMMA ScanIsFold ==
    ASSUME NEW ns \in Seq(Nat)
    PROVE  Scanned(ns) = (CHOOSE it : SolvesBack(it, ns, 1))[1 .. Len(ns)]
<1>1. DOMAIN ns = 1 .. Len(ns)
  OBVIOUS
<1>2. Scanned(ns) = (CHOOSE it : it = [S \in SUBSET DOMAIN ns |->
            IF S = {} THEN Untouched ELSE ScanDraw(ns[Min(S)], it[S \ {Min(S)}])])[DOMAIN ns]
  BY Zenon DEF Scanned, FoldRight, MapThenFoldSet
<1> QED
  BY Zenon, <1>1, <1>2 DEF SolvesBack

\* The equation has a solution, one draw at a time from the last.
LEMMA FoldBackExists ==
    ASSUME NEW ns, Len(ns) \in Nat
    PROVE  \E it : SolvesBack(it, ns, 1)
<1> DEFINE At(j) == Len(ns) + 1 - j
           Unsolved == {j \in 0 .. Len(ns) : ~ \E it : SolvesBack(it, ns, At(j))}
<1>1. At(Len(ns)) = 1 /\ Len(ns) \in 0 .. Len(ns)
  OBVIOUS
<1> SUFFICES ASSUME Len(ns) \in Unsolved PROVE FALSE
  BY <1>1
<1>2. PICK m \in Unsolved : \A j \in Unsolved : m <= j
  <2>1. Unsolved \subseteq Nat
    OBVIOUS
  <2> QED
    BY <2>1, Least
<1>3. CASE m = 0
  <2> DEFINE it == [S \in {{}} |-> Untouched]
  <2>1. SUBSET (At(0) .. Len(ns)) = {{}}
    OBVIOUS
  <2>2. it = [S \in {{}} |-> IF S = {} THEN Untouched ELSE ScanDraw(ns[Min(S)], it[S \ {Min(S)}])]
    OBVIOUS
  <2>3. SolvesBack(it, ns, At(0))
    BY Zenon, <2>1, <2>2 DEF SolvesBack
  <2> QED
    BY Zenon, <1>3, <2>3
<1>4. CASE m # 0
  <2> DEFINE k == At(m)
  <2>1. m - 1 \in 0 .. Len(ns) /\ ~ (m <= m - 1) /\ At(m - 1) = k + 1 /\ k \in 1 .. Len(ns)
    BY <1>4
  <2>2. PICK old : SolvesBack(old, ns, At(m - 1))
    BY <1>2, <2>1
  <2> HIDE DEF k
  <2> DEFINE Body(it, S) == IF S = {} THEN Untouched ELSE ScanDraw(ns[Min(S)], it[S \ {Min(S)}])
             new == [S \in SUBSET (k .. Len(ns)) |->
                        IF k \in S THEN ScanDraw(ns[k], old[S \ {k}]) ELSE old[S]]
  <2>3. ASSUME NEW S \in SUBSET (k + 1 .. Len(ns)) PROVE old[S] = Body(old, S)
    <3>1. SolvesBack(old, ns, k + 1)
      BY <2>1, <2>2
    <3> QED
      BY <3>1 DEF SolvesBack
  <2>4. ASSUME NEW S \in SUBSET (k .. Len(ns)) PROVE new[S] = Body(new, S)
    <3>0. k \in Nat
      BY <2>1
    <3>1. CASE k \in S
      <4>1. S # {} /\ Min(S) = k
        BY <3>0, <3>1, MinBottom
      <4>2. S \ {k} \in SUBSET (k .. Len(ns)) /\ k \notin S \ {k}
        OBVIOUS
      <4>3. new[S \ {k}] = old[S \ {k}]
        BY <4>2
      <4> QED
        BY <3>1, <4>1, <4>3
    <3>2. CASE k \notin S
      <4>1. S \in SUBSET (k + 1 .. Len(ns))
        BY <3>0, <3>2
      <4>2. S # {} => S \ {Min(S)} \in SUBSET (k .. Len(ns)) /\ k \notin S \ {Min(S)}
        BY <3>2
      <4>3. S # {} => new[S \ {Min(S)}] = old[S \ {Min(S)}]
        BY <4>2
      <4>4. new[S] = old[S] /\ old[S] = Body(old, S)
        BY <3>2, <4>1, <2>3
      <4> QED
        BY <4>3, <4>4
    <3> QED
      BY <3>1, <3>2
  <2>5. new = [S \in SUBSET (k .. Len(ns)) |-> new[S]]
    OBVIOUS
  <2>6. [S \in SUBSET (k .. Len(ns)) |-> new[S]] = [S \in SUBSET (k .. Len(ns)) |-> Body(new, S)]
    <3> HIDE DEF new, Body
    <3> QED
      BY <2>4
  <2>7. SolvesBack(new, ns, k)
    BY Zenon, <2>5, <2>6 DEF SolvesBack
  <2> QED
    BY <2>7 DEF k
<1> QED
  BY <1>3, <1>4

\* What the search has found, draw by draw from the last.
TraceBack(h, ns) ==
    /\ h[Len(ns) + 1] = Untouched
    /\ \A k \in 1 .. Len(ns) : h[k] = ScanDraw(ns[k], h[k + 1])

\* There are such findings, and the search ends with the first of them.
LEMMA ScanTrace ==
    ASSUME NEW ns \in Seq(Nat)
    PROVE  \E h : TraceBack(h, ns) /\ Scanned(ns) = h[1]
<1> DEFINE it == CHOOSE it : SolvesBack(it, ns, 1)
           h == [k \in 1 .. Len(ns) + 1 |-> it[k .. Len(ns)]]
<1>0. Len(ns) \in Nat
  OBVIOUS
<1>1. SolvesBack(it, ns, 1)
  <2>1. \E x : SolvesBack(x, ns, 1)
    BY <1>0, FoldBackExists
  <2> QED
    BY Zenon, <2>1
<1>2. Scanned(ns) = it[1 .. Len(ns)]
  BY Zenon, ScanIsFold
<1> HIDE DEF it
<1>3. ASSUME NEW S \in SUBSET (1 .. Len(ns))
      PROVE  it[S] = IF S = {} THEN Untouched ELSE ScanDraw(ns[Min(S)], it[S \ {Min(S)}])
  BY <1>1 DEF SolvesBack
<1>4. h[Len(ns) + 1] = Untouched
  <2>1. (Len(ns) + 1) .. Len(ns) = {} /\ Len(ns) + 1 \in 1 .. Len(ns) + 1
    BY <1>0
  <2> QED
    BY <1>3, <2>1
<1>5. ASSUME NEW k \in 1 .. Len(ns) PROVE h[k] = ScanDraw(ns[k], h[k + 1])
  <2>0. k \in Nat /\ k \in k .. Len(ns) /\ k \in 1 .. Len(ns) + 1 /\ k + 1 \in 1 .. Len(ns) + 1
    BY <1>0
  <2>1. k .. Len(ns) \subseteq 1 .. Len(ns) /\ k .. Len(ns) # {}
    BY <1>0, <2>0
  <2>2. Min(k .. Len(ns)) = k
    BY <1>0, <2>0, <2>1, MinBottom
  <2>3. (k .. Len(ns)) \ {k} = k + 1 .. Len(ns)
    BY <1>0, <2>0
  <2>4. it[k .. Len(ns)] = ScanDraw(ns[k], it[k + 1 .. Len(ns)])
    BY <1>3, <2>1, <2>2, <2>3
  <2> QED
    BY <2>0, <2>4
<1>6. Scanned(ns) = h[1]
  BY <1>0, <1>2
<1>7. TraceBack(h, ns)
  BY <1>4, <1>5 DEF TraceBack
<1> QED
  BY <1>6, <1>7

\* No draw, nothing found.
LEMMA ScanEmpty == Scanned(<<>>) = Untouched
<1>1. <<>> \in Seq(Nat) /\ Len(<<>>) + 1 = 1
  OBVIOUS
<1>2. PICK h : TraceBack(h, <<>>) /\ Scanned(<<>>) = h[1]
  BY <1>1, ScanTrace
<1> QED
  BY <1>1, <1>2 DEF TraceBack

\* The first draw is looked at last.
LEMMA ScanCons ==
    ASSUME NEW ns \in Seq(Nat), NEW n \in Nat
    PROVE  Scanned(<<n>> \o ns) = ScanDraw(n, Scanned(ns))
<1> DEFINE more == <<n>> \o ns
<1>1. /\ more \in Seq(Nat) /\ Len(more) = Len(ns) + 1 /\ Len(ns) \in Nat
      /\ more[1] = n /\ \A k \in 1 .. Len(ns) : more[k + 1] = ns[k]
  OBVIOUS
<1> HIDE DEF more
<1>2. PICK g : TraceBack(g, ns) /\ Scanned(ns) = g[1]
  BY ScanTrace
<1>3. PICK h : TraceBack(h, more) /\ Scanned(more) = h[1]
  BY <1>1, ScanTrace
<1>4. ASSUME NEW j \in 1 .. Len(ns) + 1 PROVE h[j + 1] = g[j]
  <2> DEFINE Apart == {i \in 0 .. Len(ns) : h[Len(ns) + 1 - i + 1] # g[Len(ns) + 1 - i]}
  <2>1. Apart = {}
    <3> SUFFICES ASSUME Apart # {} PROVE FALSE
      OBVIOUS
    <3>1. PICK i \in Apart : \A x \in Apart : i <= x
      <4>1. Apart \subseteq Nat
        BY <1>1
      <4> QED
        BY <4>1, Least
    <3>2. i # 0
      <4>1. h[Len(ns) + 2] = Untouched /\ g[Len(ns) + 1] = Untouched
        BY <1>1, <1>2, <1>3 DEF TraceBack
      <4>2. i = 0 => Len(ns) + 1 - i + 1 = Len(ns) + 2 /\ Len(ns) + 1 - i = Len(ns) + 1
        BY <1>1
      <4> QED
        BY <4>1, <4>2
    <3> DEFINE k == Len(ns) + 1 - i
    <3>3. /\ k \in 1 .. Len(ns) /\ k + 1 \in 1 .. Len(more) /\ i - 1 \in 0 .. Len(ns)
          /\ Len(ns) + 1 - (i - 1) = k + 1 /\ Len(ns) + 1 - (i - 1) + 1 = k + 2
          /\ k + 1 + 1 = k + 2 /\ ~ (i <= i - 1)
      <4>1. i \in 0 .. Len(ns)
        OBVIOUS
      <4> HIDE DEF Apart
      <4>2. \A x \in Nat : \A y \in 0 .. x : y # 0 =>
              /\ x + 1 - y \in 1 .. x /\ x + 1 - y + 1 \in 1 .. x + 1 /\ y - 1 \in 0 .. x
              /\ x + 1 - (y - 1) = x + 1 - y + 1 /\ x + 1 - (y - 1) + 1 = x + 1 - y + 2
              /\ x + 1 - y + 1 + 1 = x + 1 - y + 2 /\ ~ (y <= y - 1)
        OBVIOUS
      <4> QED
        BY <1>1, <3>2, <4>1, <4>2
    <3>4. h[k + 2] = g[k + 1]
      <4>1. i - 1 \notin Apart
        BY <3>1, <3>3
      <4> QED
        BY <3>3, <4>1
    <3>5. h[k + 1] # g[k]
      BY <3>1
    <3> HIDE DEF k
    <3>6. more[k + 1] = ns[k]
      BY <1>1, <3>3
    <3>7. h[k + 1] = ScanDraw(more[k + 1], h[k + 1 + 1]) /\ g[k] = ScanDraw(ns[k], g[k + 1])
      BY <1>2, <1>3, <3>3 DEF TraceBack
    <3> QED
      BY <3>3, <3>4, <3>5, <3>6, <3>7
  <2>2. Len(ns) + 1 - j \in 0 .. Len(ns) /\ Len(ns) + 1 - (Len(ns) + 1 - j) = j
    BY <1>1
  <2>3. Len(ns) + 1 - j \notin Apart
    BY <2>1
  <2> QED
    BY <2>2, <2>3
<1>5. h[1] = ScanDraw(n, h[2])
  <2>1. 1 \in 1 .. Len(more)
    BY <1>1
  <2> QED
    BY <1>1, <1>3, <2>1 DEF TraceBack
<1>6. h[2] = g[1]
  <2>1. 1 \in 1 .. Len(ns) + 1 /\ 1 + 1 = 2
    BY <1>1
  <2> QED
    BY <1>4, <2>1
<1> QED
  BY <1>2, <1>3, <1>5, <1>6 DEF more
-----------------------------------------------------------------------------
(* Order.                                                                  *)

\* Lists in a row may be joined in any order.
LEMMA Regroup == \A S : \A a, b, c \in Seq(S) : (a \o b) \o c = a \o (b \o c)
  BY ConcatAssociative

\* The same for lists of numbers.
LEMMA RegroupNat == \A x, y, z \in Seq(Nat) : (x \o y) \o z = x \o (y \o z)
  BY SMTT(30), ConcatAssociative

\* A list of two parts is increasing when both are and all of the first is below the second.
LEMMA IncreasingConcat ==
    ASSUME NEW a \in Seq(Nat), NEW b \in Seq(Nat)
    PROVE  Increasing(a \o b) <=>
               /\ Increasing(a) /\ Increasing(b)
               /\ \A x \in Range(a), y \in Range(b) : x < y
<1> DEFINE c == a \o b
<1>1. /\ Len(a) \in Nat /\ Len(b) \in Nat /\ Len(c) = Len(a) + Len(b)
      /\ \A i \in 1 .. Len(a) : c[i] = a[i] /\ i \in 1 .. Len(c)
      /\ \A i \in 1 .. Len(b) : c[Len(a) + i] = b[i] /\ Len(a) + i \in 1 .. Len(c)
      /\ \A i \in 1 .. Len(c) : i \in 1 .. Len(a) \/ \E j \in 1 .. Len(b) : i = Len(a) + j
  <2>1. Len(a) \in Nat /\ Len(b) \in Nat /\ Len(c) = Len(a) + Len(b)
    OBVIOUS
  <2>2. ASSUME NEW i \in 1 .. Len(a) PROVE c[i] = a[i] /\ i \in 1 .. Len(c)
    BY <2>1, ConcatProperties
  <2>3. ASSUME NEW i \in 1 .. Len(b) PROVE c[Len(a) + i] = b[i] /\ Len(a) + i \in 1 .. Len(c)
    BY <2>1, ConcatProperties
  <2> HIDE DEF c
  <2>4. ASSUME NEW i \in 1 .. Len(c) PROVE i \in 1 .. Len(a) \/ \E j \in 1 .. Len(b) : i = Len(a) + j
    <3>1. i \notin 1 .. Len(a) => i - Len(a) \in 1 .. Len(b) /\ i = Len(a) + (i - Len(a))
      BY <2>1
    <3> QED
      BY <3>1
  <2> QED
    BY <2>1, <2>2, <2>3, <2>4
<1>2. Range(a) = {a[i] : i \in 1 .. Len(a)} /\ Range(b) = {b[i] : i \in 1 .. Len(b)}
  BY RangeEquality
<1> HIDE DEF c
<1>3. ASSUME Increasing(c)
      PROVE  Increasing(a) /\ Increasing(b) /\ \A x \in Range(a), y \in Range(b) : x < y
  <2>1. Increasing(a)
    BY <1>1, <1>3 DEF Increasing
  <2>2. Increasing(b)
    <3> SUFFICES ASSUME NEW i \in 1 .. Len(b), NEW j \in 1 .. Len(b), i < j PROVE b[i] < b[j]
      BY DEF Increasing
    <3>1. Len(a) + i < Len(a) + j
      BY <1>1
    <3> QED
      BY <1>1, <1>3, <3>1 DEF Increasing
  <2>3. ASSUME NEW i \in 1 .. Len(a), NEW j \in 1 .. Len(b) PROVE a[i] < b[j]
    <3>1. i < Len(a) + j
      BY <1>1
    <3> QED
      BY <1>1, <1>3, <3>1 DEF Increasing
  <2> QED
    BY <1>2, <2>1, <2>2, <2>3
<1>4. ASSUME Increasing(a), Increasing(b), \A x \in Range(a), y \in Range(b) : x < y
      PROVE  Increasing(c)
  <2> SUFFICES ASSUME NEW i \in 1 .. Len(c), NEW j \in 1 .. Len(c), i < j PROVE c[i] < c[j]
    BY DEF Increasing
  <2>1. CASE j \in 1 .. Len(a)
    <3>1. i \in 1 .. Len(a)
      BY <1>1, <2>1
    <3> QED
      BY <1>1, <1>4, <2>1, <3>1 DEF Increasing
  <2>2. CASE j \notin 1 .. Len(a)
    <3>1. PICK y \in 1 .. Len(b) : j = Len(a) + y
      BY <1>1, <2>2
    <3>2. CASE i \in 1 .. Len(a)
      BY ZenonT(60), <1>1, <1>2, <1>4, <3>1, <3>2
    <3>3. CASE i \notin 1 .. Len(a)
      <4>1. PICK x \in 1 .. Len(b) : i = Len(a) + x
        BY <1>1, <3>3
      <4>2. x < y
        BY <1>1, <3>1, <4>1
      <4> QED
        BY <1>1, <1>4, <3>1, <4>1, <4>2 DEF Increasing
    <3> QED
      BY <3>2, <3>3
  <2> QED
    BY <2>1, <2>2
<1> QED
  BY <1>3, <1>4 DEF c

\* A list of one number, and of none.
LEMMA Single ==
    ASSUME NEW n \in Nat
    PROVE  /\ <<n>> \in Seq(Nat) /\ Increasing(<<n>>) /\ Range(<<n>>) = {n}
           /\ Increasing(<<>>) /\ Range(<<>>) = {} /\ <<>> \in Seq(Nat)
<1>1. <<n>> \in Seq(Nat) /\ Len(<<n>>) = 1 /\ <<n>>[1] = n /\ <<>> \in Seq(Nat) /\ Len(<<>>) = 0
  OBVIOUS
<1>2. Range(<<n>>) = {<<n>>[i] : i \in 1 .. 1} /\ Range(<<>>) = {<<>>[i] : i \in 1 .. 0}
  BY <1>1, RangeEquality
<1>3. Range(<<n>>) = {n} /\ Range(<<>>) = {}
  BY <1>1, <1>2
<1>4. Increasing(<<n>>)
  <2>1. \A i, j \in 1 .. 1 : ~ (i < j)
    OBVIOUS
  <2> QED
    BY <1>1, <2>1 DEF Increasing
<1> QED
  BY <1>1, <1>3, <1>4 DEF Increasing

\* What is above all of a list may come behind it.
LEMMA IncreasingAppend ==
    ASSUME NEW a \in Seq(Nat), NEW n \in Nat
    PROVE  /\ Append(a, n) = a \o <<n>> /\ Append(a, n) \in Seq(Nat)
           /\ Range(Append(a, n)) = Range(a) \cup {n}
           /\ Increasing(Append(a, n)) <=> Increasing(a) /\ \A x \in Range(a) : x < n
<1>1. Append(a, n) = a \o <<n>> /\ Append(a, n) \in Seq(Nat)
  BY AppendIsConcat
<1>2. Range(a \o <<n>>) = Range(a) \cup {n}
  <2>1. <<n>> \in Seq(Nat) /\ Range(<<n>>) = {n}
    BY Single
  <2>2. Range(a \o <<n>>) = Range(a) \cup Range(<<n>>)
    BY ZenonT(60), <2>1, RangeConcatenation
  <2> QED
    BY Zenon, <2>1, <2>2
<1>3. Increasing(a \o <<n>>) <=> Increasing(a) /\ \A x \in Range(a) : x < n
  <2>1. <<n>> \in Seq(Nat) /\ Range(<<n>>) = {n} /\ Increasing(<<n>>)
    BY Single
  <2>2. Increasing(a \o <<n>>) <=>
            Increasing(a) /\ Increasing(<<n>>) /\ \A x \in Range(a), y \in Range(<<n>>) : x < y
    BY Zenon, <2>1, IncreasingConcat
  <2> QED
    BY Zenon, <2>1, <2>2
<1> QED
  BY <1>1, <1>2, <1>3

-----------------------------------------------------------------------------
(* DisplayPreProcess keeps the order.                                      *)

\* The messages that are not in the RunQueue yet.
Behind(p) == p.waiting \o (p.inProcess \o p.queued)

Lists(p, S) ==
    /\ DOMAIN p = Fields
    /\ p.waiting \in Seq(S) /\ p.inProcess \in Seq(S) /\ p.queued \in Seq(S)

\* A list cut in two.
LEMMA CutInTwo ==
    ASSUME NEW S, NEW ns \in Seq(S), NEW k \in 0 .. Len(ns)
    PROVE  /\ SubSeq(ns, 1, k) \in Seq(S) /\ SubSeq(ns, k + 1, Len(ns)) \in Seq(S)
           /\ SubSeq(ns, 1, k) \o SubSeq(ns, k + 1, Len(ns)) = ns
<1>1. Len(ns) \in Nat /\ 1 \in 1 .. Len(ns) + 1 /\ k \in 1 - 1 .. Len(ns) /\ Len(ns) \in k .. Len(ns)
  OBVIOUS
<1>2. SubSeq(ns, 1, k) \o SubSeq(ns, k + 1, Len(ns)) = SubSeq(ns, 1, Len(ns))
  BY <1>1, ConcatAdjacentSubSeq
<1>3. SubSeq(ns, 1, Len(ns)) = ns
  BY SubSeqFull
<1>4. SubSeq(ns, 1, k) \in Seq(S)
  <2>1. \A i \in 1 .. k : ns[i] \in S
    BY <1>1, ElementOfSeq
  <2> QED
    BY <1>1, <2>1, SubSeqProperties
<1>5. SubSeq(ns, k + 1, Len(ns)) \in Seq(S)
  <2>1. \A i \in k + 1 .. Len(ns) : ns[i] \in S
    BY <1>1, ElementOfSeq
  <2> QED
    BY <1>1, <2>1, SubSeqProperties
<1> QED
  BY <1>2, <1>3, <1>4, <1>5

\* HandOn cuts inProcess at its first task that is not done, so the order stays.
LEMMA HandOnInOrder ==
    ASSUME NEW p, NEW S, Lists(p, S)
    PROVE  Lists(HandOn(p), S) /\ Behind(HandOn(p)) = Behind(p)
<1> DEFINE ns == p.inProcess
           k == Before(ns, p.working)
           a == SubSeq(ns, 1, k)
           b == SubSeq(ns, k + 1, Len(ns))
<1>1. /\ DOMAIN p = Fields
      /\ p.waiting \in Seq(S) /\ ns \in Seq(S) /\ p.queued \in Seq(S)
  BY DEF Lists
<1>2. k \in 0 .. Len(ns)
  <2>1. Len(ns) \in Nat
    BY <1>1
  <2> QED
    BY <2>1, BeforeInRange
<1>3. a \in Seq(S) /\ b \in Seq(S) /\ a \o b = ns
  BY <1>1, <1>2, CutInTwo
<1>4. HandOn(p) = [p EXCEPT !.waiting = @ \o a, !.inProcess = b]
  BY DEF HandOn
<1> HIDE DEF a, b, k
<1>5. /\ DOMAIN HandOn(p) = Fields /\ HandOn(p).queued = p.queued
      /\ HandOn(p).waiting = p.waiting \o a /\ HandOn(p).inProcess = b
  BY <1>1, <1>4 DEF Fields
<1>0. \A x, y, z \in Seq(S) : (x \o y) \o z = x \o (y \o z)
  BY Regroup
<1>6. p.waiting \o a \in Seq(S) /\ b \o p.queued \in Seq(S)
  BY <1>1, <1>3, ConcatProperties
<1>7. (p.waiting \o a) \o (b \o p.queued) = p.waiting \o (a \o (b \o p.queued))
  BY ZenonT(60), <1>0, <1>1, <1>3, <1>6
<1>8. a \o (b \o p.queued) = (a \o b) \o p.queued
  BY ZenonT(60), <1>0, <1>1, <1>3
<1> QED
  BY <1>1, <1>3, <1>5, <1>6, <1>7, <1>8 DEF Lists, Behind

\* A consumer takes from the head of the queue, so the order stays.
LEMMA ExecuteInOrder ==
    ASSUME NEW p, NEW S, Lists(p, S), NEW msgs
    PROVE  LET q == ExecuteConsumer(p, msgs) IN Lists(q, S) /\ Behind(q) = Behind(p)
<1> DEFINE ns == p.queued
           k == Before(ns, ForWorkers(msgs))
           taken == Smaller(k + 1, Len(ns))
           a == SubSeq(ns, 1, taken)
           b == SubSeq(ns, taken + 1, Len(ns))
           new == {ns[i] : i \in k + 1 .. taken}
           r == [p EXCEPT !.queued = b,
                          !.inProcess = @ \o a,
                          !.working = @ \cup new,
                          !.idle = IF k = Len(ns) /\ k > 0 THEN @ ELSE @ - 1]
<1>1. /\ DOMAIN p = Fields
      /\ p.waiting \in Seq(S) /\ p.inProcess \in Seq(S) /\ ns \in Seq(S)
  BY DEF Lists
<1>2. taken \in 0 .. Len(ns)
  <2>1. Len(ns) \in Nat
    BY <1>1
  <2>2. k \in 0 .. Len(ns)
    BY <2>1, BeforeInRange
  <2> HIDE DEF k
  <2> QED
    BY <2>1, <2>2 DEF Smaller
<1>3. a \in Seq(S) /\ b \in Seq(S) /\ a \o b = ns
  BY <1>1, <1>2, CutInTwo
<1>4. ExecuteConsumer(p, msgs) = IF p.idle = 0 THEN p ELSE HandOn(r)
  BY DEF ExecuteConsumer
<1> HIDE DEF a, b, k, taken, new
<1>5. /\ DOMAIN r = Fields /\ r.queued = b
      /\ r.waiting = p.waiting /\ r.inProcess = p.inProcess \o a
  BY <1>1 DEF Fields
<1> HIDE DEF r
<1>0. \A x, y, z \in Seq(S) : (x \o y) \o z = x \o (y \o z)
  BY Regroup
<1>6. p.inProcess \o a \in Seq(S)
  BY <1>1, <1>3, ConcatProperties
<1>7. (p.inProcess \o a) \o b = p.inProcess \o (a \o b)
  BY <1>0, <1>1, <1>3
<1>8. Lists(r, S) /\ Behind(r) = Behind(p)
  BY <1>1, <1>3, <1>5, <1>6, <1>7 DEF Lists, Behind
<1>9. Lists(HandOn(r), S) /\ Behind(HandOn(r)) = Behind(p)
  BY <1>8, HandOnInOrder
<1> QED
  BY <1>4, <1>9
-----------------------------------------------------------------------------
(* The RunQueue keeps the order.                                           *)

\* The message that is decoded, and those that wait for it.
Held(s) == (IF s.current = 0 THEN <<>> ELSE <<s.current>>) \o s.tasks

Parts == {"paint", "tasks", "current", "video", "shown", "outrun"}

\* A screen whose messages are of S.
Screen(s, S) ==
    /\ DOMAIN s = Parts
    /\ s.tasks \in Seq(S) /\ s.current \in S \cup {0} /\ s.video \subseteq S
    /\ s.current = 0 => s.tasks = <<>>
    /\ \A v, w \in s.video : v = w
    /\ s.video # {} => s.current = 0
    /\ s.outrun \in BOOLEAN

\* What is held is a list of messages, and empty when none is decoded.
LEMMA HeldIs ==
    ASSUME NEW S \in SUBSET (Nat \ {0}), NEW s, Screen(s, S)
    PROVE  /\ Held(s) \in Seq(S) /\ Held(s) \in Seq(Nat)
           /\ s.current = 0 => Held(s) = <<>>
           /\ s.current # 0 => Held(s) = <<s.current>> \o s.tasks
<1>1. s.tasks \in Seq(S)
  BY DEF Screen
<1>2. CASE s.current = 0
  <2>1. s.tasks = <<>>
    BY <1>2 DEF Screen
  <2>2. Held(s) = <<>> \o <<>>
    BY <1>2, <2>1 DEF Held
  <2>3. <<>> \o <<>> = <<>> /\ <<>> \in Seq(S) /\ <<>> \in Seq(Nat)
    BY ConcatEmptySeq, EmptySeq
  <2> QED
    BY <1>2, <2>2, <2>3
<1>3. CASE s.current # 0
  <2>1. s.current \in S
    BY <1>3 DEF Screen
  <2>2. <<s.current>> \in Seq(S)
    BY <2>1
  <2>3. Held(s) = <<s.current>> \o s.tasks
    BY <1>3 DEF Held
  <2>4. Held(s) \in Seq(S)
    BY <1>1, <2>2, <2>3, ConcatProperties
  <2>5. Held(s) \in Seq(Nat)
    <3>1. S \subseteq Nat
      OBVIOUS
    <3> QED
      BY <2>4, <3>1, SeqMonotonic
  <2> QED
    BY <1>3, <2>3, <2>4, <2>5
<1> QED
  BY <1>2, <1>3

\* All that is held comes after the frames that load.
InLine(s) == Increasing(Held(s)) /\ \A v \in s.video, x \in Range(Held(s)) : v < x

\* A task is held behind the one that is decoded, or it starts, or it is done.
LEMMA RunTaskIs ==
    ASSUME NEW S \in SUBSET (Nat \ {0}), NEW s, Screen(s, S), NEW n \in S
    PROVE  LET t == RunTask(s, n) IN
           /\ Screen(t, S) /\ t.shown = s.shown
           /\ \/ s.current # 0 /\ Held(t) = Append(Held(s), n) /\ t.video = s.video /\ t.paint = s.paint
              \/ /\ s.current = 0 /\ Held(s) = <<>>
                 /\ \/ Held(t) = <<>> /\ t.video = {n} /\ t.paint = s.paint /\ sent[n].op = "frame"
                    \/ Held(t) = <<n>> /\ t.video = {} /\ t.paint = s.paint
                    \/ Held(t) = <<>> /\ t.video = s.video /\ t.paint = Paint(s.paint, sent[n], n)
           /\ s.outrun => t.outrun
           /\ s.current = 0 /\ Outruns(s, n) => t.outrun
<1> DEFINE t == RunTask(s, n)
           late == s.outrun \/ Outruns(s, n)
<1>1. /\ DOMAIN s = Parts /\ s.tasks \in Seq(S) /\ s.current \in S \cup {0} /\ s.video \subseteq S
      /\ s.current = 0 => s.tasks = <<>>
      /\ \A v, w \in s.video : v = w
      /\ s.video # {} => s.current = 0
      /\ s.outrun \in BOOLEAN
      /\ n \in Nat /\ n # 0
  BY DEF Screen
<1>2. CASE s.current # 0
  <2>1. t = [s EXCEPT !.tasks = Append(@, n)]
    BY Zenon, <1>2 DEF RunTask
  <2> HIDE DEF t
  <2>2. /\ DOMAIN t = Parts /\ t.tasks = Append(s.tasks, n) /\ t.current = s.current
        /\ t.video = s.video /\ t.shown = s.shown /\ t.paint = s.paint /\ t.outrun = s.outrun
    BY <1>1, <2>1 DEF Parts
  <2>3. Screen(t, S)
    <3>1. Append(s.tasks, n) \in Seq(S)
      BY <1>1, AppendProperties
    <3> QED
      BY <1>1, <1>2, <2>2, <3>1 DEF Screen
  <2>4. Held(t) = Append(Held(s), n)
    <3>1. s.current \in S /\ <<s.current>> \in Seq(S) /\ <<n>> \in Seq(S)
      BY <1>1, <1>2
    <3>2. Held(t) = <<s.current>> \o Append(s.tasks, n) /\ Held(s) = <<s.current>> \o s.tasks
      BY <1>2, <2>2 DEF Held
    <3>3. Append(s.tasks, n) = s.tasks \o <<n>>
      BY <1>1, AppendIsConcat
    <3>4. <<s.current>> \o (s.tasks \o <<n>>) = (<<s.current>> \o s.tasks) \o <<n>>
      <4>1. \A x, y, z \in Seq(S) : (x \o y) \o z = x \o (y \o z)
        BY SMTT(30), Regroup
      <4> QED
        BY ZenonT(60), <1>1, <3>1, <4>1
    <3>5. Append(Held(s), n) = Held(s) \o <<n>>
      BY HeldIs, AppendIsConcat
    <3> QED
      BY <3>2, <3>3, <3>4, <3>5
  <2> QED
    BY <1>2, <2>2, <2>3, <2>4 DEF t
<1>3. CASE s.current = 0
  <2>0. /\ Held(s) = <<>>
        /\ late \in BOOLEAN /\ (s.outrun => late) /\ (Outruns(s, n) => late)
    BY <1>3, HeldIs
  <2>00. t = [StartTask(s, n) EXCEPT !.outrun = @ \/ Outruns(s, n)]
    BY Zenon, <1>3 DEF RunTask
  <2>1. CASE sent[n].op = "frame"
    <3> DEFINE b == [s EXCEPT !.video = {n}]
    <3>0. StartTask(s, n) = b
      BY Zenon, <2>1 DEF StartTask, FrameStarts
    <3>1. b.outrun = s.outrun
      BY <1>1 DEF Parts
    <3>11. t = [b EXCEPT !.outrun = late]
      BY Zenon, <2>00, <3>0, <3>1
    <3> HIDE DEF t, late
    <3>2. /\ DOMAIN t = Parts /\ t.tasks = s.tasks /\ t.current = s.current /\ t.outrun = late
          /\ t.video = {n} /\ t.shown = s.shown /\ t.paint = s.paint
      BY <1>1, <3>11 DEF Parts
    <3>3. Screen(t, S)
      BY <1>1, <1>3, <2>0, <3>2 DEF Screen
    <3>4. Held(t) = <<>>
      BY <1>3, <3>2, <3>3, HeldIs
    <3> QED
      BY <1>3, <2>0, <2>1, <3>2, <3>3, <3>4 DEF t
  <2>2. CASE sent[n].op # "frame" /\ sent[n].image = "jpeg"
    <3> DEFINE b == [s EXCEPT !.current = n, !.video = {}]
    <3>0. StartTask(s, n) = b
      BY Zenon, <2>2 DEF StartTask, ImageStarts
    <3>1. b.outrun = s.outrun
      BY <1>1 DEF Parts
    <3>11. t = [b EXCEPT !.outrun = late]
      BY Zenon, <2>00, <3>0, <3>1
    <3> HIDE DEF t, late
    <3>2. /\ DOMAIN t = Parts /\ t.tasks = <<>> /\ t.current = n /\ t.outrun = late
          /\ t.video = {} /\ t.shown = s.shown /\ t.paint = s.paint
      BY <1>1, <1>3, <3>11 DEF Parts
    <3>3. Screen(t, S)
      BY <1>1, <2>0, <3>2 DEF Screen
    <3>4. Held(t) = <<n>>
      <4>1. <<n>> \in Seq(Nat)
        BY <1>1
      <4>2. Held(t) = <<n>> \o <<>>
        BY <1>1, <3>2 DEF Held
      <4> QED
        BY <4>1, <4>2, ConcatEmptySeq
    <3> QED
      BY <1>3, <2>0, <3>2, <3>3, <3>4 DEF t
  <2>3. CASE sent[n].op # "frame" /\ sent[n].image # "jpeg"
    <3> DEFINE b == [s EXCEPT !.paint = Paint(@, sent[n], n)]
    <3>0. StartTask(s, n) = b
      BY Zenon, <2>3 DEF StartTask
    <3>1. b.outrun = s.outrun
      BY <1>1 DEF Parts
    <3>11. t = [b EXCEPT !.outrun = late]
      BY Zenon, <2>00, <3>0, <3>1
    <3> HIDE DEF t, late
    <3>2. /\ DOMAIN t = Parts /\ t.tasks = s.tasks /\ t.current = s.current /\ t.outrun = late
          /\ t.video = s.video /\ t.shown = s.shown /\ t.paint = Paint(s.paint, sent[n], n)
      BY <1>1, <3>11 DEF Parts
    <3>3. Screen(t, S)
      BY <1>1, <1>3, <2>0, <3>2 DEF Screen
    <3>4. Held(t) = <<>>
      BY <1>3, <3>2, <3>3, HeldIs
    <3> QED
      BY <1>3, <2>0, <3>2, <3>3, <3>4 DEF t
  <2> QED
    BY <2>1, <2>2, <2>3
<1> QED
  BY <1>2, <1>3

\* A task that comes after all that is held leaves what is held in line.
LEMMA RunTaskInOrder ==
    ASSUME NEW S \in SUBSET (Nat \ {0}), NEW s, Screen(s, S), NEW n \in S
    PROVE  LET t == RunTask(s, n) IN
           /\ Screen(t, S) /\ t.shown = s.shown
           /\ t.video \subseteq s.video \cup {n}
           /\ Range(Held(t)) \subseteq Range(Held(s)) \cup {n}
           /\ InLine(s) /\ (\A x \in Range(Held(s)) \cup s.video : x < n) => InLine(t)
<1> DEFINE t == RunTask(s, n)
<1>1. /\ Screen(t, S) /\ t.shown = s.shown
      /\ \/ s.current # 0 /\ Held(t) = Append(Held(s), n) /\ t.video = s.video
         \/ /\ Held(t) = <<>> \/ (Held(t) = <<n>> /\ t.video = {})
            /\ t.video = s.video \/ t.video = {n} \/ t.video = {}
  <2>1. /\ Screen(t, S) /\ t.shown = s.shown
        /\ \/ s.current # 0 /\ Held(t) = Append(Held(s), n) /\ t.video = s.video /\ t.paint = s.paint
           \/ /\ s.current = 0 /\ Held(s) = <<>>
              /\ \/ Held(t) = <<>> /\ t.video = {n} /\ t.paint = s.paint /\ sent[n].op = "frame"
                 \/ Held(t) = <<n>> /\ t.video = {} /\ t.paint = s.paint
                 \/ Held(t) = <<>> /\ t.video = s.video /\ t.paint = Paint(s.paint, sent[n], n)
    BY RunTaskIs
  <2> HIDE DEF t
  <2> QED
    BY Zenon, <2>1
<1> HIDE DEF t
<1>2. CASE Held(t) = Append(Held(s), n) /\ t.video = s.video
  <2>1. Held(s) \in Seq(Nat) /\ n \in Nat
    BY HeldIs
  <2>2. /\ Range(Append(Held(s), n)) = Range(Held(s)) \cup {n}
        /\ Increasing(Append(Held(s), n)) <=> Increasing(Held(s)) /\ \A x \in Range(Held(s)) : x < n
    BY <2>1, IncreasingAppend
  <2> QED
    BY <1>1, <1>2, <2>2 DEF InLine, t
<1>3. CASE /\ Held(t) = <<>> \/ (Held(t) = <<n>> /\ t.video = {})
           /\ t.video = s.video \/ t.video = {n} \/ t.video = {}
  <2>1. /\ Range(<<n>>) = {n} /\ Increasing(<<n>>)
        /\ Range(<<>>) = {} /\ Increasing(<<>>)
    BY Single
  <2> QED
    BY <1>1, <1>3, <2>1 DEF InLine, t
<1> QED
  BY <1>1, <1>2, <1>3

\* So do tasks that are run one after the other.
LEMMA RunInOrder ==
    ASSUME NEW S \in SUBSET (Nat \ {0}), NEW s, Screen(s, S), NEW ns \in Seq(S)
    PROVE  LET t == Run(s, ns) IN
           /\ Screen(t, S) /\ t.shown = s.shown
           /\ t.video \subseteq s.video \cup Range(ns)
           /\ Range(Held(t)) \subseteq Range(Held(s)) \cup Range(ns)
           /\ /\ InLine(s) /\ Increasing(ns)
              /\ \A x \in Range(Held(s)) \cup s.video, y \in Range(ns) : x < y
              => InLine(t)
<1> DEFINE Keeps(ms) ==
             LET t == Run(s, ms) IN
             /\ Screen(t, S) /\ t.shown = s.shown
             /\ t.video \subseteq s.video \cup Range(ms)
             /\ Range(Held(t)) \subseteq Range(Held(s)) \cup Range(ms)
             /\ /\ InLine(s) /\ Increasing(ms)
                /\ \A x \in Range(Held(s)) \cup s.video, y \in Range(ms) : x < y
                => InLine(t)
           T == {ms \in Seq(S) : Keeps(ms)}
<1>0. S \subseteq Nat /\ \A ms \in Seq(S) : ms \in Seq(Nat)
  BY SeqMonotonic
<1>1. <<>> \in T
  <2>1. Run(s, <<>>) = s /\ <<>> \in Seq(S)
    BY RunEmpty
  <2>2. Keeps(<<>>)
    BY <2>1
  <2> QED
    BY <2>1, <2>2
<1>2. ASSUME NEW ms \in Seq(S), NEW n \in S, ms \in T PROVE Append(ms, n) \in T
  <2> DEFINE u == Run(s, ms)
             t == RunTask(u, n)
  <2>1. Run(s, Append(ms, n)) = t
    BY <1>0, RunAppend
  <2>2. Keeps(ms)
    BY <1>2
  <2>3. /\ Screen(u, S) /\ u.shown = s.shown
        /\ u.video \subseteq s.video \cup Range(ms)
        /\ Range(Held(u)) \subseteq Range(Held(s)) \cup Range(ms)
        /\ /\ InLine(s) /\ Increasing(ms)
           /\ \A x \in Range(Held(s)) \cup s.video, y \in Range(ms) : x < y
           => InLine(u)
    BY <2>2
  <2> HIDE DEF u
  <2>4. /\ Screen(t, S) /\ t.shown = u.shown
        /\ t.video \subseteq u.video \cup {n}
        /\ Range(Held(t)) \subseteq Range(Held(u)) \cup {n}
        /\ InLine(u) /\ (\A x \in Range(Held(u)) \cup u.video : x < n) => InLine(t)
    BY <2>3, RunTaskInOrder
  <2>5. /\ Range(Append(ms, n)) = Range(ms) \cup {n} /\ Append(ms, n) \in Seq(S)
        /\ Increasing(Append(ms, n)) <=> Increasing(ms) /\ \A x \in Range(ms) : x < n
    BY <1>0, IncreasingAppend, AppendProperties
  <2> HIDE DEF t
  <2>6. ASSUME InLine(s), Increasing(Append(ms, n)),
               \A x \in Range(Held(s)) \cup s.video, y \in Range(Append(ms, n)) : x < y
        PROVE  InLine(t)
    <3>1. Increasing(ms) /\ \A x \in Range(ms) : x < n
      BY <2>5, <2>6
    <3>2. \A x \in Range(Held(s)) \cup s.video : x < n /\ \A y \in Range(ms) : x < y
      BY <2>5, <2>6
    <3>3. InLine(u)
      BY <2>3, <2>6, <3>1, <3>2
    <3>4. \A x \in Range(Held(u)) \cup u.video : x < n
      BY <2>3, <3>1, <3>2
    <3> QED
      BY <2>4, <3>3, <3>4
  <2>7. Keeps(Append(ms, n))
    BY <2>1, <2>3, <2>4, <2>5, <2>6
  <2> HIDE DEF Keeps
  <2> QED
    BY <2>5, <2>7
<1> HIDE DEF T
<1>3. ns \in T
  BY <1>1, <1>2, AppendInduction
<1>4. Keeps(ns)
  BY <1>3 DEF T
<1> QED
  BY <1>4
-----------------------------------------------------------------------------
(* What is not redundant keeps its order.                                  *)

\* What is in a list of two parts is in one of them.
LEMMA RangeJoin == \A S : \A a, b \in Seq(S) : Range(a \o b) = Range(a) \cup Range(b)
  BY RangeConcatenation

Finding(acc, S) == DOMAIN acc = {"kept", "boxes", "ended"} /\ acc.kept \in Seq(S)

\* What is in front of all of a list may come first.
LEMMA IncreasingCons ==
    ASSUME NEW a \in Seq(Nat), NEW n \in Nat
    PROVE  /\ <<n>> \o a \in Seq(Nat) /\ Range(<<n>> \o a) = {n} \cup Range(a)
           /\ Increasing(<<n>> \o a) <=> Increasing(a) /\ \A x \in Range(a) : n < x
<1>1. <<n>> \in Seq(Nat) /\ Range(<<n>>) = {n} /\ Increasing(<<n>>)
  BY Single
<1>2. Range(<<n>> \o a) = Range(<<n>>) \cup Range(a)
  <2>1. \A x, y \in Seq(Nat) : Range(x \o y) = Range(x) \cup Range(y)
    BY RangeJoin
  <2> QED
    BY <1>1, <2>1
<1>3. Increasing(<<n>> \o a) <=>
          Increasing(<<n>>) /\ Increasing(a) /\ \A x \in Range(<<n>>), y \in Range(a) : x < y
  BY Zenon, <1>1, IncreasingConcat
<1>4. <<n>> \o a \in Seq(Nat)
  BY Zenon, <1>1, ConcatProperties
<1> QED
  BY Zenon, <1>1, <1>2, <1>3, <1>4

\* removeRedundantDraws leaves a part of the list, in its order.
LEMMA ScanInOrder ==
    ASSUME NEW S \in SUBSET (Nat \ {0}), NEW ns \in Seq(S)
    PROVE  LET acc == Scanned(ns) IN
           /\ Finding(acc, S) /\ Range(acc.kept) \subseteq Range(ns)
           /\ Increasing(ns) => Increasing(acc.kept)
<1> DEFINE Keeps(ms) == LET acc == Scanned(ms) IN
             /\ Finding(acc, S) /\ Range(acc.kept) \subseteq Range(ms)
             /\ Increasing(ms) => Increasing(acc.kept)
           T == {ms \in Seq(S) : Keeps(ms)}
<1>0. S \subseteq Nat /\ \A ms \in Seq(S) : ms \in Seq(Nat)
  BY SeqMonotonic
<1>1. <<>> \in T
  <2>1. Scanned(<<>>) = Untouched /\ <<>> \in Seq(S) /\ Untouched.kept = <<>>
    BY ScanEmpty DEF Untouched
  <2>2. DOMAIN Untouched = {"kept", "boxes", "ended"}
    BY DEF Untouched
  <2>3. Keeps(<<>>)
    BY <2>1, <2>2 DEF Finding
  <2> QED
    BY <2>1, <2>3
<1>2. ASSUME NEW ms \in Seq(S), NEW n \in S, ms \in T PROVE <<n>> \o ms \in T
  <2> DEFINE u == Scanned(ms)
             t == ScanDraw(n, u)
  <2>1. Scanned(<<n>> \o ms) = t
    BY <1>0, ScanCons
  <2>2. Keeps(ms)
    BY <1>2
  <2>3. /\ DOMAIN u = {"kept", "boxes", "ended"} /\ u.kept \in Seq(S)
        /\ Range(u.kept) \subseteq Range(ms)
        /\ Increasing(ms) => Increasing(u.kept)
    BY <2>2 DEF Finding
  <2> HIDE DEF u
  <2>4. DOMAIN t = {"kept", "boxes", "ended"} /\ (t.kept = u.kept \/ t.kept = <<n>> \o u.kept)
    BY <2>3 DEF ScanDraw
  <2> HIDE DEF t
  <2>5. /\ ms \in Seq(Nat) /\ u.kept \in Seq(Nat) /\ n \in Nat
        /\ <<n>> \in Seq(S)
    BY <1>0, <2>3
  <2>6. <<n>> \o u.kept \in Seq(S) /\ <<n>> \o ms \in Seq(S)
    BY Zenon, <2>3, <2>5, ConcatProperties
  <2>7. /\ Range(<<n>> \o ms) = {n} \cup Range(ms)
        /\ Increasing(<<n>> \o ms) <=> Increasing(ms) /\ \A x \in Range(ms) : n < x
        /\ Range(<<n>> \o u.kept) = {n} \cup Range(u.kept)
        /\ Increasing(<<n>> \o u.kept) <=> Increasing(u.kept) /\ \A x \in Range(u.kept) : n < x
    BY <2>5, IncreasingCons
  <2>8. t.kept \in Seq(S)
    BY <2>3, <2>4, <2>6
  <2>9. Range(t.kept) \subseteq Range(<<n>> \o ms)
    BY <2>3, <2>4, <2>7
  <2>10. Increasing(<<n>> \o ms) => Increasing(t.kept)
    BY <2>3, <2>4, <2>7
  <2>11. Keeps(<<n>> \o ms)
    BY <2>1, <2>4, <2>8, <2>9, <2>10 DEF Finding
  <2> HIDE DEF Keeps
  <2> QED
    BY <2>6, <2>11
<1> HIDE DEF T
<1>3. ns \in T
  BY <1>1, <1>2, ConsInduction
<1>4. Keeps(ns)
  BY <1>3 DEF T
<1> QED
  BY <1>4
-----------------------------------------------------------------------------
(* The steps, in order.                                                    *)

\* From the last frame shown to the last message received, numbers only rise.
InOrder ==
    /\ Lists(Pre, Numbers) /\ Screen(screen, Numbers)
    /\ InLine(screen) /\ Increasing(Behind(Pre))
    /\ \A x \in Range(Held(screen)) \cup screen.video, y \in Range(Behind(Pre)) : x < y
    /\ screen.shown \in Numbers \cup {0}
    /\ \A x \in Range(Held(screen)) \cup screen.video \cup Range(Behind(Pre)) : screen.shown < x
    /\ failed \subseteq Numbers

\* What is behind is a list of messages, those of its three parts.
LEMMA BehindIs ==
    ASSUME NEW S \in SUBSET Nat, NEW p, Lists(p, S)
    PROVE  /\ Behind(p) \in Seq(S) /\ Behind(p) \in Seq(Nat)
           /\ p.inProcess \o p.queued \in Seq(S)
           /\ Range(Behind(p)) = Range(p.waiting) \cup Range(p.inProcess \o p.queued)
<1>1. p.waiting \in Seq(S) /\ p.inProcess \in Seq(S) /\ p.queued \in Seq(S)
  BY DEF Lists
<1>2. p.inProcess \o p.queued \in Seq(S)
  BY Zenon, <1>1, ConcatProperties
<1>3. Behind(p) \in Seq(S)
  BY Zenon, <1>1, <1>2, ConcatProperties DEF Behind
<1>4. Range(Behind(p)) = Range(p.waiting) \cup Range(p.inProcess \o p.queued)
  <2>1. \A x, y \in Seq(S) : Range(x \o y) = Range(x) \cup Range(y)
    BY RangeJoin
  <2>2. Range(p.waiting \o (p.inProcess \o p.queued)) = Range(p.waiting) \cup Range(p.inProcess \o p.queued)
    BY <1>1, <1>2, <2>1
  <2> QED
    BY <2>2 DEF Behind
<1> QED
  BY <1>2, <1>3, <1>4, SeqMonotonic

\* What holds of the record that the lists become holds of the lists.
LEMMA BecomesInOrder ==
    ASSUME NEW q, NEW S, Lists(q, S), Becomes(q)
    PROVE  Lists(Pre', S) /\ Behind(Pre)' = Behind(q)
<1>1. waiting' = q.waiting /\ inProcess' = q.inProcess /\ queued' = q.queued
  BY DEF Becomes
<1>2. /\ Pre'.waiting = q.waiting /\ Pre'.inProcess = q.inProcess /\ Pre'.queued = q.queued
      /\ DOMAIN Pre' = Fields
  BY <1>1 DEF Pre, Fields
<1> QED
  BY <1>2 DEF Lists, Behind

\* At first there is nothing to be out of order.
LEMMA InitInOrder == Init => InOrder
<1> SUFFICES ASSUME Init PROVE InOrder
  OBVIOUS
<1>1. /\ Pre.queued = <<>> /\ Pre.inProcess = <<>> /\ Pre.waiting = <<>> /\ DOMAIN Pre = Fields
  BY DEF Init, Pre, Fields
<1>2. /\ DOMAIN screen = Parts /\ screen.tasks = <<>> /\ screen.current = 0
      /\ screen.video = {} /\ screen.shown = 0 /\ screen.outrun \in BOOLEAN
  BY DEF Init, InitScreen, Parts
<1>3. <<>> \in Seq(Numbers) /\ <<>> \in Seq(Nat) /\ Increasing(<<>>) /\ Range(<<>>) = {} /\ <<>> \o <<>> = <<>>
  BY Single, EmptySeq, ConcatEmptySeq
<1>4. Lists(Pre, Numbers) /\ Screen(screen, Numbers)
  BY <1>1, <1>2, <1>3 DEF Lists, Screen
<1>5. Held(screen) = <<>> /\ Behind(Pre) = <<>>
  BY <1>1, <1>2, <1>3 DEF Held, Behind
<1>6. failed = {}
  BY DEF Init
<1> QED
  BY <1>2, <1>3, <1>4, <1>5, <1>6 DEF InOrder, InLine

\* More may be received.
LEMMA MoreNumbers ==
    ASSUME NEW S, NEW T, S \subseteq T
    PROVE  /\ \A p : Lists(p, S) => Lists(p, T)
           /\ \A s : Screen(s, S) => Screen(s, T)
<1>1. \A ns \in Seq(S) : ns \in Seq(T)
  BY SeqMonotonic
<1> QED
  BY <1>1 DEF Lists, Screen

\* A message that arrives is the last one.
LEMMA ReceiveInOrder ==
    ASSUME Inv, InOrder, NEW m \in palette, Receive(m)
    PROVE  InOrder' /\ Behind(Pre)' = Behind(Pre) \o <<Len(sent) + 1>>
           /\ sent' = Append(sent, m) /\ Len(sent') = Len(sent) + 1
<1> DEFINE n == Len(sent) + 1
           p == [Pre EXCEPT !.queued = Append(@, n)]
<1>1. /\ sent' = Append(sent, m) /\ screen' = screen /\ failed' = failed
      /\ Becomes(ExecuteConsumer(p, sent'))
  BY DEF Receive
<1>2. Len(sent) \in Nat /\ Len(sent') = n
  <2>1. sent \in Seq(Messages)
    BY DEF Inv
  <2> QED
    BY <1>1, <2>1
<1>3. Numbers' = 1 .. n /\ Numbers \subseteq 1 .. n /\ n \in 1 .. n /\ Numbers \subseteq Nat /\ 1 .. n \subseteq Nat
      /\ \A x \in Numbers : x < n
  BY <1>2 DEF Numbers
<1>4. /\ DOMAIN Pre = Fields
      /\ Pre.waiting \in Seq(Numbers) /\ Pre.inProcess \in Seq(Numbers) /\ Pre.queued \in Seq(Numbers)
  BY DEF InOrder, Lists
<1>5. /\ DOMAIN p = Fields /\ p.waiting = Pre.waiting /\ p.inProcess = Pre.inProcess
      /\ p.queued = Append(Pre.queued, n)
  BY <1>4 DEF Fields
<1> HIDE DEF p
<1>6. Lists(Pre, 1 .. n) /\ Screen(screen, 1 .. n)
  <2>1. Lists(Pre, Numbers) /\ Screen(screen, Numbers)
    BY DEF InOrder
  <2> QED
    BY <1>3, <2>1, MoreNumbers
<1>7. Lists(p, 1 .. n)
  <2>1. Pre.queued \in Seq(1 .. n)
    BY <1>6 DEF Lists
  <2>2. Append(Pre.queued, n) \in Seq(1 .. n)
    BY <1>3, <2>1, AppendProperties
  <2> QED
    BY <1>5, <1>6, <2>2 DEF Lists
<1>8. Behind(p) = Behind(Pre) \o <<n>>
  <2>0. \A x, y, z \in Seq(1 .. n) : (x \o y) \o z = x \o (y \o z)
    BY SMTT(30), Regroup
  <2>1. /\ Pre.waiting \in Seq(1 .. n) /\ Pre.inProcess \in Seq(1 .. n) /\ Pre.queued \in Seq(1 .. n)
        /\ <<n>> \in Seq(1 .. n)
    BY <1>3, <1>6 DEF Lists
  <2>2. Pre.inProcess \o Pre.queued \in Seq(1 .. n)
    BY <1>3, <1>6, BehindIs
  <2>3. p.queued = Pre.queued \o <<n>>
    BY <1>3, <1>5, <2>1, AppendIsConcat
  <2>4. Pre.inProcess \o (Pre.queued \o <<n>>) = (Pre.inProcess \o Pre.queued) \o <<n>>
    BY ZenonT(60), <2>0, <2>1
  <2>5. Pre.waiting \o ((Pre.inProcess \o Pre.queued) \o <<n>>) = (Pre.waiting \o (Pre.inProcess \o Pre.queued)) \o <<n>>
    BY ZenonT(60), <2>0, <2>1, <2>2
  <2> QED
    BY <1>5, <2>3, <2>4, <2>5 DEF Behind
<1>9. LET q == ExecuteConsumer(p, sent') IN Lists(q, 1 .. n) /\ Behind(q) = Behind(p)
  BY <1>7, ExecuteInOrder
<1>10. Lists(Pre', 1 .. n) /\ Behind(Pre)' = Behind(Pre) \o <<n>>
  BY <1>1, <1>8, <1>9, BecomesInOrder
<1>11. Behind(Pre) \in Seq(Nat) /\ Range(Behind(Pre)) \subseteq Numbers
  <2>1. Lists(Pre, Numbers)
    BY DEF InOrder
  <2>2. Behind(Pre) \in Seq(Numbers) /\ Behind(Pre) \in Seq(Nat)
    BY <1>3, <2>1, BehindIs
  <2> QED
    BY <2>2, RangeOfSeq
<1>12. /\ Range(Behind(Pre)') = Range(Behind(Pre)) \cup {n}
       /\ Increasing(Behind(Pre)')
  <2>1. n \in Nat /\ \A x \in Range(Behind(Pre)) : x < n
    BY <1>3, <1>11
  <2>2. /\ Append(Behind(Pre), n) = Behind(Pre) \o <<n>>
        /\ Range(Append(Behind(Pre), n)) = Range(Behind(Pre)) \cup {n}
        /\ Increasing(Append(Behind(Pre), n)) <=> Increasing(Behind(Pre)) /\ \A x \in Range(Behind(Pre)) : x < n
    BY <1>11, <2>1, IncreasingAppend
  <2>3. Increasing(Behind(Pre))
    BY DEF InOrder
  <2> QED
    BY <1>10, <2>1, <2>2, <2>3
<1>13. \A x \in Range(Held(screen)) \cup screen.video : x \in Numbers
  <2>1. Screen(screen, Numbers) /\ Numbers \in SUBSET (Nat \ {0})
    BY DEF InOrder, Numbers
  <2>2. Held(screen) \in Seq(Numbers)
    BY <2>1, HeldIs
  <2> QED
    BY <2>1, <2>2, RangeOfSeq DEF Screen
<1>14. screen.shown < n
  <2>1. screen.shown \in Numbers \cup {0}
    BY DEF InOrder
  <2>2. n \in Nat /\ 0 < n
    BY <1>2
  <2> QED
    BY <1>3, <2>1, <2>2
<1> QED
  BY <1>1, <1>2, <1>3, <1>6, <1>10, <1>12, <1>13, <1>14 DEF InOrder
-----------------------------------------------------------------------------
\* A worker's answer moves what is behind the RunQueue, and keeps its order.
LEMMA WorkerDoneInOrder ==
    ASSUME InOrder, NEW n \in working, WorkerDone(n)
    PROVE  InOrder' /\ Behind(Pre)' = Behind(Pre)
<1> DEFINE p == [Pre EXCEPT !.working = @ \ {n}]
           free == [HandOn(p) EXCEPT !.idle = @ + 1]
           q == IF free.queued # <<>> THEN ExecuteConsumer(free, sent) ELSE free
<1>1. /\ sent' = sent /\ screen' = screen /\ failed' = failed
      /\ Becomes(q)
  BY DEF WorkerDone, ConsumerDone
<1>2. Lists(Pre, Numbers) /\ DOMAIN Pre = Fields
  BY DEF InOrder, Lists
<1>3. /\ DOMAIN p = Fields
      /\ p.waiting = Pre.waiting /\ p.inProcess = Pre.inProcess /\ p.queued = Pre.queued
  BY <1>2 DEF Fields
<1> HIDE DEF p
<1>4. Lists(p, Numbers) /\ Behind(p) = Behind(Pre)
  BY <1>2, <1>3 DEF Lists, Behind
<1>5. Lists(HandOn(p), Numbers) /\ Behind(HandOn(p)) = Behind(Pre)
  BY <1>4, HandOnInOrder
<1>6. DOMAIN HandOn(p) = Fields
  BY <1>5 DEF Lists
<1>7. /\ DOMAIN free = Fields /\ free.waiting = HandOn(p).waiting
      /\ free.inProcess = HandOn(p).inProcess /\ free.queued = HandOn(p).queued
  BY <1>6 DEF Fields
<1> HIDE DEF free
<1>8. Lists(free, Numbers) /\ Behind(free) = Behind(Pre)
  BY <1>5, <1>7 DEF Lists, Behind
<1>9. LET e == ExecuteConsumer(free, sent) IN Lists(e, Numbers) /\ Behind(e) = Behind(Pre)
  BY <1>8, ExecuteInOrder
<1>10. Lists(q, Numbers) /\ Behind(q) = Behind(Pre)
  BY <1>8, <1>9
<1> HIDE DEF q
<1>11. Lists(Pre', Numbers) /\ Behind(Pre)' = Behind(Pre)
  BY <1>1, <1>10, BecomesInOrder
<1>12. Numbers' = Numbers
  BY <1>1 DEF Numbers
<1> QED
  BY <1>1, <1>11, <1>12 DEF InOrder

\* When nothing is received nor handed on, what is behind stays.
LEMMA PreStays ==
    ASSUME InOrder, UNCHANGED <<sent, preVars, waiting>>
    PROVE  Lists(Pre', Numbers) /\ Behind(Pre)' = Behind(Pre) /\ Numbers' = Numbers
<1>1. Pre' = Pre /\ Numbers' = Numbers
  BY DEF Pre, preVars, Numbers
<1> QED
  BY <1>1 DEF InOrder, Behind, Lists

\* The numbers of messages start at one.
LEMMA NumbersAreCounts ==
    ASSUME Inv
    PROVE  Numbers \in SUBSET (Nat \ {0}) /\ Numbers \subseteq Nat
<1>1. sent \in Seq(Messages)
  BY DEF Inv
<1> QED
  BY <1>1 DEF Numbers

\* Every 50 ms what waits comes behind what is held.
LEMMA FlushInOrder ==
    ASSUME Inv, InOrder, Flush
    PROVE  /\ InOrder' /\ screen' = Run(screen, WithoutRedundantDraws(waiting))
           /\ Behind(Pre) = waiting \o Behind(Pre)'
           /\ Behind(Pre)' \in Seq(Numbers) /\ waiting \in Seq(Numbers)
           /\ screen'.shown = screen.shown
<1> DEFINE tasks == WithoutRedundantDraws(waiting)
           rest == inProcess \o queued
<1>1. /\ waiting' = <<>> /\ screen' = Run(screen, tasks) /\ sent' = sent /\ failed' = failed
      /\ UNCHANGED preVars
  BY DEF Flush
<1>2. Numbers \in SUBSET (Nat \ {0}) /\ Numbers \subseteq Nat /\ Numbers' = Numbers
  BY <1>1, NumbersAreCounts DEF Numbers
<1>3. /\ Lists(Pre, Numbers) /\ Pre.waiting = waiting /\ Pre.inProcess = inProcess /\ Pre.queued = queued
      /\ waiting \in Seq(Numbers) /\ inProcess \in Seq(Numbers) /\ queued \in Seq(Numbers)
      /\ Behind(Pre) = waiting \o rest
  BY DEF InOrder, Lists, Pre, Behind
<1>4. rest \in Seq(Numbers) /\ Range(Behind(Pre)) = Range(waiting) \cup Range(rest)
  BY <1>2, <1>3, BehindIs
<1>5. Pre'.waiting = <<>> /\ Pre'.inProcess = inProcess /\ Pre'.queued = queued /\ DOMAIN Pre' = Fields
  BY <1>1 DEF Pre, preVars, Fields
<1>6. Behind(Pre)' = rest
  <2>1. Behind(Pre)' = <<>> \o rest
    BY <1>5 DEF Behind
  <2> QED
    BY <1>4, <2>1, ConcatEmptySeq
<1>7. Lists(Pre', Numbers)
  <2>1. <<>> \in Seq(Numbers)
    BY EmptySeq
  <2> QED
    BY <1>3, <1>5, <2>1 DEF Lists
<1>8. waiting \in Seq(Nat) /\ rest \in Seq(Nat)
  BY <1>2, <1>3, <1>4, SeqMonotonic
<1>9. /\ Increasing(waiting) /\ Increasing(rest)
      /\ \A x \in Range(waiting), y \in Range(rest) : x < y
  <2>1. Increasing(waiting \o rest)
    BY <1>3 DEF InOrder
  <2> HIDE DEF rest
  <2> QED
    BY <1>8, <2>1, IncreasingConcat
<1> HIDE DEF rest
<1>10. /\ tasks \in Seq(Numbers) /\ Range(tasks) \subseteq Range(waiting)
       /\ Increasing(tasks)
  <2>1. tasks = Scanned(waiting).kept
    BY DEF WithoutRedundantDraws, Scanned, Untouched
  <2>2. LET acc == Scanned(waiting) IN
           /\ Finding(acc, Numbers) /\ Range(acc.kept) \subseteq Range(waiting)
           /\ Increasing(waiting) => Increasing(acc.kept)
    BY <1>2, <1>3, ScanInOrder
  <2> QED
    BY <1>9, <2>1, <2>2 DEF Finding
<1> HIDE DEF tasks
<1>11. /\ Screen(screen, Numbers) /\ InLine(screen)
       /\ \A x \in Range(Held(screen)) \cup screen.video, y \in Range(Behind(Pre)) : x < y
       /\ \A x \in Range(Held(screen)) \cup screen.video \cup Range(Behind(Pre)) : screen.shown < x
       /\ screen.shown \in Numbers \cup {0} /\ failed \subseteq Numbers
  BY DEF InOrder
<1>12. /\ Screen(screen', Numbers) /\ screen'.shown = screen.shown
       /\ screen'.video \subseteq screen.video \cup Range(tasks)
       /\ Range(Held(screen')) \subseteq Range(Held(screen)) \cup Range(tasks)
       /\ InLine(screen')
  <2>1. \A x \in Range(Held(screen)) \cup screen.video, y \in Range(tasks) : x < y
    BY <1>4, <1>10, <1>11
  <2>2. LET t == Run(screen, tasks) IN
           /\ Screen(t, Numbers) /\ t.shown = screen.shown
           /\ t.video \subseteq screen.video \cup Range(tasks)
           /\ Range(Held(t)) \subseteq Range(Held(screen)) \cup Range(tasks)
           /\ /\ InLine(screen) /\ Increasing(tasks)
              /\ \A x \in Range(Held(screen)) \cup screen.video, y \in Range(tasks) : x < y
              => InLine(t)
    BY <1>2, <1>10, <1>11, RunInOrder
  <2> QED
    BY <1>1, <1>10, <1>11, <2>1, <2>2
<1>13. /\ \A x \in Range(Held(screen')) \cup screen'.video, y \in Range(rest) : x < y
       /\ \A x \in Range(Held(screen')) \cup screen'.video \cup Range(rest) : screen'.shown < x
  BY <1>4, <1>9, <1>10, <1>11, <1>12
<1>14. Held(screen)' = Held(screen')
  BY DEF Held
<1>15. InOrder'
  BY <1>1, <1>2, <1>6, <1>7, <1>9, <1>11, <1>12, <1>13, <1>14 DEF InOrder, InLine, Screen, Held
<1> QED
  BY <1>1, <1>3, <1>4, <1>6, <1>12, <1>15 DEF tasks
-----------------------------------------------------------------------------
\* A task that ends lets those behind it run.
LEMMA EndInOrder ==
    ASSUME NEW S \in SUBSET (Nat \ {0}), NEW s, Screen(s, S), s.current # 0, InLine(s)
    PROVE  LET t == End(s) IN
           /\ Screen(t, S) /\ t.shown = s.shown /\ InLine(t)
           /\ t.video \cup Range(Held(t)) \subseteq s.video \cup Range(Held(s))
<1> DEFINE ns == s.tasks
           r == [s EXCEPT !.current = 0, !.tasks = <<>>]
<1>1. /\ DOMAIN s = Parts /\ ns \in Seq(S) /\ s.current \in S /\ s.video \subseteq S
      /\ \A v, w \in s.video : v = w
      /\ s.outrun \in BOOLEAN
  BY DEF Screen
<1>2. End(s) = Run(r, ns)
  BY DEF End
<1>3. /\ DOMAIN r = Parts /\ r.tasks = <<>> /\ r.current = 0 /\ r.video = s.video /\ r.shown = s.shown
      /\ r.outrun = s.outrun
  BY <1>1 DEF Parts
<1> HIDE DEF r
<1>4. Screen(r, S)
  <2>1. <<>> \in Seq(S)
    BY EmptySeq
  <2> QED
    BY <1>1, <1>3, <2>1 DEF Screen
<1>5. Held(r) = <<>> /\ Range(<<>>) = {} /\ Increasing(<<>>)
  <2>1. 1 \in Nat
    OBVIOUS
  <2> QED
    BY <1>3, <1>4, <2>1, HeldIs, Single
<1>6. InLine(r)
  BY <1>5 DEF InLine
<1>7. /\ Held(s) = <<s.current>> \o ns /\ ns \in Seq(Nat) /\ s.current \in Nat
  <2>1. S \subseteq Nat
    OBVIOUS
  <2> QED
    BY <1>1, <2>1, HeldIs, SeqMonotonic
<1>8. /\ Range(Held(s)) = {s.current} \cup Range(ns)
      /\ Increasing(ns)
  <2>1. Increasing(Held(s))
    BY DEF InLine
  <2> HIDE DEF ns
  <2>2. /\ Range(<<s.current>> \o ns) = {s.current} \cup Range(ns)
        /\ Increasing(<<s.current>> \o ns) <=> Increasing(ns) /\ \A x \in Range(ns) : s.current < x
    BY <1>7, IncreasingCons
  <2> QED
    BY <1>7, <2>1, <2>2
<1>9. \A x \in s.video, y \in Range(ns) : x < y
  BY <1>8 DEF InLine
<1> HIDE DEF ns
<1>10. LET t == Run(r, ns) IN
           /\ Screen(t, S) /\ t.shown = r.shown
           /\ t.video \subseteq r.video \cup Range(ns)
           /\ Range(Held(t)) \subseteq Range(Held(r)) \cup Range(ns)
           /\ /\ InLine(r) /\ Increasing(ns)
              /\ \A x \in Range(Held(r)) \cup r.video, y \in Range(ns) : x < y
              => InLine(t)
  BY <1>1, <1>4, RunInOrder
<1> QED
  BY <1>2, <1>3, <1>5, <1>6, <1>8, <1>9, <1>10

\* An image that loads or does not lets those behind it run.
LEMMA EndStepInOrder ==
    ASSUME Inv, InOrder, NEW s, DOMAIN s = Parts, s.tasks = screen.tasks, s.current = screen.current,
           s.video = screen.video, s.shown = screen.shown, s.outrun = screen.outrun,
           screen.current # 0, screen' = End(s), UNCHANGED <<sent, preVars, waiting>>,
           failed' \subseteq failed \cup {screen.current}
    PROVE  InOrder' /\ screen'.shown = screen.shown
<1>1. Numbers \in SUBSET (Nat \ {0})
  BY NumbersAreCounts
<1>2. Lists(Pre', Numbers) /\ Behind(Pre)' = Behind(Pre) /\ Numbers' = Numbers
  BY PreStays
<1>3. /\ Screen(screen, Numbers) /\ InLine(screen) /\ Increasing(Behind(Pre))
      /\ \A x \in Range(Held(screen)) \cup screen.video, y \in Range(Behind(Pre)) : x < y
      /\ \A x \in Range(Held(screen)) \cup screen.video \cup Range(Behind(Pre)) : screen.shown < x
      /\ screen.shown \in Numbers \cup {0} /\ failed \subseteq Numbers
  BY DEF InOrder
<1>4. Held(s) = Held(screen)
  BY DEF Held
<1>5. Screen(s, Numbers) /\ InLine(s)
  BY <1>3, <1>4 DEF Screen, InLine
<1>6. /\ Screen(screen', Numbers) /\ screen'.shown = screen.shown /\ InLine(screen')
      /\ screen'.video \cup Range(Held(screen')) \subseteq screen.video \cup Range(Held(screen))
  <2>1. LET t == End(s) IN
           /\ Screen(t, Numbers) /\ t.shown = s.shown /\ InLine(t)
           /\ t.video \cup Range(Held(t)) \subseteq s.video \cup Range(Held(s))
    BY <1>1, <1>5, EndInOrder
  <2> QED
    BY <1>4, <2>1
<1>7. failed' \subseteq Numbers
  BY <1>3 DEF Screen
<1>8. /\ \A x \in Range(Held(screen')) \cup screen'.video, y \in Range(Behind(Pre)) : x < y
      /\ \A x \in Range(Held(screen')) \cup screen'.video \cup Range(Behind(Pre)) : screen'.shown < x
  BY <1>3, <1>6
<1>9. InOrder'
  BY <1>2, <1>3, <1>6, <1>7, <1>8 DEF InOrder, InLine, Screen, Held
<1> QED
  BY <1>6, <1>9

\* An image that loads.
LEMMA ImageLoadsInOrder ==
    ASSUME Inv, InOrder, ImageLoads
    PROVE  InOrder' /\ screen'.shown = screen.shown
<1> DEFINE s == [screen EXCEPT !.paint = Paint(@, sent[screen.current], screen.current)]
<1>1. /\ screen.current # 0 /\ screen' = End(s) /\ failed' = failed
      /\ UNCHANGED <<sent, preVars, waiting>>
  BY DEF ImageLoads, Decoding
<1>2. DOMAIN screen = Parts
  BY DEF InOrder, Screen
<1>3. /\ DOMAIN s = Parts /\ s.tasks = screen.tasks /\ s.current = screen.current
      /\ s.video = screen.video /\ s.shown = screen.shown /\ s.outrun = screen.outrun
  BY <1>2 DEF Parts
<1> HIDE DEF s
<1> QED
  BY <1>1, <1>3, EndStepInOrder

\* An image that does not.
LEMMA ImageFailsInOrder ==
    ASSUME Inv, InOrder, ImageFails
    PROVE  InOrder' /\ screen'.shown = screen.shown
<1>1. /\ screen.current # 0 /\ screen' = End(screen) /\ failed' = failed \cup {screen.current}
      /\ UNCHANGED <<sent, preVars, waiting>>
  BY DEF ImageFails, Decoding
<1>2. DOMAIN screen = Parts
  BY DEF InOrder, Screen
<1> QED
  BY <1>1, <1>2, EndStepInOrder

\* A frame that is decoded is the only one, and is before all the rest.
LEMMA FrameInOrder ==
    ASSUME Inv, InOrder, NEW n \in screen.video, FrameLoads(n) \/ FrameFails(n)
    PROVE  InOrder' /\ screen'.shown >= screen.shown
<1> DEFINE painted == Paint(screen.paint, sent[n], n)
<1>1. /\ UNCHANGED <<sent, preVars, waiting>> /\ failed' \subseteq failed \cup {n}
      /\ \/ screen' = [screen EXCEPT !.video = @ \ {n}, !.shown = n, !.paint = painted]
         \/ screen' = [screen EXCEPT !.video = @ \ {n}]
  BY DEF FrameLoads, FrameFails
<1> HIDE DEF painted
<1>2. Lists(Pre', Numbers) /\ Behind(Pre)' = Behind(Pre) /\ Numbers' = Numbers
  BY <1>1, PreStays
<1>3. /\ Screen(screen, Numbers) /\ InLine(screen) /\ Increasing(Behind(Pre))
      /\ \A x \in Range(Held(screen)) \cup screen.video, y \in Range(Behind(Pre)) : x < y
      /\ \A x \in Range(Held(screen)) \cup screen.video \cup Range(Behind(Pre)) : screen.shown < x
      /\ screen.shown \in Numbers \cup {0} /\ failed \subseteq Numbers
      /\ DOMAIN screen = Parts /\ \A v, w \in screen.video : v = w
      /\ n \in Numbers
  BY DEF InOrder, Screen
<1>4. /\ DOMAIN screen' = Parts /\ screen'.tasks = screen.tasks /\ screen'.current = screen.current
      /\ screen'.video = {} /\ screen'.shown \in {n, screen.shown} /\ screen'.outrun = screen.outrun
  BY <1>1, <1>3 DEF Parts
<1>5. Held(screen') = Held(screen)
  BY <1>4 DEF Held
<1>6. Screen(screen', Numbers) /\ InLine(screen')
  BY <1>3, <1>4, <1>5 DEF Screen, InLine
<1>7. /\ \A x \in Range(Held(screen')) \cup screen'.video, y \in Range(Behind(Pre)) : x < y
      /\ \A x \in Range(Held(screen')) \cup screen'.video \cup Range(Behind(Pre)) : screen'.shown < x
  BY <1>3, <1>4, <1>5 DEF InLine
<1>8. InOrder'
  BY <1>1, <1>2, <1>3, <1>4, <1>6, <1>7 DEF InOrder, InLine, Screen, Held
<1>9. screen'.shown >= screen.shown
  <2>1. screen.shown < n /\ screen.shown \in Nat /\ n \in Nat
    BY <1>3, NumbersAreCounts
  <2> QED
    BY <1>4, <2>1
<1> QED
  BY <1>8, <1>9

\* Every step keeps the order, and shows no frame older than the last.
LEMMA NextInOrder ==
    ASSUME Inv, InOrder, [Next]_vars
    PROVE  InOrder' /\ screen'.shown >= screen.shown
<1>0. screen.shown \in Nat
  BY NumbersAreCounts DEF InOrder
<1>00. \A k \in Nat : k >= k
  OBVIOUS
<1>1. ASSUME NEW m \in palette, Receive(m) PROVE InOrder' /\ screen'.shown >= screen.shown
  <2>1. screen' = screen
    BY <1>1 DEF Receive
  <2> QED
    BY <1>0, <1>00, <1>1, <2>1, ReceiveInOrder
<1>2. ASSUME NEW n \in working, WorkerDone(n) PROVE InOrder' /\ screen'.shown >= screen.shown
  <2>1. screen' = screen
    BY <1>2 DEF WorkerDone
  <2> QED
    BY <1>0, <1>00, <1>2, <2>1, WorkerDoneInOrder
<1>3. ASSUME Flush PROVE InOrder' /\ screen'.shown >= screen.shown
  BY <1>0, <1>00, <1>3, FlushInOrder
<1>4. ASSUME ImageLoads PROVE InOrder' /\ screen'.shown >= screen.shown
  BY <1>0, <1>00, <1>4, ImageLoadsInOrder
<1>5. ASSUME ImageFails PROVE InOrder' /\ screen'.shown >= screen.shown
  BY <1>0, <1>00, <1>5, ImageFailsInOrder
<1>6. ASSUME NEW n \in screen.video, FrameLoads(n) \/ FrameFails(n)
      PROVE  InOrder' /\ screen'.shown >= screen.shown
  BY <1>6, FrameInOrder
<1>7. ASSUME UNCHANGED vars PROVE InOrder' /\ screen'.shown >= screen.shown
  <2>1. Pre' = Pre /\ Numbers' = Numbers /\ screen' = screen /\ failed' = failed
    BY <1>7 DEF vars, Pre, Numbers
  <2>2. InOrder'
    BY <2>1 DEF InOrder, Lists, Screen, InLine, Held, Behind
  <2> QED
    BY <1>0, <1>00, <2>1, <2>2
<1> QED
  BY <1>1, <1>2, <1>3, <1>4, <1>5, <1>6, <1>7 DEF Next

\* The lists in a row are the pipeline.
LEMMA PipelineIs ==
    ASSUME Inv, InOrder
    PROVE  Pipeline = Held(screen) \o Behind(Pre)
<1>1. Numbers \in SUBSET (Nat \ {0})
  BY NumbersAreCounts
<1>2. /\ waiting \in Seq(Numbers) /\ inProcess \in Seq(Numbers) /\ queued \in Seq(Numbers)
      /\ Behind(Pre) = waiting \o (inProcess \o queued)
  BY DEF InOrder, Lists, Pre, Behind
<1>3. Held(screen) \in Seq(Numbers)
  BY <1>1, HeldIs DEF InOrder
<1>0. \A x, y, z \in Seq(Numbers) : (x \o y) \o z = x \o (y \o z)
  BY Regroup
<1>4. Pipeline = ((Held(screen) \o waiting) \o inProcess) \o queued
  BY DEF Pipeline, Held
<1>5. Held(screen) \o waiting \in Seq(Numbers) /\ inProcess \o queued \in Seq(Numbers)
  BY <1>2, <1>3, ConcatProperties
<1>6. ((Held(screen) \o waiting) \o inProcess) \o queued = (Held(screen) \o waiting) \o (inProcess \o queued)
  BY SMTT(30), <1>0, <1>2, <1>5
<1>7. (Held(screen) \o waiting) \o (inProcess \o queued) = Held(screen) \o (waiting \o (inProcess \o queued))
  BY <1>0, <1>2, <1>3, <1>5
<1> QED
  BY <1>2, <1>4, <1>6, <1>7

\* What the order says of the lists that a run checks.
LEMMA InOrderSafe ==
    ASSUME Inv, InOrder
    PROVE  TypeOK /\ NothingOvertakes
<1>1. Numbers \in SUBSET (Nat \ {0}) /\ Numbers \subseteq Nat /\ Numbers = 1 .. Len(sent)
  BY NumbersAreCounts DEF Numbers
<1>2. /\ Pre.working = working /\ Pre.idle = idle /\ Pre.queued = queued
      /\ Pre.waiting = waiting /\ Pre.inProcess = inProcess
  BY DEF Pre
<1>3. idle \in 0 .. Consumers
  <2>1. idle \in Nat /\ idle + Cardinality(working) = Consumers /\ IsFiniteSet(working)
    BY <1>2 DEF Inv, Consistent, Counted
  <2>2. Cardinality(working) \in Nat
    BY <2>1, FS_CardinalityType
  <2> QED
    BY <2>1, <2>2, DisplayAssumption
<1>4. TypeOK
  BY <1>1, <1>2, <1>3 DEF TypeOK, Inv, Consistent, Counted, InOrder, Lists, Screen
<1>5. NothingOvertakes
  <2>1. Held(screen) \in Seq(Nat) /\ Behind(Pre) \in Seq(Nat)
    BY <1>1, HeldIs, BehindIs DEF InOrder
  <2>2. /\ Increasing(Held(screen)) /\ Increasing(Behind(Pre))
        /\ \A x \in Range(Held(screen)), y \in Range(Behind(Pre)) : x < y
    BY DEF InOrder, InLine
  <2>3. Increasing(Held(screen) \o Behind(Pre))
    BY <2>1, <2>2, IncreasingConcat
  <2> QED
    BY <2>3, PipelineIs DEF NothingOvertakes
<1> QED
  BY <1>4, <1>5

\* The lists of displaypreprocess.js, displayprocess.js and runqueue.js hold
\* messages received, and no more consumers are idle than there are: for any
\* number of consumers and any messages.
THEOREM DisplayIsTyped == Spec => []TypeOK
BY InitConsistent, NextConsistent, InitInOrder, NextInOrder, InOrderSafe, PTL DEF Spec

\* From the RunQueue back to the queue of DisplayPreProcess messages stand in the
\* order they came, whatever the order in which the workers finish, whatever
\* removeRedundantDraws drops and however long an image is decoded.
THEOREM NothingIsOvertaken == Spec => []NothingOvertakes
BY InitConsistent, NextConsistent, InitInOrder, NextInOrder, InOrderSafe, PTL DEF Spec

\* No frame of a stream is shown after a later one: FrameStarts takes the Image
\* that the frame before it was loading in, and every image that is decoded ends
\* it too.
THEOREM FramesGoForward == Spec => StreamGoesForward
<1>1. Inv /\ InOrder /\ [Next]_vars => [screen'.shown >= screen.shown]_vars
  BY NextInOrder
<1> QED
  BY <1>1, InitConsistent, NextConsistent, InitInOrder, NextInOrder, PTL DEF Spec, StreamGoesForward
-----------------------------------------------------------------------------
(* Painting one message after the other.                                   *)

\* From p, message n paints q, and nothing that it needs is missing.
Paints(msgs, p, n, q) == Paintable(p, msgs[n]) /\ q = Paint(p, msgs[n], n)

\* From p, the messages ns paint q one after the other.
Leads(msgs, p, ns, q) ==
    \E g : /\ g[0] = p /\ g[Len(ns)] = q
           /\ \A i \in 1 .. Len(ns) : Paints(msgs, g[i - 1], ns[i], g[i])

\* No message, the same picture.
LEMMA LeadsEmpty == \A msgs, p, q : Leads(msgs, p, <<>>, q) <=> p = q
<1> SUFFICES ASSUME NEW msgs, NEW p, NEW q PROVE Leads(msgs, p, <<>>, q) <=> p = q
  OBVIOUS
<1>1. Len(<<>>) = 0 /\ 1 .. 0 = {}
  OBVIOUS
<1>2. ASSUME Leads(msgs, p, <<>>, q) PROVE p = q
  BY <1>1, <1>2 DEF Leads
<1>3. ASSUME p = q PROVE Leads(msgs, p, <<>>, q)
  <2> DEFINE g == [i \in {0} |-> p]
  <2>1. g[0] = p
    OBVIOUS
  <2> HIDE DEF g
  <2> QED
    BY <1>1, <1>3, <2>1 DEF Leads
<1> QED
  BY <1>2, <1>3

\* The last message paints on what those before it painted.
LEMMA LeadsAppend ==
    ASSUME NEW msgs, NEW p, NEW q, NEW ns \in Seq(Nat), NEW n \in Nat
    PROVE  Leads(msgs, p, Append(ns, n), q) <=> \E r : Leads(msgs, p, ns, r) /\ Paints(msgs, r, n, q)
<1> DEFINE more == Append(ns, n)
<1>1. /\ Len(more) = Len(ns) + 1 /\ Len(ns) \in Nat
      /\ more[Len(ns) + 1] = n /\ \A k \in 1 .. Len(ns) : more[k] = ns[k]
  OBVIOUS
<1> HIDE DEF more
<1>2. ASSUME Leads(msgs, p, more, q) PROVE \E r : Leads(msgs, p, ns, r) /\ Paints(msgs, r, n, q)
  <2>1. PICK g : /\ g[0] = p /\ g[Len(ns) + 1] = q
                 /\ \A i \in 1 .. Len(ns) + 1 : Paints(msgs, g[i - 1], more[i], g[i])
    BY <1>1, <1>2 DEF Leads
  <2>2. Len(ns) + 1 \in 1 .. Len(ns) + 1 /\ (Len(ns) + 1) - 1 = Len(ns)
    BY <1>1
  <2>3. Paints(msgs, g[Len(ns)], n, q)
    BY <1>1, <2>1, <2>2
  <2>4. ASSUME NEW i \in 1 .. Len(ns) PROVE Paints(msgs, g[i - 1], ns[i], g[i])
    <3>1. i \in 1 .. Len(ns) + 1
      BY <1>1
    <3> QED
      BY <1>1, <2>1, <3>1
  <2>5. Leads(msgs, p, ns, g[Len(ns)])
    BY <2>1, <2>4 DEF Leads
  <2> QED
    BY <2>3, <2>5
<1>3. ASSUME NEW r, Leads(msgs, p, ns, r), Paints(msgs, r, n, q) PROVE Leads(msgs, p, more, q)
  <2>1. PICK g : /\ g[0] = p /\ g[Len(ns)] = r
                 /\ \A i \in 1 .. Len(ns) : Paints(msgs, g[i - 1], ns[i], g[i])
    BY <1>3 DEF Leads
  <2> DEFINE h == [i \in 0 .. Len(ns) + 1 |-> IF i = Len(ns) + 1 THEN q ELSE g[i]]
  <2>2. /\ h[0] = p /\ h[Len(ns) + 1] = q
        /\ \A i \in 0 .. Len(ns) : h[i] = g[i]
    <3>1. 0 \in 0 .. Len(ns) + 1 /\ 0 # Len(ns) + 1 /\ Len(ns) + 1 \in 0 .. Len(ns) + 1
      BY <1>1
    <3>2. \A i \in 0 .. Len(ns) : i \in 0 .. Len(ns) + 1 /\ i # Len(ns) + 1
      BY <1>1
    <3> QED
      BY <2>1, <3>1, <3>2
  <2> HIDE DEF h
  <2>3. ASSUME NEW i \in 1 .. Len(ns) + 1 PROVE Paints(msgs, h[i - 1], more[i], h[i])
    <3>1. CASE i = Len(ns) + 1
      <4>1. i - 1 = Len(ns) /\ Len(ns) \in 0 .. Len(ns)
        BY <1>1, <3>1
      <4>2. h[i - 1] = r /\ more[i] = n /\ h[i] = q
        BY <1>1, <2>1, <2>2, <3>1, <4>1
      <4> QED
        BY <1>3, <4>2
    <3>2. CASE i # Len(ns) + 1
      <4>1. i \in 1 .. Len(ns) /\ i \in 0 .. Len(ns) /\ i - 1 \in 0 .. Len(ns)
        BY <1>1, <3>2
      <4>2. h[i - 1] = g[i - 1] /\ more[i] = ns[i] /\ h[i] = g[i]
        BY <1>1, <2>2, <4>1
      <4> QED
        BY <2>1, <4>1, <4>2
    <3> QED
      BY <3>1, <3>2
  <2> QED
    BY <1>1, <2>2, <2>3 DEF Leads
<1> QED
  BY <1>2, <1>3 DEF more

\* A list of one message.
LEMMA LeadsSingle ==
    ASSUME NEW msgs, NEW p, NEW q, NEW n \in Nat
    PROVE  Leads(msgs, p, <<n>>, q) <=> Paints(msgs, p, n, q)
<1>1. Append(<<>>, n) = <<n>> /\ <<>> \in Seq(Nat)
  OBVIOUS
<1>2. Leads(msgs, p, Append(<<>>, n), q) <=> \E r : Leads(msgs, p, <<>>, r) /\ Paints(msgs, r, n, q)
  BY <1>1, LeadsAppend
<1>3. \A r : Leads(msgs, p, <<>>, r) <=> p = r
  BY LeadsEmpty
<1> QED
  BY Zenon, <1>1, <1>2, <1>3

\* First the one list, then the other.
LEMMA LeadsConcat ==
    ASSUME NEW msgs, NEW p, NEW a \in Seq(Nat), NEW b \in Seq(Nat)
    PROVE  \A q : Leads(msgs, p, a \o b, q) <=> \E r : Leads(msgs, p, a, r) /\ Leads(msgs, r, b, q)
<1> DEFINE Splits(c) == \A q : Leads(msgs, p, a \o c, q) <=> \E r : Leads(msgs, p, a, r) /\ Leads(msgs, r, c, q)
           T == {c \in Seq(Nat) : Splits(c)}
<1>1. <<>> \in T
  <2>1. a \o <<>> = a /\ <<>> \in Seq(Nat)
    BY ConcatEmptySeq
  <2>2. \A r, q : Leads(msgs, r, <<>>, q) <=> r = q
    BY LeadsEmpty
  <2>3. Splits(<<>>)
    BY Zenon, <2>1, <2>2
  <2> HIDE DEF Splits
  <2> QED
    BY <2>1, <2>3
<1>2. ASSUME NEW c \in Seq(Nat), NEW n \in Nat, c \in T PROVE Append(c, n) \in T
  <2>1. Splits(c)
    BY <1>2
  <2>2. a \o c \in Seq(Nat) /\ Append(c, n) \in Seq(Nat)
    BY ConcatProperties, AppendProperties
  <2>3. a \o Append(c, n) = Append(a \o c, n)
    <3>1. <<n>> \in Seq(Nat) /\ Append(c, n) = c \o <<n>>
      BY AppendIsConcat
    <3>2. \A x, y, z \in Seq(Nat) : (x \o y) \o z = x \o (y \o z)
      BY Zenon, RegroupNat
    <3>3. Append(a \o c, n) = (a \o c) \o <<n>>
      BY <2>2, AppendIsConcat
    <3> QED
      BY SMTT(30), <3>1, <3>2, <3>3
  <2>4. ASSUME NEW q
        PROVE  Leads(msgs, p, a \o Append(c, n), q) <=> \E r : Leads(msgs, p, a, r) /\ Leads(msgs, r, Append(c, n), q)
    <3>1. Leads(msgs, p, a \o Append(c, n), q) <=> \E s : Leads(msgs, p, a \o c, s) /\ Paints(msgs, s, n, q)
      BY <2>2, <2>3, LeadsAppend
    <3>2. \A r : Leads(msgs, r, Append(c, n), q) <=> \E s : Leads(msgs, r, c, s) /\ Paints(msgs, s, n, q)
      BY LeadsAppend
    <3>3. \A s : Leads(msgs, p, a \o c, s) <=> \E r : Leads(msgs, p, a, r) /\ Leads(msgs, r, c, s)
      BY <2>1
    <3> QED
      BY Zenon, <3>1, <3>2, <3>3
  <2>5. Splits(Append(c, n))
    BY <2>4
  <2> HIDE DEF Splits
  <2> QED
    BY <2>2, <2>5
<1> HIDE DEF T
<1>3. b \in T
  BY <1>1, <1>2, AppendInduction
<1>4. Splits(b)
  BY <1>3 DEF T
<1> QED
  BY <1>4

\* The first message paints before the rest.
LEMMA LeadsCons ==
    ASSUME NEW msgs, NEW p, NEW n \in Nat, NEW ns \in Seq(Nat)
    PROVE  \A q : Leads(msgs, p, <<n>> \o ns, q) <=> \E r : Paints(msgs, p, n, r) /\ Leads(msgs, r, ns, q)
<1>1. <<n>> \in Seq(Nat)
  OBVIOUS
<1>2. \A q : Leads(msgs, p, <<n>> \o ns, q) <=> \E r : Leads(msgs, p, <<n>>, r) /\ Leads(msgs, r, ns, q)
  BY <1>1, LeadsConcat
<1>3. \A r : Leads(msgs, p, <<n>>, r) <=> Paints(msgs, p, n, r)
  BY LeadsSingle
<1> QED
  BY Zenon, <1>2, <1>3

\* What is received later changes nothing.
LEMMA LeadsMore ==
    ASSUME NEW msgs, NEW more, NEW p, NEW q, NEW S, NEW ns \in Seq(S),
           \A n \in S : more[n] = msgs[n], Leads(msgs, p, ns, q)
    PROVE  Leads(more, p, ns, q)
<1>1. PICK g : /\ g[0] = p /\ g[Len(ns)] = q
               /\ \A i \in 1 .. Len(ns) : Paints(msgs, g[i - 1], ns[i], g[i])
  BY DEF Leads
<1>2. ASSUME NEW i \in 1 .. Len(ns) PROVE Paints(more, g[i - 1], ns[i], g[i])
  <2>1. ns[i] \in S
    BY ElementOfSeq
  <2> QED
    BY <1>1, <2>1 DEF Paints
<1> QED
  BY <1>1, <1>2 DEF Leads
-----------------------------------------------------------------------------
(* Draws that nobody would see.                                            *)

\* Canvases of areas, an offscreen surface and a cache.
IsPaint(p) ==
    p = [canvas |-> [s \in {0, 1} |-> [a \in Areas |-> p.canvas[s][a]]],
         offscreen |-> p.offscreen, cache |-> p.cache]

\* The same, but for some areas of the screen.
Alike(p, p2, D) ==
    /\ IsPaint(p) /\ IsPaint(p2)
    /\ p2.offscreen = p.offscreen /\ p2.cache = p.cache
    /\ \A a \in Areas : p2.canvas[1][a] = p.canvas[1][a]
    /\ \A a \in Areas \ D : p2.canvas[0][a] = p.canvas[0][a]

\* Alike everywhere is the same.
LEMMA AlikeIsSame ==
    ASSUME NEW p, NEW p2
    PROVE  /\ Alike(p, p2, {}) => p2 = p
           /\ IsPaint(p) => \A D : Alike(p, p, D)
<1>1. ASSUME Alike(p, p2, {}) PROVE p2 = p
  <2>1. [s \in {0, 1} |-> [a \in Areas |-> p.canvas[s][a]]] = [s \in {0, 1} |-> [a \in Areas |-> p2.canvas[s][a]]]
    BY <1>1 DEF Alike
  <2> QED
    BY Zenon, <1>1, <2>1 DEF Alike, IsPaint
<1> QED
  BY <1>1 DEF Alike

\* What a draw changes, and where.
Drawn(p, m, n, q) ==
    /\ IsPaint(q) /\ q.offscreen = p.offscreen
    /\ q.cache = IF m.keep THEN [p.cache EXCEPT ![m.id] = n] ELSE p.cache
    /\ \A s \in {0, 1}, a \in Areas :
         q.canvas[s][a] = IF s # m.surface \/ a \notin m.box THEN p.canvas[s][a]
                          ELSE IF Overwrites(m) THEN Picture(p, m, n, a)
                          ELSE p.canvas[s][a] \o Picture(p, m, n, a)

\* A draw changes its box of its surface, and keeps its image if told to.
LEMMA DrawOnIs ==
    ASSUME NEW p, IsPaint(p), NEW m, m.surface \in {0, 1}, NEW n
    PROVE  Drawn(p, m, n, DrawOn(p, m, n))
<1> DEFINE q == DrawOn(p, m, n)
           canvas == [p.canvas EXCEPT ![m.surface] =
                        [a \in Areas |-> IF a \notin m.box THEN @[a]
                                         ELSE IF Overwrites(m) THEN Picture(p, m, n, a)
                                         ELSE @[a] \o Picture(p, m, n, a)]]
           cache == IF m.keep THEN [p.cache EXCEPT ![m.id] = n] ELSE p.cache
<1>1. p.canvas = [s \in {0, 1} |-> [a \in Areas |-> p.canvas[s][a]]]
  BY DEF IsPaint
<1>2. /\ DOMAIN canvas = {0, 1}
      /\ \A s \in {0, 1}, a \in Areas :
            canvas[s][a] = IF s # m.surface \/ a \notin m.box THEN p.canvas[s][a]
                           ELSE IF Overwrites(m) THEN Picture(p, m, n, a)
                           ELSE p.canvas[s][a] \o Picture(p, m, n, a)
      /\ \A s \in {0, 1} : canvas[s] = [a \in Areas |-> canvas[s][a]]
  BY <1>1
<1>3. canvas = [s \in {0, 1} |-> [a \in Areas |-> canvas[s][a]]]
  BY <1>1, <1>2
<1>4. q = [p EXCEPT !.canvas = canvas, !.cache = cache]
  BY DEF DrawOn
<1> HIDE DEF canvas, cache, q
<1>5. q = [canvas |-> canvas, offscreen |-> p.offscreen, cache |-> cache]
  BY <1>4 DEF IsPaint
<1>6. IsPaint(q)
  BY <1>3, <1>5 DEF IsPaint
<1>7. Drawn(p, m, n, q)
  BY <1>2, <1>5, <1>6 DEF cache, Drawn
<1> QED
  BY <1>7 DEF q

\* A draw leaves canvases canvases.
LEMMA DrawOnKeepsShape ==
    ASSUME NEW p, IsPaint(p), NEW m, m.surface \in {0, 1}, NEW n
    PROVE  IsPaint(DrawOn(p, m, n))
<1>1. Drawn(p, m, n, DrawOn(p, m, n))
  BY DrawOnIs
<1> QED
  BY <1>1 DEF Drawn

\* A draw on the screen changes the areas of its box.
LEMMA DrawnOnScreen ==
    ASSUME NEW p, NEW m, m.surface = 0, NEW n, NEW q, Drawn(p, m, n, q)
    PROVE  /\ IsPaint(q) /\ q.offscreen = p.offscreen
           /\ \A a \in Areas : q.canvas[1][a] = p.canvas[1][a]
           /\ \A a \in Areas \ m.box : q.canvas[0][a] = p.canvas[0][a]
BY DEF Drawn

\* A draw that keeps no image leaves the cache.
LEMMA DrawnUnkept ==
    ASSUME NEW p, NEW m, NEW n, NEW q, Drawn(p, m, n, q), ~ m.keep
    PROVE  q.cache = p.cache
BY Zenon DEF Drawn
-----------------------------------------------------------------------------
\* An image leaves the cache; the offscreen surface is made or dropped.
WithoutImage(p, i) == [p EXCEPT !.cache[i] = 0]
WithSurface(p, b) == [p EXCEPT !.offscreen = b, !.canvas[1] = Blank.canvas[1]]

\* Which of its cases a message is, when it can be painted.
LEMMA PaintIs ==
    ASSUME NEW p, NEW m, NEW n, m.op \in Ops, Paintable(p, m)
    PROVE  \/ Draws(m) /\ Paint(p, m, n) = DrawOn(p, m, n)
           \/ ~ Draws(m) /\ m.op = "inval" /\ Paint(p, m, n) = WithoutImage(p, m.id)
           \/ ~ Draws(m) /\ m.op = "create"
                /\ Paint(p, m, n) = WithSurface(p, TRUE)
           \/ ~ Draws(m) /\ m.op = "destroy"
                /\ Paint(p, m, n) = WithSurface(p, FALSE)
<1>1. Draws(m) <=> m.op \notin {"inval", "create", "destroy"}
  BY DEF Draws, Ops
<1>2. Paint(p, m, n) = CASE Draws(m) -> DrawOn(p, m, n)
           [] m.op = "inval" -> WithoutImage(p, m.id)
           [] m.op = "create" -> WithSurface(p, TRUE)
           [] m.op = "destroy" -> WithSurface(p, FALSE)
           [] OTHER -> p
  BY Zenon DEF Paint, WithoutImage, WithSurface
<1>3. CASE Draws(m)
  <2>1. m.op # "inval" /\ m.op # "create" /\ m.op # "destroy"
    BY <1>1, <1>3
  <2> QED
    BY Zenon, <1>2, <1>3, <2>1
<1>4. CASE m.op = "inval"
  <2>1. ~ Draws(m) /\ m.op # "create" /\ m.op # "destroy"
    BY <1>1, <1>4
  <2> QED
    BY Zenon, <1>2, <1>4, <2>1
<1>5. CASE m.op = "create"
  <2>1. ~ Draws(m) /\ m.op # "inval" /\ m.op # "destroy"
    BY <1>1, <1>5
  <2> QED
    BY Zenon, <1>2, <1>5, <2>1
<1>6. CASE m.op = "destroy"
  <2>1. ~ Draws(m) /\ m.op # "inval" /\ m.op # "create"
    BY <1>1, <1>6
  <2> QED
    BY Zenon, <1>2, <1>6, <2>1
<1>7. Draws(m) \/ m.op = "inval" \/ m.op = "create" \/ m.op = "destroy"
  BY <1>1
<1> QED
  BY Zenon, <1>3, <1>4, <1>5, <1>6, <1>7

\* An image that leaves the cache.
LEMMA InvalIs ==
    ASSUME NEW p, IsPaint(p), NEW i, NEW q, q = WithoutImage(p, i)
    PROVE  /\ IsPaint(q) /\ q.canvas = p.canvas /\ q.offscreen = p.offscreen
           /\ q.cache = [p.cache EXCEPT ![i] = 0]
<1> DEFINE cache == [p.cache EXCEPT ![i] = 0]
<1>1. /\ p.canvas = [s \in {0, 1} |-> [a \in Areas |-> p.canvas[s][a]]]
      /\ DOMAIN p = {"canvas", "offscreen", "cache"}
      /\ p = [canvas |-> p.canvas, offscreen |-> p.offscreen, cache |-> p.cache]
  BY DEF IsPaint
<1>2. q = [p EXCEPT !.cache = cache]
  BY DEF WithoutImage
<1> HIDE DEF cache
<1>3. q = [canvas |-> p.canvas, offscreen |-> p.offscreen, cache |-> cache]
  BY <1>1, <1>2
<1> QED
  BY <1>1, <1>3 DEF IsPaint, cache

\* The offscreen surface is made or dropped.
LEMMA SurfaceIs ==
    ASSUME NEW p, IsPaint(p), NEW b, NEW q,
           q = WithSurface(p, b)
    PROVE  /\ IsPaint(q) /\ q.canvas[0] = p.canvas[0] /\ q.canvas[1] = Blank.canvas[1]
           /\ q.offscreen = b /\ q.cache = p.cache
<1> DEFINE canvas == [p.canvas EXCEPT ![1] = Blank.canvas[1]]
<1>1. /\ p.canvas = [s \in {0, 1} |-> [a \in Areas |-> p.canvas[s][a]]]
      /\ DOMAIN p = {"canvas", "offscreen", "cache"}
      /\ p = [canvas |-> p.canvas, offscreen |-> p.offscreen, cache |-> p.cache]
  BY DEF IsPaint
<1>2. q = [p EXCEPT !.offscreen = b, !.canvas = canvas]
  BY DEF WithSurface
<1>3. Blank.canvas[1] = [a \in Areas |-> Blank.canvas[1][a]]
  BY DEF Blank
<1>4. /\ canvas[0] = p.canvas[0] /\ canvas[1] = Blank.canvas[1]
      /\ DOMAIN canvas = {0, 1}
      /\ \A s \in {0, 1} : canvas[s] = [a \in Areas |-> canvas[s][a]]
  BY <1>1, <1>3
<1>5. canvas = [s \in {0, 1} |-> [a \in Areas |-> canvas[s][a]]]
  BY <1>1, <1>4
<1> HIDE DEF canvas
<1>6. q = [canvas |-> canvas, offscreen |-> b, cache |-> p.cache]
  BY <1>1, <1>2
<1>7. q.canvas = canvas /\ q.offscreen = b /\ q.cache = p.cache
  BY <1>6
<1>8. IsPaint(q)
  BY Zenon, <1>5, <1>6, <1>7 DEF IsPaint
<1> QED
  BY Zenon, <1>4, <1>7, <1>8

\* The areas that a message covers for good.
Covers(m) ==
    IF m.surface = 0 /\ (m.op = "frame" \/ (m.op \in {"copy", "fill"} /\ m.over)) THEN m.box ELSE {}

\* Any message leaves canvases canvases.
LEMMA PaintKeepsShape ==
    ASSUME NEW p, IsPaint(p), NEW m \in Messages, NEW n
    PROVE  IsPaint(Paint(p, m, n))
<1>1. m.op \in Ops /\ m.surface \in {0, 1}
  BY DEF Messages
<1> DEFINE q == Paint(p, m, n)
<1>2. CASE ~ Paintable(p, m)
  BY Zenon, <1>2 DEF Paint
<1>3. CASE Paintable(p, m)
  <2>1. \/ q = DrawOn(p, m, n)
        \/ q = WithoutImage(p, m.id)
        \/ q = WithSurface(p, TRUE)
        \/ q = WithSurface(p, FALSE)
    BY Zenon, <1>1, <1>3, PaintIs
  <2> HIDE DEF q
  <2>2. q = DrawOn(p, m, n) => IsPaint(q)
    BY <1>1, DrawOnKeepsShape
  <2>3. q = WithoutImage(p, m.id) => IsPaint(q)
    BY Zenon, InvalIs
  <2>4. \A b : q = WithSurface(p, b) => IsPaint(q)
    BY Zenon, SurfaceIs
  <2>5. IsPaint(q)
    BY Zenon, <2>1, <2>2, <2>3, <2>4
  <2> QED
    BY <2>5 DEF q
<1> QED
  BY <1>2, <1>3

\* What two pictures have alike they have alike after the next message, and
\* what it covers too, if it reads nothing in which they differ.
LEMMA PaintAlike ==
    ASSUME NEW p, NEW p2, NEW D, Alike(p, p2, D), NEW m \in Messages, NEW n, Paintable(p, m),
           m.surface = 1 => m.image # "surface",
           m.op = "copybits" => D = {}
    PROVE  /\ Paintable(p2, m)
           /\ Alike(Paint(p, m, n), Paint(p2, m, n), D \ Covers(m))
<1> DEFINE q == Paint(p, m, n)
           q2 == Paint(p2, m, n)
<1>1. m.op \in Ops /\ m.surface \in {0, 1}
  BY DEF Messages
<1>2. /\ IsPaint(p) /\ IsPaint(p2)
      /\ p2.offscreen = p.offscreen /\ p2.cache = p.cache
      /\ \A a \in Areas : p2.canvas[1][a] = p.canvas[1][a]
      /\ \A a \in Areas \ D : p2.canvas[0][a] = p.canvas[0][a]
  BY DEF Alike
<1>0. IsPaint(p) /\ IsPaint(p2)
  BY DEF Alike
<1>3. Paintable(p2, m)
  BY Zenon, <1>2 DEF Paintable, Exists
<1>4. CASE D = {}
  <2>1. p2 = p
    BY <1>4, AlikeIsSame
  <2>2. IsPaint(q)
    BY <1>2, PaintKeepsShape
  <2>3. Alike(q, q, D \ Covers(m))
    BY Zenon, <2>2, AlikeIsSame
  <2> QED
    BY Zenon, <1>3, <2>1, <2>3
<1>5. CASE D # {} /\ Draws(m)
  <2>1. m.op # "copybits"
    BY <1>5
  <2>2. q = DrawOn(p, m, n) /\ q2 = DrawOn(p2, m, n)
    BY Zenon, <1>1, <1>3, <1>5, PaintIs
  <2>3. ASSUME NEW a \in Areas PROVE Picture(p2, m, n, a) = Picture(p, m, n, a)
    <3>1. m.image = "surface" => p2.canvas[1 - m.surface][a] = p.canvas[1 - m.surface][a]
      <4>1. m.image = "surface" => m.surface = 0
        BY <1>1
      <4> QED
        BY <1>2, <4>1
    <3>2. CASE m.image = "cached"
      <4>1. m.image # "surface"
        BY <3>2
      <4> QED
        BY Zenon, <1>2, <2>1, <3>2, <4>1 DEF Picture
    <3>3. CASE m.image = "surface"
      <4>1. m.image # "cached"
        BY <3>3
      <4> QED
        BY Zenon, <2>1, <3>1, <3>3, <4>1 DEF Picture
    <3>4. CASE m.image # "surface" /\ m.image # "cached"
      BY Zenon, <2>1, <3>4 DEF Picture
    <3> QED
      BY <3>2, <3>3, <3>4
  <2>4. /\ IsPaint(q) /\ q.offscreen = p.offscreen
        /\ q.cache = IF m.keep THEN [p.cache EXCEPT ![m.id] = n] ELSE p.cache
        /\ \A s \in {0, 1}, a \in Areas :
             q.canvas[s][a] = IF s # m.surface \/ a \notin m.box THEN p.canvas[s][a]
                              ELSE IF Overwrites(m) THEN Picture(p, m, n, a)
                              ELSE p.canvas[s][a] \o Picture(p, m, n, a)
    <3>1. Drawn(p, m, n, q)
      BY <1>0, <1>1, <2>2, DrawOnIs
    <3> HIDE DEF q, q2
    <3> QED
      BY Zenon, <3>1 DEF Drawn
  <2>5. /\ IsPaint(q2) /\ q2.offscreen = p2.offscreen
        /\ q2.cache = IF m.keep THEN [p2.cache EXCEPT ![m.id] = n] ELSE p2.cache
        /\ \A s \in {0, 1}, a \in Areas :
             q2.canvas[s][a] = IF s # m.surface \/ a \notin m.box THEN p2.canvas[s][a]
                               ELSE IF Overwrites(m) THEN Picture(p2, m, n, a)
                               ELSE p2.canvas[s][a] \o Picture(p2, m, n, a)
    <3>1. Drawn(p2, m, n, q2)
      BY <1>0, <1>1, <2>2, DrawOnIs
    <3> HIDE DEF q, q2
    <3> QED
      BY Zenon, <3>1 DEF Drawn
  <2> HIDE DEF q, q2
  <2>6. q2.offscreen = q.offscreen /\ q2.cache = q.cache
    BY ZenonT(60), <1>2, <2>4, <2>5
  <2>7. ASSUME NEW a \in Areas PROVE q2.canvas[1][a] = q.canvas[1][a]
    <3>1. p2.canvas[1][a] = p.canvas[1][a]
      BY <1>2
    <3>2. q2.canvas[1][a] = IF 1 # m.surface \/ a \notin m.box THEN p2.canvas[1][a]
                            ELSE IF Overwrites(m) THEN Picture(p2, m, n, a)
                            ELSE p2.canvas[1][a] \o Picture(p2, m, n, a)
      BY <2>5
    <3>3. q.canvas[1][a] = IF 1 # m.surface \/ a \notin m.box THEN p.canvas[1][a]
                           ELSE IF Overwrites(m) THEN Picture(p, m, n, a)
                           ELSE p.canvas[1][a] \o Picture(p, m, n, a)
      BY <2>4
    <3> QED
      BY Zenon, <2>3, <3>1, <3>2, <3>3
  <2>8. ASSUME NEW a \in Areas \ (D \ Covers(m)) PROVE q2.canvas[0][a] = q.canvas[0][a]
    <3>1. a \notin D \/ (0 = m.surface /\ a \in m.box /\ Overwrites(m))
      BY DEF Covers, Overwrites
    <3>2. q2.canvas[0][a] = IF 0 # m.surface \/ a \notin m.box THEN p2.canvas[0][a]
                            ELSE IF Overwrites(m) THEN Picture(p2, m, n, a)
                            ELSE p2.canvas[0][a] \o Picture(p2, m, n, a)
      BY <2>5
    <3>3. q.canvas[0][a] = IF 0 # m.surface \/ a \notin m.box THEN p.canvas[0][a]
                           ELSE IF Overwrites(m) THEN Picture(p, m, n, a)
                           ELSE p.canvas[0][a] \o Picture(p, m, n, a)
      BY <2>4
    <3>4. a \notin D => p2.canvas[0][a] = p.canvas[0][a]
      BY <1>2
    <3>5. Picture(p2, m, n, a) = Picture(p, m, n, a)
      BY <2>3
    <3> QED
      BY Zenon, <3>1, <3>2, <3>3, <3>4, <3>5
  <2>9. Alike(q, q2, D \ Covers(m))
    BY Zenon, <2>4, <2>5, <2>6, <2>7, <2>8 DEF Alike
  <2> QED
    BY <1>3, <2>9 DEF q, q2
<1>6. CASE D # {} /\ ~ Draws(m)
  <2>1. Covers(m) = {}
    BY <1>6 DEF Covers, Draws
  <2>2. D \ Covers(m) = D
    BY <2>1
  <2>3. CASE m.op = "inval"
    <3>1. q = WithoutImage(p, m.id) /\ q2 = WithoutImage(p2, m.id)
      <4>1. m.op # "create" /\ m.op # "destroy" /\ m.op # "frame"
        BY <2>3
      <4> QED
        BY Zenon, <1>1, <1>3, <1>6, <2>3, <4>1, PaintIs
    <3> HIDE DEF q, q2
    <3>2. /\ IsPaint(q) /\ q.canvas = p.canvas /\ q.offscreen = p.offscreen
          /\ q.cache = [p.cache EXCEPT ![m.id] = 0]
      BY <1>0, <3>1, InvalIs
    <3>3. /\ IsPaint(q2) /\ q2.canvas = p2.canvas /\ q2.offscreen = p2.offscreen
          /\ q2.cache = [p2.cache EXCEPT ![m.id] = 0]
      BY SMTT(30), <1>0, <3>1, InvalIs
    <3>4. Alike(q, q2, D)
      BY Zenon, <1>2, <3>2, <3>3 DEF Alike
    <3> QED
      BY <1>3, <2>2, <3>4 DEF q, q2
  <2>4. CASE m.op \in {"create", "destroy"}
    <3>1. PICK b \in BOOLEAN : /\ q = WithSurface(p, b)
                               /\ q2 = WithSurface(p2, b)
      <4>1. CASE m.op = "create"
        <5>1. /\ q = WithSurface(p, TRUE)
              /\ q2 = WithSurface(p2, TRUE)
          <6>1. m.op # "inval" /\ m.op # "destroy" /\ m.op # "frame"
            BY <4>1
          <6> QED
            BY Zenon, <1>1, <1>3, <1>6, <4>1, <6>1, PaintIs
        <5> HIDE DEF q, q2
        <5> QED
          BY <5>1
      <4>2. CASE m.op = "destroy"
        <5>1. /\ q = WithSurface(p, FALSE)
              /\ q2 = WithSurface(p2, FALSE)
          <6>1. m.op # "inval" /\ m.op # "create" /\ m.op # "frame"
            BY <4>2
          <6> QED
            BY Zenon, <1>1, <1>3, <1>6, <4>2, <6>1, PaintIs
        <5> HIDE DEF q, q2
        <5> QED
          BY <5>1
      <4> QED
        BY <2>4, <4>1, <4>2
    <3> HIDE DEF q, q2
    <3>2. /\ IsPaint(q) /\ q.canvas[0] = p.canvas[0] /\ q.canvas[1] = Blank.canvas[1]
          /\ q.offscreen = b /\ q.cache = p.cache
      BY <1>0, <3>1, SurfaceIs
    <3>3. /\ IsPaint(q2) /\ q2.canvas[0] = p2.canvas[0] /\ q2.canvas[1] = Blank.canvas[1]
          /\ q2.offscreen = b /\ q2.cache = p2.cache
      BY <1>0, <3>1, SurfaceIs
    <3>4. Alike(q, q2, D)
      BY Zenon, <1>2, <3>2, <3>3 DEF Alike
    <3> QED
      BY <1>3, <2>2, <3>4 DEF q, q2
  <2> QED
    BY <1>1, <1>6, <2>3, <2>4 DEF Ops, Draws
<1> QED
  BY <1>4, <1>5, <1>6

\* A draw all of which is covered later need not be painted.
LEMMA CoveredDraw ==
    ASSUME NEW p, NEW p2, NEW D, Alike(p, p2, D), NEW m \in Messages, NEW n,
           Draws(m), m.surface = 0, ~ m.keep, m.box \subseteq D
    PROVE  Alike(Paint(p, m, n), p2, D)
<1>1. m.op \in Ops
  BY DEF Messages
<1>2. CASE ~ Paintable(p, m)
  BY Zenon, <1>2 DEF Paint
<1>3. CASE Paintable(p, m)
  <2> DEFINE q == Paint(p, m, n)
  <2>1. q = DrawOn(p, m, n)
    BY Zenon, <1>1, <1>3, PaintIs
  <2> HIDE DEF q
  <2>2. /\ IsPaint(p) /\ IsPaint(p2)
        /\ p2.offscreen = p.offscreen /\ p2.cache = p.cache
        /\ \A a \in Areas : p2.canvas[1][a] = p.canvas[1][a]
        /\ \A a \in Areas \ D : p2.canvas[0][a] = p.canvas[0][a]
    BY DEF Alike
  <2>3. Drawn(p, m, n, q)
    <3>1. m.surface \in {0, 1}
      OBVIOUS
    <3> QED
      BY <2>1, <2>2, <3>1, DrawOnIs
  <2>4. /\ IsPaint(q) /\ q.offscreen = p.offscreen
        /\ \A a \in Areas : q.canvas[1][a] = p.canvas[1][a]
        /\ \A a \in Areas \ m.box : q.canvas[0][a] = p.canvas[0][a]
    BY <2>3, DrawnOnScreen
  <2>6. \A a \in Areas \ D : q.canvas[0][a] = p.canvas[0][a]
    BY <2>4
  <2>7. q.cache = p.cache
    BY <2>3, DrawnUnkept
  <2>8. Alike(q, p2, D)
    BY Zenon, <2>2, <2>4, <2>6, <2>7 DEF Alike
  <2> QED
    BY <2>8 DEF q
<1> QED
  BY <1>2, <1>3
-----------------------------------------------------------------------------
\* A message of a server that keeps to the rules.
Orderly(m) ==
    /\ m \in Messages
    /\ m.surface = 1 => m.image # "surface"
    /\ m.keep => HasImageProperties(m)

\* The areas that what is kept covers, before it reads any of them.
Covered(acc) == IF acc.ended THEN {} ELSE UNION acc.boxes

\* A draw is dropped when a later one covers it, or kept; a copy of the screen on itself
\* ends the search.
LEMMA ScanDrawIs ==
    ASSUME NEW acc, DOMAIN acc = {"kept", "boxes", "ended"}, NEW n
    PROVE  LET m == sent[n]
               t == ScanDraw(n, acc)
           IN  \/ /\ t = acc /\ ~ acc.ended /\ MayBeRemoved(m)
                  /\ m.box \subseteq Covered(acc)
               \/ /\ t.kept = <<n>> \o acc.kept
                  /\ Covered(t) \ Covers(m) \subseteq Covered(acc)
                  /\ m.op = "copybits" => Covered(t) = {}
<1> DEFINE m == sent[n]
           t == ScanDraw(n, acc)
           redundant == MayBeRemoved(m) /\ \E b \in acc.boxes : m.box \subseteq b
           boxes == IF m.op \in {"copy", "fill"} /\ m.surface = 0 /\ m.over
                    THEN acc.boxes \cup {m.box} ELSE acc.boxes
           ended == acc.ended \/ m.op = "copybits"
           r == [acc EXCEPT !.kept = <<n>> \o @, !.ended = ended, !.boxes = boxes]
<1>1. CASE redundant /\ ~ acc.ended
  <2>1. t = acc
    BY Zenon, <1>1 DEF ScanDraw
  <2>2. Covered(acc) = UNION acc.boxes
    BY Zenon, <1>1 DEF Covered
  <2>3. m.box \subseteq Covered(acc)
    <3>1. PICK b \in acc.boxes : m.box \subseteq b
      BY <1>1
    <3>2. b \subseteq UNION acc.boxes
      OBVIOUS
    <3> HIDE DEF m
    <3> QED
      BY <2>2, <3>1, <3>2
  <2> QED
    BY Zenon, <1>1, <2>1, <2>3
<1>2. CASE ~ (redundant /\ ~ acc.ended)
  <2>1. t = r
    <3>1. t = [acc EXCEPT !.kept = <<n>> \o acc.kept, !.ended = ended, !.boxes = boxes]
      BY Zenon, <1>2 DEF ScanDraw
    <3> HIDE DEF t, boxes, ended
    <3> QED
      BY <3>1
  <2> HIDE DEF t, boxes, ended
  <2>2. t.kept = <<n>> \o acc.kept /\ t.ended = ended /\ t.boxes = boxes
    BY <2>1
  <2>3. t.ended <=> (acc.ended \/ m.op = "copybits")
    BY Zenon, <2>2 DEF ended
  <2>4. CASE t.ended
    <3>1. Covered(t) = {}
      BY Zenon, <2>4 DEF Covered
    <3> QED
      BY <2>2, <3>1 DEF t
  <2>5. CASE ~ t.ended
    <3>1. Covered(t) = UNION boxes /\ Covered(acc) = UNION acc.boxes /\ m.op # "copybits"
      BY Zenon, <2>2, <2>3, <2>5 DEF Covered
    <3>2. (UNION boxes) \ Covers(m) \subseteq UNION acc.boxes
      <4>1. CASE m.op \in {"copy", "fill"} /\ m.surface = 0 /\ m.over
        <5>1. boxes = acc.boxes \cup {m.box} /\ Covers(m) = m.box
          BY Zenon, <4>1 DEF boxes, Covers
        <5> HIDE DEF m
        <5> SUFFICES ASSUME NEW x \in UNION boxes, x \notin Covers(m) PROVE x \in UNION acc.boxes
          OBVIOUS
        <5>2. PICK b \in boxes : x \in b
          OBVIOUS
        <5>3. b # m.box
          BY Zenon, <5>1, <5>2
        <5>4. b \in acc.boxes
          BY <5>1, <5>3
        <5> QED
          BY <5>2, <5>4
      <4>2. CASE ~ (m.op \in {"copy", "fill"} /\ m.surface = 0 /\ m.over)
        <5>1. boxes = acc.boxes
          BY Zenon, <4>2 DEF boxes
        <5> QED
          BY <5>1
      <4> QED
        BY <4>1, <4>2
    <3>3. Covered(t) \ Covers(m) \subseteq Covered(acc)
      <4> HIDE DEF m
      <4> QED
        BY <3>1, <3>2
    <3> QED
      BY Zenon, <2>2, <3>1, <3>3 DEF t
  <2> QED
    BY <2>4, <2>5
<1> QED
  BY <1>1, <1>2

\* What may differ in D may differ in more.
LEMMA AlikeMore ==
    ASSUME NEW p, NEW p2, NEW D, NEW E, Alike(p, p2, D), D \subseteq E
    PROVE  Alike(p, p2, E)
BY DEF Alike

\* What is left of a list of draws paints the same, on a picture that differs
\* only where it covers it.
LEMMA ScanKeepsPicture ==
    ASSUME NEW S \in SUBSET (Nat \ {0}), \A n \in S : Orderly(sent[n]), NEW ns \in Seq(S)
    PROVE  \A p, p2, q : Alike(p, p2, Covered(Scanned(ns))) /\ Leads(sent, p, ns, q)
                           => Leads(sent, p2, Scanned(ns).kept, q)
<1> DEFINE Same(ms) == \A p, p2, q : Alike(p, p2, Covered(Scanned(ms))) /\ Leads(sent, p, ms, q)
                           => Leads(sent, p2, Scanned(ms).kept, q)
           T == {ms \in Seq(S) : Same(ms)}
<1>0. S \subseteq Nat /\ \A ms \in Seq(S) : ms \in Seq(Nat)
  BY SeqMonotonic
<1>1. <<>> \in T
  <2>1. Scanned(<<>>) = Untouched /\ Untouched.kept = <<>> /\ <<>> \in Seq(S)
    BY ScanEmpty DEF Untouched
  <2>2. Covered(Untouched) = {}
    BY DEF Covered, Untouched
  <2>3. ASSUME NEW p, NEW p2, NEW q, Alike(p, p2, {}), Leads(sent, p, <<>>, q)
        PROVE  Leads(sent, p2, <<>>, q)
    <3>1. p2 = p
      BY <2>3, AlikeIsSame
    <3> QED
      BY <2>3, <3>1
  <2>4. Same(<<>>)
    BY <2>1, <2>2, <2>3
  <2> HIDE DEF Same
  <2> QED
    BY <2>1, <2>4
<1>2. ASSUME NEW ms \in Seq(S), NEW n \in S, ms \in T PROVE <<n>> \o ms \in T
  <2> DEFINE u == Scanned(ms)
             t == ScanDraw(n, u)
             m == sent[n]
  <2>1. Scanned(<<n>> \o ms) = t
    BY <1>0, ScanCons
  <2>2. Same(ms)
    BY <1>2
  <2>3. /\ m \in Messages /\ m.surface \in {0, 1}
        /\ m.surface = 1 => m.image # "surface"
        /\ m.keep => HasImageProperties(m)
    BY DEF Orderly, Messages
  <2>4. DOMAIN u = {"kept", "boxes", "ended"} /\ u.kept \in Seq(S)
    BY ScanInOrder DEF Finding
  <2>5. \A p, p2, q : Alike(p, p2, Covered(u)) /\ Leads(sent, p, ms, q) => Leads(sent, p2, u.kept, q)
    BY <2>2
  <2> HIDE DEF u, Same
  <2>6. \/ /\ t = u /\ ~ u.ended /\ MayBeRemoved(m)
           /\ m.box \subseteq Covered(u)
        \/ /\ t.kept = <<n>> \o u.kept
           /\ Covered(t) \ Covers(m) \subseteq Covered(u)
           /\ m.op = "copybits" => Covered(t) = {}
    BY <2>4, ScanDrawIs
  <2> HIDE DEF t, m
  <2>7. /\ n \in Nat /\ ms \in Seq(Nat) /\ u.kept \in Seq(Nat) /\ <<n>> \in Seq(S)
    BY <1>0, <2>4
  <2>8. ASSUME NEW p, NEW p2, NEW q, Alike(p, p2, Covered(t)), Leads(sent, p, <<n>> \o ms, q)
        PROVE  Leads(sent, p2, t.kept, q)
    <3>1. PICK r : Paints(sent, p, n, r) /\ Leads(sent, r, ms, q)
      BY Zenon, <2>7, <2>8, LeadsCons
    <3>2. Paintable(p, m) /\ r = Paint(p, m, n)
      BY Zenon, <3>1 DEF Paints, m
    <3>3. CASE t = u /\ ~ u.ended /\ MayBeRemoved(m) /\ m.box \subseteq Covered(u)
      <4>1. Draws(m) /\ m.surface = 0 /\ ~ m.keep
        BY Zenon, <2>3, <3>3 DEF MayBeRemoved
      <4>2. Alike(p, p2, Covered(u))
        BY <2>8, <3>3
      <4>3. Alike(r, p2, Covered(u))
        BY <2>3, <3>2, <3>3, <4>1, <4>2, CoveredDraw
      <4>4. Leads(sent, p2, u.kept, q)
        BY <2>5, <3>1, <4>3
      <4> QED
        BY <3>3, <4>4
    <3>4. CASE /\ t.kept = <<n>> \o u.kept
               /\ Covered(t) \ Covers(m) \subseteq Covered(u)
               /\ m.op = "copybits" => Covered(t) = {}
      <4> DEFINE r2 == Paint(p2, m, n)
      <4>1. Paintable(p2, m) /\ Alike(r, r2, Covered(t) \ Covers(m))
        BY <2>3, <2>8, <3>2, <3>4, PaintAlike
      <4> HIDE DEF r2
      <4>2. Alike(r, r2, Covered(u))
        BY <3>4, <4>1, AlikeMore
      <4>3. Leads(sent, r2, u.kept, q)
        BY <2>5, <3>1, <4>2
      <4>4. Paints(sent, p2, n, r2)
        BY <4>1 DEF Paints, m, r2
      <4>5. Leads(sent, p2, <<n>> \o u.kept, q)
        BY Zenon, <2>7, <4>3, <4>4, LeadsCons
      <4> QED
        BY <3>4, <4>5
    <3> QED
      BY <2>6, <3>3, <3>4
  <2>9. Same(<<n>> \o ms)
    BY <2>1, <2>8 DEF Same
  <2>10. <<n>> \o ms \in Seq(S)
    BY Zenon, <2>7, ConcatProperties
  <2> QED
    BY <2>9, <2>10
<1> HIDE DEF T
<1>3. ns \in T
  BY <1>1, <1>2, ConsInduction
<1>4. Same(ns)
  BY <1>3 DEF T
<1> QED
  BY <1>4

\* Messages keep a picture a picture.
LEMMA LeadsKeepsShape ==
    ASSUME NEW msgs, NEW S \in SUBSET (Nat \ {0}), \A n \in S : msgs[n] \in Messages,
           NEW p, IsPaint(p), NEW ns \in Seq(S)
    PROVE  \A q : Leads(msgs, p, ns, q) => IsPaint(q)
<1> DEFINE Kept(ms) == \A q : Leads(msgs, p, ms, q) => IsPaint(q)
           T == {ms \in Seq(S) : Kept(ms)}
<1>0. S \subseteq Nat /\ \A ms \in Seq(S) : ms \in Seq(Nat)
  BY SeqMonotonic
<1>1. <<>> \in T
  <2>1. Kept(<<>>)
    BY LeadsEmpty
  <2>2. <<>> \in Seq(S)
    BY EmptySeq
  <2> HIDE DEF Kept
  <2> QED
    BY <2>1, <2>2
<1>2. ASSUME NEW ms \in Seq(S), NEW n \in S, ms \in T PROVE Append(ms, n) \in T
  <2>1. ASSUME NEW q, Leads(msgs, p, Append(ms, n), q) PROVE IsPaint(q)
    <3>1. PICK r : Leads(msgs, p, ms, r) /\ Paints(msgs, r, n, q)
      <4>1. ms \in Seq(Nat) /\ n \in Nat
        BY <1>0
      <4> QED
        BY <2>1, <4>1, LeadsAppend
    <3>2. IsPaint(r)
      BY <1>2, <3>1
    <3> QED
      BY <3>1, <3>2, PaintKeepsShape DEF Paints
  <2>2. Append(ms, n) \in Seq(S)
    BY AppendProperties
  <2>3. Kept(Append(ms, n))
    BY <2>1
  <2> HIDE DEF Kept
  <2> QED
    BY <2>2, <2>3
<1> HIDE DEF T
<1>3. ns \in T
  BY <1>1, <1>2, AppendInduction
<1>4. Kept(ns)
  BY <1>3 DEF T
<1> QED
  BY <1>4
-----------------------------------------------------------------------------
(* The steps, in pictures.                                                 *)

\* A frame is painted over all of its box, and reads nothing.
OfScreen(m) ==
    /\ m \in Messages
    /\ m.op = "frame" => m.surface = 0 /\ m.image = "none" /\ ~ m.keep

\* Only frames load without holding up the rest.
Frames(s) == \A v \in s.video : sent[v].op = "frame"

\* What will be painted whatever comes: the frame that loads, or what is held.
Due(s) == IF s.video = {} THEN Held(s) ELSE <<CHOOSE v \in s.video : TRUE>>

\* While a frame loads nothing is held.
LEMMA DueIs ==
    ASSUME NEW S \in SUBSET (Nat \ {0}), NEW s, Screen(s, S)
    PROVE  /\ Due(s) \in Seq(S) /\ Due(s) \in Seq(Nat)
           /\ s.video = {} => Due(s) = Held(s)
           /\ \A v \in s.video : Due(s) = <<v>> /\ s.video = {v} /\ Held(s) = <<>>
<1>1. /\ s.video \subseteq S /\ S \subseteq Nat /\ (s.video # {} => s.current = 0)
      /\ \A v, w \in s.video : v = w
  BY DEF Screen
<1>2. Held(s) \in Seq(S) /\ Held(s) \in Seq(Nat) /\ (s.current = 0 => Held(s) = <<>>)
  BY HeldIs
<1>3. CASE s.video = {}
  BY Zenon, <1>2, <1>3 DEF Due
<1>4. ASSUME NEW v \in s.video PROVE Due(s) = <<v>> /\ s.video = {v} /\ Held(s) = <<>>
  <2>1. s.video = {v} /\ s.video # {}
    BY <1>1, <1>4
  <2>2. (CHOOSE w \in s.video : TRUE) = v
    BY <2>1
  <2>3. Due(s) = <<CHOOSE w \in s.video : TRUE>>
    BY Zenon, <2>1 DEF Due
  <2>4. Due(s) = <<v>>
    BY Zenon, <2>2, <2>3
  <2>5. Held(s) = <<>>
    BY Zenon, <1>1, <1>2, <2>1
  <2> QED
    BY <2>1, <2>4, <2>5
<1>5. CASE s.video # {}
  <2>1. PICK v \in s.video : TRUE
    BY <1>5
  <2>2. Due(s) = <<v>>
    BY <1>4, <2>1
  <2>3. v \in S /\ v \in Nat
    <3>1. v \in s.video
      BY <2>1
    <3> QED
      BY <1>1, <3>1
  <2>4. <<v>> \in Seq(S) /\ <<v>> \in Seq(Nat)
    BY <2>3
  <2> QED
    BY Zenon, <1>4, <1>5, <2>2, <2>4
<1> QED
  BY <1>3, <1>4, <1>5

\* A frame hides one that is no larger.
LEMMA FrameHidesFrame ==
    ASSUME NEW p, IsPaint(p), NEW m, OfScreen(m), m.op = "frame", NEW n,
           NEW m2, OfScreen(m2), m2.op = "frame", NEW n2, m.box \subseteq m2.box
    PROVE  Paint(Paint(p, m, n), m2, n2) = Paint(p, m2, n2) /\ Paintable(p, m2)
<1> DEFINE q == Paint(p, m, n)
<1>1. /\ m \in Messages /\ m.surface = 0 /\ ~ m.keep /\ Draws(m)
      /\ m2 \in Messages /\ m2.surface = 0 /\ m2.image = "none"
  BY DEF OfScreen, Draws
<1>2. \A x : Paintable(x, m2)
  BY <1>1 DEF Paintable, Exists
<1>3. Alike(p, p, m2.box)
  BY AlikeIsSame
<1>4. Alike(q, p, m2.box)
  BY <1>1, <1>3, CoveredDraw
<1> HIDE DEF q
<1>5. Alike(Paint(q, m2, n2), Paint(p, m2, n2), m2.box \ Covers(m2))
  <2>1. Paintable(q, m2) /\ m2.image # "surface" /\ m2.op # "copybits"
    BY <1>1, <1>2
  <2> QED
    BY <1>1, <1>4, <2>1, PaintAlike
<1>6. m2.box \ Covers(m2) = {}
  BY <1>1 DEF Covers
<1>7. Paint(p, m2, n2) = Paint(q, m2, n2)
  BY <1>5, <1>6, AlikeIsSame
<1> QED
  BY <1>2, <1>7 DEF q

\* The RunQueue leaves canvases canvases and frames frames, and does not forget
\* that one was outrun.
LEMMA RunKeepsShape ==
    ASSUME NEW S \in SUBSET (Nat \ {0}), \A n \in S : sent[n] \in Messages,
           NEW s, Screen(s, S), IsPaint(s.paint), Frames(s), NEW ns \in Seq(S)
    PROVE  LET t == Run(s, ns) IN IsPaint(t.paint) /\ Frames(t) /\ (s.outrun => t.outrun)
<1> DEFINE Keeps(ms) == /\ IsPaint(Run(s, ms).paint) /\ Frames(Run(s, ms))
                        /\ s.outrun => Run(s, ms).outrun
           T == {ms \in Seq(S) : Keeps(ms)}
<1>0. S \subseteq Nat /\ \A ms \in Seq(S) : ms \in Seq(Nat)
  BY SeqMonotonic
<1>1. <<>> \in T
  BY RunEmpty, EmptySeq
<1>2. ASSUME NEW ms \in Seq(S), NEW n \in S, ms \in T PROVE Append(ms, n) \in T
  <2> DEFINE u == Run(s, ms)
             t == RunTask(u, n)
  <2>1. Run(s, Append(ms, n)) = t
    BY <1>0, RunAppend
  <2>2. Screen(u, S) /\ IsPaint(u.paint) /\ Frames(u) /\ (s.outrun => u.outrun)
    BY <1>2, RunInOrder
  <2> HIDE DEF u
  <2>3. /\ \/ u.current # 0 /\ Held(t) = Append(Held(u), n) /\ t.video = u.video /\ t.paint = u.paint
           \/ /\ u.current = 0 /\ Held(u) = <<>>
              /\ \/ Held(t) = <<>> /\ t.video = {n} /\ t.paint = u.paint /\ sent[n].op = "frame"
                 \/ Held(t) = <<n>> /\ t.video = {} /\ t.paint = u.paint
                 \/ Held(t) = <<>> /\ t.video = u.video /\ t.paint = Paint(u.paint, sent[n], n)
        /\ u.outrun => t.outrun
    BY ZenonT(60), <2>2, RunTaskIs
  <2> HIDE DEF t
  <2>4. /\ t.paint = u.paint \/ t.paint = Paint(u.paint, sent[n], n)
        /\ t.video \in {u.video, {}} \/ (t.video = {n} /\ sent[n].op = "frame")
    BY Zenon, <2>3
  <2>5. IsPaint(Paint(u.paint, sent[n], n))
    BY <2>2, PaintKeepsShape
  <2>6. IsPaint(t.paint)
    BY Zenon, <2>2, <2>4, <2>5
  <2>7. Frames(t)
    BY <2>2, <2>4 DEF Frames
  <2>8. Append(ms, n) \in Seq(S)
    BY AppendProperties
  <2>9. Keeps(Append(ms, n))
    BY Zenon, <2>1, <2>2, <2>3, <2>6, <2>7
  <2> HIDE DEF Keeps
  <2> QED
    BY <2>8, <2>9
<1> HIDE DEF T
<1>3. ns \in T
  BY <1>1, <1>2, AppendInduction
<1>4. Keeps(ns)
  BY <1>3 DEF T
<1> QED
  BY <1>4

\* Unless a frame is outrun the RunQueue only delays: what is due and the tasks
\* it is given paint the same when the tasks have run or are held.
LEMMA RunTaskDelays ==
    ASSUME NEW S \in SUBSET (Nat \ {0}), \A n \in S : OfScreen(sent[n]),
           NEW s, Screen(s, S), IsPaint(s.paint), Frames(s), NEW n \in S, NEW q, NEW r,
           Leads(sent, s.paint, Due(s), r), Paints(sent, r, n, q),
           ~ RunTask(s, n).outrun
    PROVE  LET t == RunTask(s, n) IN Leads(sent, t.paint, Due(t), q)
<1> DEFINE t == RunTask(s, n)
<1>0. /\ n \in Nat /\ Held(s) \in Seq(Nat) /\ s.video \subseteq S
      /\ s.video = {} => Due(s) = Held(s)
      /\ \A v \in s.video : Due(s) = <<v>> /\ s.video = {v} /\ Held(s) = <<>>
      /\ s.video # {} => s.current = 0
  BY HeldIs, DueIs DEF Screen
<1>1. /\ Screen(t, S) /\ ~ t.outrun
      /\ \/ s.current # 0 /\ Held(t) = Append(Held(s), n) /\ t.video = s.video /\ t.paint = s.paint
         \/ /\ s.current = 0 /\ Held(s) = <<>>
            /\ \/ Held(t) = <<>> /\ t.video = {n} /\ t.paint = s.paint /\ sent[n].op = "frame"
               \/ Held(t) = <<n>> /\ t.video = {} /\ t.paint = s.paint
               \/ Held(t) = <<>> /\ t.video = s.video /\ t.paint = Paint(s.paint, sent[n], n)
      /\ s.current = 0 /\ Outruns(s, n) => t.outrun
  BY RunTaskIs
<1> HIDE DEF t
<1>2. /\ t.video = {} => Due(t) = Held(t)
      /\ \A v \in t.video : Due(t) = <<v>>
  BY <1>1, DueIs
<1>3. q = Paint(r, sent[n], n) /\ Paintable(r, sent[n])
  BY Zenon DEF Paints
<1>4. CASE s.video = {}
  <2>1. CASE s.current # 0
    <3>1. Held(t) = Append(Held(s), n) /\ t.video = {} /\ t.paint = s.paint
      BY Zenon, <1>1, <1>4, <2>1
    <3>2. Due(t) = Append(Held(s), n) /\ Due(s) = Held(s)
      BY Zenon, <1>0, <1>2, <1>4, <3>1
    <3>3. Leads(sent, s.paint, Append(Held(s), n), q) <=> \E x : Leads(sent, s.paint, Held(s), x) /\ Paints(sent, x, n, q)
      BY <1>0, LeadsAppend
    <3>4. Leads(sent, s.paint, Append(Held(s), n), q)
      BY Zenon, <3>2, <3>3
    <3>5. Leads(sent, t.paint, Due(t), q)
      BY Zenon, <3>1, <3>2, <3>4
    <3> QED
      BY <3>5 DEF t
  <2>2. CASE s.current = 0
    <3>1. Leads(sent, s.paint, <<>>, r)
      BY Zenon, <1>0, <1>1, <1>4, <2>2
    <3>2. r = s.paint
      BY <3>1, LeadsEmpty
    <3>3. Paints(sent, s.paint, n, q)
      BY <3>2
    <3>4. Leads(sent, s.paint, <<n>>, q)
      BY <1>0, <3>3, LeadsSingle
    <3>5. CASE Due(t) = <<n>> /\ t.paint = s.paint
      BY <3>4, <3>5 DEF t
    <3>6. CASE Due(t) = <<>> /\ t.paint = q
      BY <3>6, LeadsEmpty DEF t
    <3>7. \/ Due(t) = <<n>> /\ t.paint = s.paint
          \/ Due(t) = <<>> /\ t.paint = q
      <4>1. \/ t.video = {n} /\ t.paint = s.paint
            \/ Held(t) = <<n>> /\ t.video = {} /\ t.paint = s.paint
            \/ Held(t) = <<>> /\ t.video = {} /\ t.paint = Paint(s.paint, sent[n], n)
        BY Zenon, <1>1, <1>4, <2>2
      <4>2. t.video = {n} => n \in t.video
        OBVIOUS
      <4> QED
        BY Zenon, <1>2, <1>3, <3>2, <4>1, <4>2
    <3> QED
      BY <3>5, <3>6, <3>7
  <2> QED
    BY <2>1, <2>2
<1>5. CASE s.video # {}
  <2>1. PICK v \in s.video : TRUE
    BY <1>5
  <2>2. s.current = 0 /\ ~ Outruns(s, n) /\ Due(s) = <<v>> /\ v \in Nat
    BY <1>0, <1>1, <1>5, <2>1
  <2>3. sent[n].op = "frame" /\ sent[v].box \subseteq sent[n].box /\ sent[v].op = "frame"
    BY <2>1, <2>2 DEF Outruns, Frames
  <2>4. OfScreen(sent[n]) /\ OfScreen(sent[v])
    BY <1>0, <2>1
  <2>5. Paints(sent, s.paint, v, r)
    BY <2>2, LeadsSingle
  <2>6. r = Paint(s.paint, sent[v], v)
    BY Zenon, <2>5 DEF Paints
  <2>7. /\ Paint(Paint(s.paint, sent[v], v), sent[n], n) = Paint(s.paint, sent[n], n)
        /\ Paintable(s.paint, sent[n])
    BY <2>3, <2>4, FrameHidesFrame
  <2>8. Paints(sent, s.paint, n, q)
    BY Zenon, <1>3, <2>6, <2>7 DEF Paints
  <2>9. Leads(sent, s.paint, <<n>>, q)
    BY <1>0, <2>8, LeadsSingle
  <2>10. t.video = {n} /\ t.paint = s.paint
    <3>1. RunTask(s, n) = [StartTask(s, n) EXCEPT !.outrun = @ \/ Outruns(s, n)]
      BY Zenon, <2>2 DEF RunTask
    <3> DEFINE b == [s EXCEPT !.video = {n}]
    <3>2. StartTask(s, n) = b
      BY Zenon, <2>3 DEF StartTask, FrameStarts
    <3>3. b.video = {n} /\ b.paint = s.paint /\ DOMAIN b = Parts
      BY DEF Screen, Parts
    <3> HIDE DEF b
    <3>4. t = [b EXCEPT !.outrun = @ \/ Outruns(s, n)]
      BY Zenon, <3>1, <3>2 DEF t
    <3> QED
      BY <3>3, <3>4 DEF Parts
  <2>11. n \in t.video
    BY <2>10
  <2>12. Due(t) = <<n>>
    BY Zenon, <1>2, <2>11
  <2> QED
    BY <2>9, <2>10, <2>12 DEF t
<1> QED
  BY <1>4, <1>5

\* The same for a run of tasks.
LEMMA RunDelays ==
    ASSUME NEW S \in SUBSET (Nat \ {0}), \A n \in S : OfScreen(sent[n]),
           NEW s, Screen(s, S), IsPaint(s.paint), Frames(s), NEW ns \in Seq(S)
    PROVE  LET t == Run(s, ns) IN
           ~ t.outrun => \A q : Leads(sent, s.paint, Due(s) \o ns, q) => Leads(sent, t.paint, Due(t), q)
<1> DEFINE Delays(ms) == ~ Run(s, ms).outrun =>
                            \A q : Leads(sent, s.paint, Due(s) \o ms, q)
                                     => Leads(sent, Run(s, ms).paint, Due(Run(s, ms)), q)
           T == {ms \in Seq(S) : Delays(ms)}
<1>0. /\ S \subseteq Nat /\ Due(s) \in Seq(Nat)
      /\ \A ms \in Seq(S) : ms \in Seq(Nat)
      /\ \A n \in S : sent[n] \in Messages
  BY SeqMonotonic, DueIs DEF OfScreen
<1>1. <<>> \in T
  <2>1. Run(s, <<>>) = s /\ <<>> \in Seq(S) /\ Due(s) \o <<>> = Due(s)
    BY <1>0, RunEmpty, ConcatEmptySeq
  <2>2. Delays(<<>>)
    BY <2>1
  <2> HIDE DEF Delays
  <2> QED
    BY <2>1, <2>2
<1>2. ASSUME NEW ms \in Seq(S), NEW n \in S, ms \in T PROVE Append(ms, n) \in T
  <2> DEFINE u == Run(s, ms)
  <2>1. Run(s, Append(ms, n)) = RunTask(u, n)
    BY <1>0, RunAppend
  <2>2. Screen(u, S) /\ IsPaint(u.paint) /\ Frames(u)
    BY <1>0, RunInOrder, RunKeepsShape
  <2>3. /\ Due(s) \o ms \in Seq(Nat) /\ Append(ms, n) \in Seq(S)
        /\ Due(s) \o Append(ms, n) = Append(Due(s) \o ms, n)
    <3>1. ms \in Seq(Nat) /\ n \in Nat
      BY <1>0
    <3>2. <<n>> \in Seq(Nat) /\ Append(ms, n) = ms \o <<n>>
      BY <3>1, AppendIsConcat
    <3>3. Due(s) \o ms \in Seq(Nat)
      BY <1>0, <3>1, ConcatProperties
    <3>4. Append(Due(s) \o ms, n) = (Due(s) \o ms) \o <<n>>
      BY <3>1, <3>3, AppendIsConcat
    <3>5. (Due(s) \o ms) \o <<n>> = Due(s) \o (ms \o <<n>>)
      BY Zenon, <1>0, <3>1, <3>2, RegroupNat
    <3>6. Append(ms, n) \in Seq(S)
      BY AppendProperties
    <3> QED
      BY <3>2, <3>3, <3>4, <3>5, <3>6
  <2>4. ASSUME ~ RunTask(u, n).outrun, NEW q, Leads(sent, s.paint, Due(s) \o Append(ms, n), q)
        PROVE  Leads(sent, RunTask(u, n).paint, Due(RunTask(u, n)), q)
    <3>1. PICK r : Leads(sent, s.paint, Due(s) \o ms, r) /\ Paints(sent, r, n, q)
      <4>1. Leads(sent, s.paint, Append(Due(s) \o ms, n), q)
        BY <2>3, <2>4
      <4>2. n \in Nat
        BY <1>0
      <4> QED
        BY <2>3, <4>1, <4>2, LeadsAppend
    <3>2. Delays(ms)
      BY <1>2
    <3>3. ~ u.outrun
      <4> HIDE DEF u
      <4>1. u.outrun => RunTask(u, n).outrun
        BY <2>2, RunTaskIs
      <4> QED
        BY Zenon, <2>4, <4>1
    <3>4. Leads(sent, u.paint, Due(u), r)
      BY Zenon, <3>1, <3>2, <3>3
    <3> HIDE DEF u
    <3> QED
      BY <2>2, <2>4, <3>1, <3>4, RunTaskDelays
  <2>5. Delays(Append(ms, n))
    <3> HIDE DEF u
    <3> QED
      BY Zenon, <2>1, <2>4
  <2> HIDE DEF Delays
  <2> QED
    BY <2>3, <2>5
<1> HIDE DEF T
<1>3. ns \in T
  BY <1>1, <1>2, AppendInduction
<1>4. Delays(ns)
  BY <1>3 DEF T
<1> QED
  BY <1>4

\* What is due and what is behind it will paint what the server means.
Faithful ==
    /\ sent \in Seq(palette)
    /\ IsPaint(screen.paint)
    /\ Frames(screen)
    /\ failed = {} /\ ~ screen.outrun => Leads(sent, screen.paint, Due(screen) \o Behind(Pre), ideal)

\* At first both pictures are blank.
LEMMA InitFaithful == Init => Faithful
<1> SUFFICES ASSUME Init PROVE Faithful
  OBVIOUS
<1>1. /\ Pre.queued = <<>> /\ Pre.inProcess = <<>> /\ Pre.waiting = <<>>
      /\ screen.tasks = <<>> /\ screen.current = 0 /\ screen.paint = Blank /\ ideal = Blank
      /\ sent = <<>> /\ screen.video = {}
  BY DEF Init, Pre, InitScreen
<1>2. <<>> \o <<>> = <<>> /\ <<>> \in Seq(palette)
  BY ConcatEmptySeq, EmptySeq
<1>3. Due(screen) = <<>> /\ Behind(Pre) = <<>> /\ Frames(screen)
  BY <1>1, <1>2 DEF Held, Due, Behind, Frames
<1>4. IsPaint(Blank)
  BY DEF IsPaint, Blank
<1>5. Leads(sent, Blank, <<>>, Blank)
  BY LeadsEmpty
<1> QED
  BY <1>1, <1>2, <1>3, <1>4, <1>5 DEF Faithful

\* What is known of the messages and of the lists.
LEMMA Known ==
    ASSUME Inv, InOrder, sent \in Seq(palette)
    PROVE  /\ Numbers \in SUBSET (Nat \ {0}) /\ Numbers \subseteq Nat
           /\ palette \in Palettes /\ palette \subseteq Messages
           /\ \A k \in Numbers : sent[k] \in palette /\ sent[k] \in Messages /\ OfScreen(sent[k])
           /\ Screen(screen, Numbers)
           /\ Due(screen) \in Seq(Numbers) /\ Due(screen) \in Seq(Nat)
           /\ Behind(Pre) \in Seq(Numbers) /\ Behind(Pre) \in Seq(Nat)
<1>1. Numbers \in SUBSET (Nat \ {0}) /\ Numbers \subseteq Nat
  BY NumbersAreCounts
<1>2. palette \in Palettes /\ palette \subseteq Messages
  BY DisplayAssumption DEF Inv
<1>3. \A k \in Numbers : sent[k] \in palette
  BY ElementOfSeq DEF Numbers
<1>4. Screen(screen, Numbers) /\ Lists(Pre, Numbers)
  BY DEF InOrder
<1>5. Due(screen) \in Seq(Numbers) /\ Due(screen) \in Seq(Nat)
  BY <1>1, <1>4, DueIs
<1>6. Behind(Pre) \in Seq(Numbers) /\ Behind(Pre) \in Seq(Nat)
  BY <1>1, <1>4, BehindIs
<1>7. ASSUME NEW m \in palette PROVE OfScreen(m)
  BY <1>2, DisplayAssumption DEF OfScreen
<1> QED
  BY <1>1, <1>2, <1>3, <1>4, <1>5, <1>6, <1>7

\* A message that arrives is meant last and will be painted last.
LEMMA ReceiveFaithful ==
    ASSUME Inv, InOrder, Faithful, NEW m \in palette, Receive(m)
    PROVE  Faithful'
<1> DEFINE n == Len(sent) + 1
           h == Due(screen)
           b == Behind(Pre)
<1>1. /\ screen' = screen /\ failed' = failed /\ palette' = palette
      /\ ideal' = Paint(ideal, m, n) /\ Paintable(ideal, m)
  BY DEF Receive, Legal
<1>2. sent' = Append(sent, m) /\ Behind(Pre)' = b \o <<n>>
  BY ReceiveInOrder
<1>3. /\ Numbers \subseteq Nat /\ Numbers = 1 .. Len(sent) /\ sent \in Seq(palette)
      /\ h \in Seq(Numbers) /\ h \in Seq(Nat) /\ b \in Seq(Numbers) /\ b \in Seq(Nat)
      /\ screen.video \subseteq Numbers
  BY Known DEF Faithful, Numbers, Screen
<1>4. /\ sent' \in Seq(palette) /\ n \in Nat /\ sent'[n] = m
      /\ \A k \in Numbers : sent'[k] = sent[k]
  BY <1>2, <1>3
<1>5. IsPaint(screen'.paint) /\ Frames(screen)'
  BY <1>1, <1>3, <1>4 DEF Faithful, Frames
<1>6. Due(screen)' = h
  BY <1>1 DEF Due, Held
<1> HIDE DEF h, b
<1>7. ASSUME failed = {}, ~ screen.outrun PROVE Leads(sent', screen.paint, h \o (b \o <<n>>), ideal')
  <2>1. Leads(sent, screen.paint, h \o b, ideal)
    BY <1>7 DEF Faithful, h, b
  <2>2. h \o b \in Seq(Numbers) /\ h \o b \in Seq(Nat) /\ <<n>> \in Seq(Nat)
    BY <1>3, <1>4, ConcatProperties
  <2>3. Leads(sent', screen.paint, h \o b, ideal)
    BY <1>4, <2>1, <2>2, LeadsMore
  <2>4. Paints(sent', ideal, n, ideal')
    BY <1>1, <1>4 DEF Paints
  <2>5. Leads(sent', screen.paint, Append(h \o b, n), ideal')
    BY <1>4, <2>2, <2>3, <2>4, LeadsAppend
  <2>6. Append(h \o b, n) = (h \o b) \o <<n>>
    BY <1>4, <2>2, AppendIsConcat
  <2>7. (h \o b) \o <<n>> = h \o (b \o <<n>>)
    BY Zenon, <1>3, <2>2, RegroupNat
  <2> QED
    BY <2>5, <2>6, <2>7
<1> QED
  BY <1>1, <1>2, <1>4, <1>5, <1>6, <1>7 DEF Faithful

\* A step that moves no message to or from the RunQueue.
LEMMA SameFaithful ==
    ASSUME Faithful, UNCHANGED <<palette, sent, ideal, failed>>, Behind(Pre)' = Behind(Pre),
           screen' = screen
    PROVE  Faithful'
<1>1. Due(screen)' = Due(screen) /\ (Frames(screen) => Frames(screen)')
  BY DEF Due, Held, Frames
<1> QED
  BY <1>1 DEF Faithful

\* What a flush drops is not missed, and what it runs or holds paints as before.
LEMMA FlushFaithful ==
    ASSUME Inv, InOrder, Faithful, Flush, ServersConform
    PROVE  Faithful'
<1> DEFINE tasks == WithoutRedundantDraws(waiting)
           h == Due(screen)
           rest == Behind(Pre)'
           t == Run(screen, tasks)
<1>1. /\ UNCHANGED <<palette, sent, ideal, failed>>
  BY DEF Flush
<1>2. /\ screen' = t /\ Behind(Pre) = waiting \o rest
      /\ rest \in Seq(Numbers) /\ waiting \in Seq(Numbers)
  BY FlushInOrder
<1>3. /\ Numbers \in SUBSET (Nat \ {0}) /\ Numbers \subseteq Nat
      /\ \A k \in Numbers : sent[k] \in Messages /\ Orderly(sent[k]) /\ OfScreen(sent[k])
      /\ Screen(screen, Numbers) /\ h \in Seq(Numbers) /\ h \in Seq(Nat)
  <2>1. sent \in Seq(palette)
    BY DEF Faithful
  <2>2. /\ Numbers \in SUBSET (Nat \ {0}) /\ Numbers \subseteq Nat
        /\ palette \in Palettes
        /\ \A k \in Numbers : sent[k] \in palette /\ sent[k] \in Messages /\ OfScreen(sent[k])
        /\ Screen(screen, Numbers) /\ h \in Seq(Numbers) /\ h \in Seq(Nat)
    BY <2>1, Known
  <2>3. ASSUME NEW m \in palette, m \in Messages PROVE Orderly(m)
    BY <2>2, <2>3 DEF ServersConform, ScreenIsNoSource, OnlyImagesAreKept, Orderly
  <2> QED
    BY <2>2, <2>3
<1>4. tasks = Scanned(waiting).kept /\ tasks \in Seq(Numbers)
  <2>1. tasks = Scanned(waiting).kept
    BY DEF WithoutRedundantDraws, Scanned, Untouched
  <2> QED
    BY <1>2, <1>3, <2>1, ScanInOrder DEF Finding
<1> HIDE DEF tasks, h, rest
<1>5. waiting \in Seq(Nat) /\ tasks \in Seq(Nat) /\ rest \in Seq(Nat)
  BY <1>2, <1>3, <1>4, SeqMonotonic
<1>6. /\ IsPaint(screen.paint) /\ Frames(screen)
      /\ IsPaint(t.paint) /\ Frames(t) /\ (screen.outrun => t.outrun)
  <2>1. IsPaint(screen.paint) /\ Frames(screen)
    BY DEF Faithful
  <2> QED
    BY <1>3, <1>4, <2>1, RunKeepsShape
<1> HIDE DEF t
<1>7. ASSUME failed = {}, ~ t.outrun PROVE Leads(sent, t.paint, Due(t) \o rest, ideal)
  <2>1. Leads(sent, screen.paint, h \o (waiting \o rest), ideal)
    BY <1>2, <1>6, <1>7 DEF Faithful, h
  <2>2. waiting \o rest \in Seq(Nat)
    BY <1>5, ConcatProperties
  <2>3. PICK r1 : Leads(sent, screen.paint, h, r1) /\ Leads(sent, r1, waiting \o rest, ideal)
    BY Zenon, <1>3, <2>1, <2>2, LeadsConcat
  <2>4. PICK r2 : Leads(sent, r1, waiting, r2) /\ Leads(sent, r2, rest, ideal)
    BY Zenon, <1>5, <2>3, LeadsConcat
  <2>5. IsPaint(r1)
    BY <1>3, <1>6, <2>3, LeadsKeepsShape
  <2>6. Leads(sent, r1, tasks, r2)
    <3>1. Alike(r1, r1, Covered(Scanned(waiting)))
      BY <2>5, AlikeIsSame
    <3> QED
      BY <1>2, <1>3, <1>4, <2>4, <3>1, ScanKeepsPicture
  <2>7. Leads(sent, screen.paint, h \o tasks, r2)
    BY Zenon, <1>3, <1>5, <2>3, <2>6, LeadsConcat
  <2>8. Leads(sent, t.paint, Due(t), r2)
    <3>1. \A q : Leads(sent, screen.paint, h \o tasks, q) => Leads(sent, t.paint, Due(t), q)
      BY <1>3, <1>4, <1>6, <1>7, RunDelays DEF t, h
    <3> QED
      BY <2>7, <3>1
  <2>9. Due(t) \in Seq(Nat)
    <3>1. Screen(t, Numbers)
      BY <1>3, <1>4, RunInOrder DEF t
    <3> QED
      BY <1>3, <3>1, DueIs
  <2> QED
    BY Zenon, <1>5, <2>4, <2>8, <2>9, LeadsConcat
<1>8. /\ Due(screen)' = Due(t) /\ screen'.paint = t.paint /\ screen'.outrun = t.outrun
      /\ Frames(screen)'
  BY <1>1, <1>2, <1>6 DEF Due, Held, Frames
<1> QED
  BY <1>1, <1>6, <1>7, <1>8 DEF Faithful, rest

\* An image is painted when it has loaded, and those behind it after it.
LEMMA ImageLoadsFaithful ==
    ASSUME Inv, InOrder, Faithful, ImageLoads
    PROVE  Faithful'
<1> DEFINE n == screen.current
           ns == screen.tasks
           b == Behind(Pre)
           s == [screen EXCEPT !.paint = Paint(@, sent[n], n)]
           r == [s EXCEPT !.current = 0, !.tasks = <<>>]
           t == Run(r, ns)
<1>1. /\ UNCHANGED <<palette, sent, preVars, waiting, ideal, failed>>
      /\ n # 0 /\ screen' = t
  <2>1. s.tasks = ns
    <3>1. DOMAIN screen = Parts
      BY DEF InOrder, Screen
    <3> QED
      BY <3>1 DEF Parts
  <2> QED
    BY <2>1 DEF ImageLoads, Decoding, End
<1>2. /\ Numbers \in SUBSET (Nat \ {0}) /\ Numbers \subseteq Nat
      /\ \A k \in Numbers : sent[k] \in Messages /\ OfScreen(sent[k])
      /\ Screen(screen, Numbers)
      /\ b \in Seq(Nat)
  BY Known DEF Faithful
<1>3. /\ DOMAIN screen = Parts /\ ns \in Seq(Numbers) /\ n \in Numbers /\ n \in Nat
      /\ screen.video = {} /\ screen.outrun \in BOOLEAN
      /\ Due(screen) = <<n>> \o ns /\ <<n>> \o ns \in Seq(Nat)
  <2>1. /\ DOMAIN screen = Parts /\ ns \in Seq(Numbers) /\ n \in Numbers /\ n \in Nat
        /\ screen.video = {} /\ screen.outrun \in BOOLEAN
    BY <1>1, <1>2 DEF Screen
  <2>2. Held(screen) = <<n>> \o ns /\ Due(screen) = Held(screen) /\ Held(screen) \in Seq(Nat)
    BY <1>1, <1>2, <2>1, HeldIs, DueIs
  <2> QED
    BY <2>1, <2>2
<1>4. /\ DOMAIN r = Parts /\ r.tasks = <<>> /\ r.current = 0 /\ r.video = {}
      /\ r.paint = Paint(screen.paint, sent[n], n) /\ r.outrun = screen.outrun
  BY <1>3 DEF Parts
<1> HIDE DEF s, r
<1>5. Screen(r, Numbers)
  <2>1. <<>> \in Seq(Numbers)
    BY EmptySeq
  <2> QED
    BY <1>3, <1>4, <2>1 DEF Screen
<1>6. Due(r) = <<>> /\ Frames(r)
  <2>1. Held(r) = <<>> /\ Due(r) = Held(r)
    BY <1>2, <1>4, <1>5, HeldIs, DueIs
  <2> QED
    BY <1>4, <2>1 DEF Frames
<1>7. IsPaint(r.paint)
  <2>1. IsPaint(screen.paint) /\ sent[n] \in Messages
    BY <1>2, <1>3 DEF Faithful
  <2> QED
    BY <1>4, <2>1, PaintKeepsShape
<1>8. IsPaint(t.paint) /\ Frames(t) /\ (r.outrun => t.outrun)
  BY <1>2, <1>3, <1>5, <1>6, <1>7, RunKeepsShape
<1>9. Behind(Pre)' = b
  BY <1>1, PreStays
<1> HIDE DEF b
<1>10. ASSUME failed = {}, ~ t.outrun PROVE Leads(sent, t.paint, Due(t) \o b, ideal)
  <2>0. ns \in Seq(Nat) /\ <<n>> \in Seq(Nat)
    BY SMTT(30), <1>2, <1>3, SeqMonotonic
  <2>1. Leads(sent, screen.paint, (<<n>> \o ns) \o b, ideal)
    BY <1>3, <1>4, <1>8, <1>10 DEF Faithful, b
  <2>2. PICK q : Leads(sent, screen.paint, <<n>> \o ns, q) /\ Leads(sent, q, b, ideal)
    BY Zenon, <1>2, <1>3, <2>1, LeadsConcat
  <2>3. PICK q0 : Paints(sent, screen.paint, n, q0) /\ Leads(sent, q0, ns, q)
    BY Zenon, <1>3, <2>0, <2>2, LeadsCons
  <2>4. q0 = r.paint
    BY <1>4, <2>3 DEF Paints
  <2>5. Due(r) \o ns = ns
    BY <1>6, <2>0, ConcatEmptySeq
  <2>6. Leads(sent, r.paint, Due(r) \o ns, q)
    BY <2>3, <2>4, <2>5
  <2>7. Leads(sent, t.paint, Due(t), q)
    <3>1. \A x : Leads(sent, r.paint, Due(r) \o ns, x) => Leads(sent, t.paint, Due(t), x)
      BY <1>2, <1>3, <1>5, <1>6, <1>7, <1>10, RunDelays
    <3> QED
      BY <2>6, <3>1
  <2>8. Due(t) \in Seq(Nat)
    <3>1. Screen(t, Numbers)
      BY <1>2, <1>3, <1>5, RunInOrder
    <3> QED
      BY <1>2, <3>1, DueIs
  <2> QED
    BY Zenon, <1>2, <2>2, <2>7, <2>8, LeadsConcat DEF b
<1> HIDE DEF t
<1>11. /\ Due(screen)' = Due(t) /\ screen'.paint = t.paint /\ screen'.outrun = t.outrun
       /\ Frames(screen)'
  BY <1>1, <1>8 DEF Due, Held, Frames
<1> QED
  BY <1>1, <1>8, <1>9, <1>10, <1>11 DEF Faithful

\* After an image that does not load nothing is claimed but that canvases are canvases.
LEMMA ImageFailsFaithful ==
    ASSUME Inv, InOrder, Faithful, ImageFails
    PROVE  Faithful'
<1> DEFINE ns == screen.tasks
           r == [screen EXCEPT !.current = 0, !.tasks = <<>>]
<1>1. /\ palette' = palette /\ sent' = sent /\ failed' # {} /\ screen.current # 0
      /\ screen' = Run(r, ns)
  BY DEF ImageFails, Decoding, End
<1>2. /\ Numbers \in SUBSET (Nat \ {0})
      /\ \A k \in Numbers : sent[k] \in Messages
      /\ Screen(screen, Numbers)
  BY Known DEF Faithful
<1>3. /\ DOMAIN screen = Parts /\ ns \in Seq(Numbers)
      /\ screen.video = {} /\ screen.outrun \in BOOLEAN
  BY <1>1, <1>2 DEF Screen
<1>4. /\ DOMAIN r = Parts /\ r.tasks = <<>> /\ r.current = 0 /\ r.video = {}
      /\ r.paint = screen.paint /\ r.outrun = screen.outrun
  BY <1>3 DEF Parts
<1> HIDE DEF r
<1>5. Screen(r, Numbers)
  <2>1. <<>> \in Seq(Numbers)
    BY EmptySeq
  <2> QED
    BY <1>3, <1>4, <2>1 DEF Screen
<1>6. IsPaint(r.paint) /\ Frames(r)
  BY <1>4 DEF Faithful, Frames
<1>7. IsPaint(screen'.paint) /\ Frames(screen)'
  <2>1. IsPaint(Run(r, ns).paint) /\ Frames(Run(r, ns))
    BY <1>2, <1>3, <1>5, <1>6, RunKeepsShape
  <2> QED
    BY <1>1, <2>1 DEF Frames
<1> QED
  BY <1>1, <1>7 DEF Faithful

\* A frame is painted when it has loaded, on what was there when its task ran;
\* after one that does not load nothing is claimed.
LEMMA FrameFaithful ==
    ASSUME Inv, InOrder, Faithful, NEW n \in screen.video, FrameLoads(n) \/ FrameFails(n)
    PROVE  Faithful'
<1> DEFINE painted == Paint(screen.paint, sent[n], n)
           b == Behind(Pre)
<1>1. /\ UNCHANGED <<palette, sent, preVars, waiting, ideal>>
      /\ \/ /\ screen' = [screen EXCEPT !.video = @ \ {n}, !.shown = n, !.paint = painted]
            /\ failed' = failed
         \/ /\ screen' = [screen EXCEPT !.video = @ \ {n}]
            /\ failed' = failed \cup {n}
  BY DEF FrameLoads, FrameFails
<1>2. /\ Numbers \in SUBSET (Nat \ {0}) /\ Numbers \subseteq Nat
      /\ \A k \in Numbers : sent[k] \in Messages
      /\ Screen(screen, Numbers) /\ b \in Seq(Nat)
  BY Known DEF Faithful
<1>3. /\ DOMAIN screen = Parts /\ n \in Numbers /\ n \in Nat
      /\ screen.video = {n} /\ screen.current = 0 /\ Due(screen) = <<n>> /\ Held(screen) = <<>>
      /\ IsPaint(screen.paint)
  BY <1>2, DueIs DEF Screen, Faithful
<1>4. IsPaint(painted)
  BY <1>2, <1>3, PaintKeepsShape
<1>5. Behind(Pre)' = b
  BY <1>1, PreStays
<1> HIDE DEF painted, b
<1>6. /\ screen'.video = {} /\ screen'.tasks = screen.tasks /\ screen'.current = screen.current
      /\ screen'.outrun = screen.outrun
      /\ \/ screen'.paint = painted /\ failed' = failed
         \/ screen'.paint = screen.paint /\ failed' # {}
  BY <1>1, <1>3 DEF Parts
<1>7. /\ Due(screen)' = <<>> /\ IsPaint(screen'.paint) /\ Frames(screen)'
  <2>1. Held(screen') = Held(screen)
    BY <1>6 DEF Held
  <2> QED
    BY <1>3, <1>4, <1>6, <2>1 DEF Due, Held, Frames
<1>8. ASSUME failed' = {}, ~ screen.outrun
      PROVE  Leads(sent, screen'.paint, <<>> \o b, ideal)
  <2>1. Leads(sent, screen.paint, <<n>> \o b, ideal)
    BY <1>3, <1>6, <1>8 DEF Faithful, b
  <2>2. PICK r : Paints(sent, screen.paint, n, r) /\ Leads(sent, r, b, ideal)
    BY Zenon, <1>2, <1>3, <2>1, LeadsCons DEF b
  <2>3. r = screen'.paint
    BY Zenon, <1>6, <1>8, <2>2 DEF Paints, painted
  <2>4. <<>> \o b = b
    BY <1>2, ConcatEmptySeq DEF b
  <2> QED
    BY <2>2, <2>3, <2>4
<1> QED
  BY <1>1, <1>5, <1>6, <1>7, <1>8 DEF Faithful

\* Every step keeps the promise.
LEMMA NextFaithful ==
    ASSUME Inv, InOrder, Faithful, ServersConform, [Next]_vars
    PROVE  Faithful'
<1>1. ASSUME NEW m \in palette, Receive(m) PROVE Faithful'
  BY <1>1, ReceiveFaithful
<1>2. ASSUME NEW n \in working, WorkerDone(n) PROVE Faithful'
  <2>1. UNCHANGED <<palette, sent, ideal, failed>> /\ screen' = screen
    BY <1>2 DEF WorkerDone
  <2> QED
    BY <1>2, <2>1, WorkerDoneInOrder, SameFaithful
<1>3. ASSUME Flush PROVE Faithful'
  BY <1>3, FlushFaithful
<1>4. ASSUME ImageLoads PROVE Faithful'
  BY <1>4, ImageLoadsFaithful
<1>5. ASSUME ImageFails PROVE Faithful'
  BY <1>5, ImageFailsFaithful
<1>6. ASSUME NEW n \in screen.video, FrameLoads(n) \/ FrameFails(n) PROVE Faithful'
  BY <1>6, FrameFaithful
<1>7. ASSUME UNCHANGED vars PROVE Faithful'
  <2>1. UNCHANGED <<palette, sent, ideal, failed>> /\ screen' = screen /\ Pre' = Pre
    BY <1>7 DEF vars, Pre
  <2>2. Behind(Pre)' = Behind(Pre)
    BY <2>1 DEF Behind
  <2> QED
    BY <2>1, <2>2, SameFaithful
<1> QED
  BY <1>1, <1>2, <1>3, <1>4, <1>5, <1>6, <1>7 DEF Next

\* When all has been painted the canvases and the image cache are what the
\* messages one by one would have painted, if no image failed to decode and no task
\* ran while a frame of a stream was being decoded, but for a frame that hides it:
\* what removeRedundantDraws drops nobody misses, and the RunQueue only delays.  The
\* server sends no draw elsewhere that reads the screen, and has only images kept
\* that come with a draw or a pattern.
THEOREM ThePictureIsAsSent ==
    ASSUME ServersConform
    PROVE  Spec => []PaintedAsSent
<1>1. Inv /\ InOrder /\ Faithful => PaintedAsSent
  <2> SUFFICES ASSUME Inv, InOrder, Faithful, AtRest, screen.video = {}, failed = {}, ~ screen.outrun
               PROVE  screen.paint = ideal
    BY DEF PaintedAsSent, Rests
  <2>1. Due(screen) \o Behind(Pre) = <<>>
    BY PipelineIs DEF AtRest, Due
  <2>2. Leads(sent, screen.paint, <<>>, ideal)
    BY <2>1 DEF Faithful
  <2> QED
    BY <2>2, LeadsEmpty
<1>2. Inv /\ InOrder /\ Faithful /\ [Next]_vars => Faithful'
  BY NextFaithful
<1> QED
  BY <1>1, <1>2, InitConsistent, NextConsistent, InitInOrder, NextInOrder, InitFaithful, PTL DEF Spec
=============================================================================
