---------------------------- MODULE ViewerInputProofs ----------------------------
(***************************************************************************)
(* Theorems about the input of a noVNC viewer, for any keys, any number of *)
(* fingers, any timing and each of the three systems: no key and no button *)
(* stays pressed at the server, no move is lost, and the gesture detector  *)
(* throws nowhere, forgets its touches when the last finger is lifted and  *)
(* hears a tap unless a two finger timer has left its id.                  *)
(*                                                                         *)
(* The detector is proved about first, then the keyboard, then what the    *)
(* pointer makes of the mouse, and at last of what the detector tells.     *)
(***************************************************************************)
EXTENDS ViewerInput, FiniteSetTheorems, TLAPS

Touched == [id : Fingers, age : 0 .. Old, active : BOOLEAN, far : BOOLEAN]

Fields == {"state", "tracked", "ignored", "waiting", "release", "longpress", "twoTouch", "events", "threw"}

Single(S) == \E x \in AllGestures : S = {x}

\* What the fields hold.
Shape(d) ==
    /\ DOMAIN d = Fields
    /\ d.state \subseteq AllGestures
    /\ d.tracked \in Seq(Touched)
    /\ d.waiting \in BOOLEAN /\ d.longpress \in BOOLEAN
    /\ d.twoTouch \in {"none", "running", "fired"}
    /\ d.threw = FALSE

\* The fingers that are down are tracked and active or ignored, never both.
\* Without one that is active nothing is tracked, and none becomes inactive
\* before an end has been seen.
Follows(d, touches) ==
    /\ touches = ActiveIds(d) \cup d.ignored
    /\ ActiveIds(d) \cap d.ignored = {}
    /\ d.tracked # <<>> => SomeActive(d)
    /\ ~ d.waiting => \A i \in 1 .. Len(d.tracked) : d.tracked[i].active

\* The gestures that may still come of so many fingers.
Possible(d) ==
    /\ d.tracked = <<>> => IF d.ignored = {} THEN d.state = AllGestures /\ ~ d.waiting ELSE d.state = {}
    /\ Len(d.tracked) = 1 => d.state \in {AllGestures, {}} \/ Single(d.state)
    /\ Len(d.tracked) = 2 =>
          /\ d.state \subseteq {"twotap", "threetap"} \cup TwoFinger
          /\ Single(d.state) \/ TwoFinger \subseteq d.state \/ TwoFinger \cap d.state = {}
    /\ Len(d.tracked) = 3 => d.state \subseteq {"threetap"} \cup TwoFinger
    /\ Len(d.tracked) > 3 => d.state \subseteq TwoFinger
    /\ d.waiting => d.state = {} \/ Single(d.state)

\* A timer runs only while nothing is decided and something is tracked.
Timers(d) ==
    /\ d.longpress => Len(d.tracked) = 1 /\ ~ d.waiting /\ d.state \in {AllGestures, {}}
    /\ d.twoTouch = "running" =>
          Len(d.tracked) > 1 /\ ~ d.longpress /\ d.state \in {TwoFinger, {}}

Detector(d, touches) == Shape(d) /\ Follows(d, touches) /\ Possible(d) /\ Timers(d)
-----------------------------------------------------------------------------
(* Sets of gestures.                                                       *)

LEMMA GesturesFinite == IsFiniteSet(AllGestures)
<1>1. AllGestures = {"onetap"} \cup {"twotap"} \cup {"threetap"} \cup {"twodrag"} \cup {"pinch"}
                        \cup {"drag"} \cup {"longpress"}
  BY DEF AllGestures, Taps, TwoFinger
<1> QED
  BY <1>1, FS_Singleton, FS_Union

\* Neither all gestures nor both of two fingers are one gesture.
LEMMA NotSingle == ~ Single(AllGestures) /\ ~ Single(TwoFinger) /\ ~ Single({})
<1>1. \A S : {"pinch", "twodrag"} \subseteq S => ~ Single(S)
  BY DEF Single
<1>2. {"pinch", "twodrag"} \subseteq TwoFinger /\ TwoFinger \subseteq AllGestures
  BY DEF TwoFinger, AllGestures
<1> QED
  BY <1>1, <1>2 DEF Single

\* A gesture is detected when it alone is left, and a tap when its fingers are up.
LEMMA Detected ==
    ASSUME NEW d, d.state \subseteq AllGestures
    PROVE  HasDetectedGesture(d) <=> Single(d.state) /\ (d.state \subseteq Taps => ~ SomeActive(d))
<1>1. IsFiniteSet(d.state)
  BY GesturesFinite, FS_Subset
<1>2. Cardinality(d.state) = 1 <=> \E x : d.state = {x}
  BY <1>1, FS_Singleton
<1>3. (\E x : d.state = {x}) <=> Single(d.state)
  BY DEF Single
<1> QED
  BY <1>2, <1>3 DEF HasDetectedGesture

LEMMA SinglePart ==
    ASSUME NEW S, NEW T, T \subseteq S, S = {} \/ Single(S)
    PROVE  T = {} \/ Single(T)
BY DEF Single

LEMMA SingleOf ==
    ASSUME NEW S, NEW x \in AllGestures, S \subseteq {x}
    PROVE  S = {} \/ Single(S)
BY DEF Single
-----------------------------------------------------------------------------
(* Steps of the detector.                                                  *)

\* A detector that differs in nothing that matters.
Alike(d, e) ==
    /\ DOMAIN e = Fields
    /\ e.state = d.state /\ e.tracked = d.tracked /\ e.ignored = d.ignored /\ e.waiting = d.waiting
    /\ e.longpress = d.longpress /\ e.twoTouch = d.twoTouch /\ e.threw = d.threw

LEMMA AlikeKept ==
    ASSUME NEW d, NEW e, NEW touches, Detector(d, touches), Alike(d, e)
    PROVE  Detector(e, touches)
<1>1. ActiveIds(e) = ActiveIds(d)
  BY DEF Alike, ActiveIds
<1> QED
  BY <1>1 DEF Detector, Alike, Shape, Follows, Possible, Timers, SomeActive

LEMMA PushAlike ==
    ASSUME NEW d, NEW type, DOMAIN d = Fields
    PROVE  Alike(d, PushEvent(d, type)) /\ DOMAIN PushEvent(d, type) = Fields
BY DEF Alike, PushEvent, Fields

\* The same touches, but for how old they are and how far they have come.
LEMMA SameActive ==
    ASSUME NEW d, NEW e, d.tracked \in Seq(Touched), e.tracked \in Seq(Touched),
           Len(e.tracked) = Len(d.tracked),
           \A i \in 1 .. Len(d.tracked) : e.tracked[i].id = d.tracked[i].id
                                              /\ e.tracked[i].active = d.tracked[i].active
    PROVE  ActiveIds(e) = ActiveIds(d)
<1>1. DOMAIN d.tracked = 1 .. Len(d.tracked) /\ DOMAIN e.tracked = 1 .. Len(d.tracked)
  OBVIOUS
<1> QED
  BY <1>1 DEF ActiveIds

LEMMA TouchStartKeeps ==
    ASSUME NEW d, NEW touches, Detector(d, touches), NEW id \in Fingers, id \notin touches
    PROVE  Detector(TouchStart(d, id), touches \cup {id})
<1> DEFINE n == Len(d.tracked)
           now == touches \cup {id}
<1>0. /\ DOMAIN d = Fields /\ d.state \subseteq AllGestures /\ d.tracked \in Seq(Touched)
      /\ d.waiting \in BOOLEAN /\ d.longpress \in BOOLEAN
      /\ d.twoTouch \in {"none", "running", "fired"} /\ d.threw = FALSE
      /\ n \in Nat /\ (n = 0 <=> d.tracked = <<>>)
  BY DEF Detector, Shape
<1>n. n \in Nat
  BY <1>0
<1>1. ASSUME NEW e, e.tracked = d.tracked, e.ignored = d.ignored \cup {id}, e.waiting = d.waiting,
             d.tracked # <<>> \/ d.state = {}
      PROVE  Follows(e, now)
  <2>1. ActiveIds(e) = ActiveIds(d)
    BY <1>1 DEF ActiveIds
  <2> QED
    BY <1>1, <2>1 DEF Detector, Follows, SomeActive
<1>2. CASE HasDetectedGesture(d) \/ d.state = {}
  <2> DEFINE e == Ignore(d, id)
  <2>1. TouchStart(d, id) = e
    BY <1>2 DEF TouchStart
  <2>2. /\ DOMAIN e = Fields /\ e.state = d.state /\ e.tracked = d.tracked /\ e.waiting = d.waiting
        /\ e.ignored = d.ignored \cup {id} /\ e.longpress = d.longpress /\ e.twoTouch = d.twoTouch
        /\ e.threw = d.threw
    BY <1>0 DEF Ignore, Fields
  <2> HIDE DEF e
  <2>3. d.tracked # <<>> \/ d.state = {}
    BY <1>0, <1>2, Detected, NotSingle DEF Detector, Possible
  <2>4. Follows(e, now)
    BY <1>1, <2>2, <2>3
  <2>5. Possible(e) /\ Timers(e)
    BY <2>2, <2>3 DEF Detector, Possible, Timers
  <2>6. Shape(e)
    BY <1>0, <2>2 DEF Shape
  <2> QED
    BY <2>1, <2>4, <2>5, <2>6 DEF Detector
<1>3. CASE ~ HasDetectedGesture(d) /\ d.state # {} /\ (TooLate(d) \/ d.waiting)
  <2> DEFINE e == Dead(Ignore(d, id))
  <2>1. TouchStart(d, id) = e
    BY <1>3 DEF TouchStart
  <2>2. /\ DOMAIN e = Fields /\ e.state = {} /\ e.tracked = d.tracked /\ e.waiting = d.waiting
        /\ e.ignored = d.ignored \cup {id} /\ e.longpress = d.longpress /\ e.twoTouch = d.twoTouch
        /\ e.threw = d.threw
    BY <1>0 DEF Ignore, Dead, Fields
  <2> HIDE DEF e
  <2>3. d.tracked # <<>>
    BY <1>3 DEF TooLate, Detector, Possible
  <2>4. Follows(e, now)
    BY <1>1, <2>2, <2>3
  <2>5. Possible(e)
    BY <2>2, <2>3 DEF Possible
  <2>6. Timers(e)
    BY <2>2 DEF Detector, Timers
  <2>7. Shape(e)
    BY <1>0, <2>2 DEF Shape
  <2> QED
    BY <2>1, <2>4, <2>5, <2>6, <2>7 DEF Detector
<1>4. CASE ~ HasDetectedGesture(d) /\ d.state # {} /\ ~ TooLate(d) /\ ~ d.waiting
  <2> DEFINE touch == [id |-> id, age |-> 0, active |-> TRUE, far |-> FALSE]
             t == Append(d.tracked, touch)
             e == Track(d, id)
  <2>1. TouchStart(d, id) = e
    BY <1>4 DEF TouchStart
  <2>2. touch \in Touched
    BY DEF Touched, Old
  <2> HIDE DEF touch
  <2>3. /\ t \in Seq(Touched) /\ Len(t) = n + 1 /\ t[n + 1] = touch
        /\ \A i \in 1 .. n : t[i] = d.tracked[i]
    BY <1>0, <2>2
  <2>4. /\ DOMAIN e = Fields /\ e.tracked = t /\ e.waiting = d.waiting /\ e.ignored = d.ignored
        /\ e.twoTouch = d.twoTouch /\ e.threw = d.threw
        /\ e.longpress = ((Len(t) = 1) \/ (d.longpress /\ Len(t) # 2))
        /\ e.state = CASE Len(t) = 1 -> d.state
                       [] Len(t) = 2 -> d.state \ {"onetap", "drag", "longpress"}
                       [] Len(t) = 3 -> d.state \ ({"twotap"} \cup TwoFinger)
                       [] OTHER -> {}
    BY <1>0 DEF Track, touch, Fields
  <2> HIDE DEF e, t
  <2>5. \A i \in 1 .. n : d.tracked[i].active
    BY <1>4 DEF Detector, Follows
  <2>6. \A i \in 1 .. n + 1 : t[i].active
    BY <1>0, <2>3, <2>5 DEF touch
  <2>7. ActiveIds(e) = ActiveIds(d) \cup {id}
    <3>1. DOMAIN t = 1 .. n + 1 /\ DOMAIN d.tracked = 1 .. n
      BY <1>0, <2>3
    <3>2. ActiveIds(e) = {t[i].id : i \in 1 .. n + 1}
      BY <2>4, <2>6, <3>1 DEF ActiveIds
    <3>3. ActiveIds(d) = {d.tracked[i].id : i \in 1 .. n}
      BY <2>5, <3>1 DEF ActiveIds
    <3>4. touch.id = id
      BY DEF touch
    <3>5. 1 .. n + 1 = (1 .. n) \cup {n + 1}
      BY <1>0
    <3> QED
      BY SMTT(30), <2>3, <3>2, <3>3, <3>4, <3>5
  <2>8. Follows(e, now)
    <3>1. id \notin d.ignored
      BY DEF Detector, Follows
    <3> QED
      BY <1>0, <2>3, <2>4, <2>6, <2>7, <3>1 DEF Detector, Follows, SomeActive
  <2>9. d.state \subseteq Taps \/ ~ Single(d.state)
    BY <1>0, <1>4, Detected
  <2>10. Possible(e)
    <3>1. e.tracked # <<>> /\ ~ e.waiting /\ Len(e.tracked) = n + 1
      BY <1>0, <1>4, <2>3, <2>4
    <3>2. CASE n = 0
      <4>1. d.state = AllGestures
        BY <1>0, <1>4, <3>2 DEF Detector, Possible
      <4>2. e.state = AllGestures /\ Len(e.tracked) = 1
        BY <2>3, <2>4, <3>1, <3>2, <4>1
      <4>3. e.state \in {AllGestures, {}} \/ Single(e.state)
        BY <4>2
      <4>4. Len(e.tracked) # 2 /\ Len(e.tracked) # 3 /\ ~ (Len(e.tracked) > 3)
        BY <4>2
      <4> QED
        BY <3>1, <4>3, <4>4 DEF Possible
    <3>3. CASE n = 1
      <4>1. e.state = d.state \ {"onetap", "drag", "longpress"}
        BY <2>3, <2>4, <3>3
      <4>2. d.state = AllGestures \/ d.state \subseteq Taps
        BY <1>4, <2>9, <3>3 DEF Detector, Possible
      <4>3. e.state \subseteq {"twotap", "threetap"} \cup TwoFinger
        BY <1>0, <4>1 DEF AllGestures, Taps, TwoFinger
      <4>4. TwoFinger \subseteq e.state \/ TwoFinger \cap e.state = {}
        BY <4>1, <4>2 DEF AllGestures, Taps, TwoFinger
      <4> QED
        BY <3>1, <3>3, <4>3, <4>4 DEF Possible
    <3>4. CASE n = 2
      <4>1. e.state = d.state \ ({"twotap"} \cup TwoFinger)
        BY <2>3, <2>4, <3>4
      <4>2. d.state \subseteq {"twotap", "threetap"} \cup TwoFinger
        BY <3>4 DEF Detector, Possible
      <4> QED
        BY <3>1, <3>4, <4>1, <4>2 DEF Possible
    <3>5. CASE n > 2
      <4>1. e.state = {}
        BY <1>0, <2>3, <2>4, <3>5
      <4> QED
        BY <1>0, <3>1, <3>5, <4>1 DEF Possible
    <3>6. n = 0 \/ n = 1 \/ n = 2 \/ n > 2
      <4> HIDE DEF n
      <4> QED
        BY <1>n
    <3> QED
      BY <3>2, <3>3, <3>4, <3>5, <3>6
  <2>11. Timers(e)
    <3>1. e.longpress <=> n = 0
      <4>1. (Len(t) = 1 <=> n = 0) /\ (Len(t) = 2 <=> n = 1) /\ (n = 1 => n # 0)
        <5>1. Len(t) = n + 1
          BY <2>3
        <5> HIDE DEF n
        <5> QED
          BY <1>n, <5>1
      <4>2. d.longpress => n = 1
        BY DEF Detector, Timers
      <4>3. e.longpress = ((Len(t) = 1) \/ (d.longpress /\ Len(t) # 2))
        BY <2>4
      <4> HIDE DEF n
      <4> QED
        BY <4>1, <4>2, <4>3, Zenon
    <3>2. CASE n = 0
      <4>1. d.state = AllGestures /\ e.state = d.state /\ d.twoTouch # "running"
        BY <1>0, <1>4, <2>3, <2>4, <3>2 DEF Detector, Possible, Timers
      <4> QED
        BY <1>4, <2>3, <2>4, <3>2, <4>1 DEF Timers
    <3>3. CASE n # 0
      <4>1. d.twoTouch = "running" => n > 1 /\ d.state \in {TwoFinger, {}}
        BY DEF Detector, Timers
      <4>2. n > 1 /\ d.state = TwoFinger => e.state = {}
        BY <1>0, <2>3, <2>4
      <4> QED
        BY <1>0, <1>4, <2>3, <2>4, <3>1, <3>3, <4>1, <4>2 DEF Timers
    <3> QED
      BY <3>2, <3>3
  <2>12. Shape(e)
    <3>1. e.state \subseteq d.state
      BY <2>4
    <3>2. e.longpress \in BOOLEAN
      BY <2>4
    <3> QED
      BY <1>0, <2>3, <2>4, <3>1, <3>2 DEF Shape
  <2> QED
    BY <2>1, <2>8, <2>10, <2>11, <2>12 DEF Detector
<1> QED
  BY <1>0, <1>2, <1>3, <1>4

\* Nothing that matters changes with the age of a touch or the way it has come.
LEMMA SameTouches ==
    ASSUME NEW d, NEW e, NEW touches, Detector(d, touches),
           DOMAIN e = Fields, e.state = d.state, e.ignored = d.ignored, e.waiting = d.waiting,
           e.longpress = d.longpress, e.twoTouch = d.twoTouch, e.threw = d.threw,
           e.tracked \in Seq(Touched), Len(e.tracked) = Len(d.tracked),
           \A i \in 1 .. Len(d.tracked) : e.tracked[i].id = d.tracked[i].id
                                              /\ e.tracked[i].active = d.tracked[i].active
    PROVE  Detector(e, touches)
<1>1. d.tracked \in Seq(Touched)
  BY DEF Detector, Shape
<1>2. ActiveIds(e) = ActiveIds(d)
  BY <1>1, SameActive
<1>3. e.tracked = <<>> <=> d.tracked = <<>>
  BY <1>1
<1>4. Shape(e)
  BY DEF Detector, Shape
<1>5. Follows(e, touches)
  BY <1>1, <1>2, <1>3 DEF Detector, Follows, SomeActive
<1>6. Possible(e) /\ Timers(e)
  BY <1>3 DEF Detector, Possible, Timers
<1> QED
  BY <1>4, <1>5, <1>6 DEF Detector

LEMMA TickedKeeps ==
    ASSUME NEW d, NEW touches, Detector(d, touches)
    PROVE  Detector(Ticked(d), touches)
<1> DEFINE e == Ticked(d)
           t == [i \in DOMAIN d.tracked |-> [d.tracked[i] EXCEPT !.age = Older(@)]]
<1>1. DOMAIN d = Fields /\ d.tracked \in Seq(Touched)
  BY DEF Detector, Shape
<1>2. DOMAIN d.tracked = 1 .. Len(d.tracked) /\ Len(d.tracked) \in Nat
  BY <1>1
<1>3. ASSUME NEW i \in 1 .. Len(d.tracked)
      PROVE  t[i] \in Touched /\ t[i].id = d.tracked[i].id /\ t[i].active = d.tracked[i].active
  <2>1. d.tracked[i] \in Touched
    BY <1>1
  <2>2. Older(d.tracked[i].age) \in 0 .. Old
    BY <2>1 DEF Touched, Older, Old
  <2>3. t[i] = [d.tracked[i] EXCEPT !.age = Older(@)]
    BY <1>2
  <2> QED
    BY <2>1, <2>2, <2>3 DEF Touched
<1>4. t \in Seq(Touched) /\ Len(t) = Len(d.tracked)
  <2>1. t = [i \in 1 .. Len(d.tracked) |-> t[i]]
    BY <1>2
  <2> HIDE DEF t
  <2>2. t \in [1 .. Len(d.tracked) -> Touched]
    BY <1>3, <2>1
  <2> QED
    BY <1>2, <2>2
<1>5. /\ DOMAIN e = Fields /\ e.state = d.state /\ e.ignored = d.ignored /\ e.waiting = d.waiting
      /\ e.longpress = d.longpress /\ e.twoTouch = d.twoTouch /\ e.threw = d.threw
  BY <1>1 DEF Ticked, Fields
<1>6. e.tracked = t
  <2>1. e = [d EXCEPT !.tracked = t, !.release = IF d.waiting THEN Older(@) ELSE @]
    BY DEF Ticked
  <2> HIDE DEF e, t
  <2> QED
    BY <1>1, <2>1 DEF Fields
<1> HIDE DEF e, t
<1>7. Detector(e, touches)
  BY <1>3, <1>4, <1>5, <1>6, SameTouches
<1> QED
  BY <1>7 DEF e

LEMMA LongpressKeeps ==
    ASSUME NEW d, NEW touches, Detector(d, touches), d.longpress
    PROVE  Detector(LongpressTimeout(d), touches)
<1> DEFINE m == [d EXCEPT !.longpress = FALSE, !.state = {"longpress"}]
<1>1. Len(d.tracked) = 1 /\ ~ d.waiting /\ d.state \in {AllGestures, {}} /\ d.twoTouch # "running"
  BY DEF Detector, Timers
<1>2. d.tracked # <<>> /\ ~ HasDetectedGesture(d)
  <2>1. d.state \subseteq AllGestures /\ d.tracked \in Seq(Touched)
    BY DEF Detector, Shape
  <2>2. ~ Single(d.state)
    BY <1>1, NotSingle
  <2>3. d.tracked # <<>>
    BY SMTT(30), <1>1, <2>1
  <2> QED
    BY <2>1, <2>2, <2>3, Detected
<1>3. LongpressTimeout(d) = PushEvent(m, "gesturestart")
  BY <1>2 DEF LongpressTimeout
<1>4. DOMAIN d = Fields
  BY DEF Detector, Shape
<1>5. /\ DOMAIN m = Fields /\ m.state = {"longpress"} /\ m.tracked = d.tracked /\ m.ignored = d.ignored
      /\ m.waiting = d.waiting /\ m.longpress = FALSE /\ m.twoTouch = d.twoTouch /\ m.threw = d.threw
  BY <1>4 DEF Fields
<1> HIDE DEF m
<1>6. m.state \subseteq AllGestures /\ Single(m.state)
  BY <1>5 DEF AllGestures, Single
<1>7. Shape(m)
  BY <1>5, <1>6 DEF Detector, Shape
<1>8. ActiveIds(m) = ActiveIds(d)
  BY <1>5 DEF ActiveIds
<1>9. Follows(m, touches)
  BY <1>5, <1>8 DEF Detector, Follows, SomeActive
<1>10. Possible(m) /\ Timers(m)
  <2>1. m.tracked # <<>> /\ Len(m.tracked) = 1 /\ ~ m.waiting /\ m.twoTouch # "running" /\ ~ m.longpress
    BY <1>1, <1>2, <1>5
  <2> QED
    BY <2>1, <1>6 DEF Possible, Timers
<1>11. Detector(m, touches)
  BY <1>7, <1>9, <1>10 DEF Detector
<1> QED
  BY <1>3, <1>5, <1>11, PushAlike, AlikeKept

LEMMA TwoTouchKeeps ==
    ASSUME NEW d, NEW touches, Detector(d, touches), d.twoTouch = "running", NEW verdict \in TwoFinger
    PROVE  Detector(TwoTouchTimeout(d, verdict), touches)
<1> DEFINE m == [d EXCEPT !.twoTouch = "fired", !.state = {verdict}]
<1>1. Len(d.tracked) > 1 /\ ~ d.longpress /\ Len(d.tracked) \in Nat
  BY DEF Detector, Timers, Shape
<1>2. d.tracked # <<>>
  BY <1>1
<1>3. TwoTouchTimeout(d, verdict) = PushEvent(PushEvent(m, "gesturestart"), "gesturemove")
  BY <1>2 DEF TwoTouchTimeout
<1>4. DOMAIN d = Fields
  BY DEF Detector, Shape
<1>5. /\ DOMAIN m = Fields /\ m.state = {verdict} /\ m.tracked = d.tracked /\ m.ignored = d.ignored
      /\ m.waiting = d.waiting /\ m.longpress = d.longpress /\ m.twoTouch = "fired" /\ m.threw = d.threw
  BY <1>4 DEF Fields
<1> HIDE DEF m
<1>6. m.state \subseteq AllGestures /\ Single(m.state) /\ m.state \subseteq TwoFinger
  BY <1>5 DEF AllGestures, Single
<1>7. Shape(m)
  BY <1>5, <1>6 DEF Detector, Shape
<1>8. ActiveIds(m) = ActiveIds(d)
  BY <1>5 DEF ActiveIds
<1>9. Follows(m, touches)
  BY <1>5, <1>8 DEF Detector, Follows, SomeActive
<1>10. Possible(m)
  <2>1. m.tracked # <<>> /\ Len(m.tracked) # 1
    <3>1. \A k \in Nat : k > 1 => k # 1
      OBVIOUS
    <3> QED
      BY <1>1, <1>2, <1>5, <3>1, Zenon
  <2> QED
    BY <2>1, <1>6 DEF Possible
<1>11. Timers(m)
  BY <1>1, <1>5 DEF Timers
<1>12. Detector(m, touches)
  BY <1>7, <1>9, <1>10, <1>11 DEF Detector
<1>13. /\ Alike(m, PushEvent(m, "gesturestart")) /\ DOMAIN PushEvent(m, "gesturestart") = Fields
       /\ Alike(PushEvent(m, "gesturestart"), PushEvent(PushEvent(m, "gesturestart"), "gesturemove"))
  BY <1>5, PushAlike
<1>14. Detector(PushEvent(m, "gesturestart"), touches)
  BY <1>12, <1>13, AlikeKept
<1> QED
  BY <1>3, <1>13, <1>14, AlikeKept

\* What is decided about a detector with so many touches.
LEMMA Undecided ==
    ASSUME NEW d, NEW touches, Detector(d, touches), d.tracked # <<>>, ~ HasDetectedGesture(d)
    PROVE  d.state \subseteq Taps \/ ~ Single(d.state)
<1>1. d.state \subseteq AllGestures /\ SomeActive(d)
  BY DEF Detector, Shape, Follows
<1> QED
  BY <1>1, Detected

LEMMA MovedKeeps ==
    ASSUME NEW d, NEW touches, Detector(d, touches), NEW id, NEW far \in BOOLEAN
    PROVE  Detector(Moved(d, id, far), touches)
<1> DEFINE t == [i \in DOMAIN d.tracked |->
                    IF d.tracked[i].id = id THEN [d.tracked[i] EXCEPT !.far = far] ELSE d.tracked[i]]
           e == Moved(d, id, far)
<1>1. DOMAIN d = Fields /\ d.tracked \in Seq(Touched)
  BY DEF Detector, Shape
<1>2. DOMAIN d.tracked = 1 .. Len(d.tracked) /\ Len(d.tracked) \in Nat
  BY <1>1
<1>3. ASSUME NEW i \in 1 .. Len(d.tracked)
      PROVE  t[i] \in Touched /\ t[i].id = d.tracked[i].id /\ t[i].active = d.tracked[i].active
  <2>1. d.tracked[i] \in Touched
    BY <1>1
  <2>2. t[i] = IF d.tracked[i].id = id THEN [d.tracked[i] EXCEPT !.far = far] ELSE d.tracked[i]
    BY <1>2
  <2> QED
    BY <2>1, <2>2 DEF Touched
<1>4. t \in Seq(Touched) /\ Len(t) = Len(d.tracked)
  <2>1. t = [i \in 1 .. Len(d.tracked) |-> t[i]]
    BY <1>2
  <2> HIDE DEF t
  <2>2. t \in [1 .. Len(d.tracked) -> Touched]
    BY <1>3, <2>1
  <2> QED
    BY <1>2, <2>2
<1>5. e = [d EXCEPT !.tracked = t]
  BY DEF Moved
<1> HIDE DEF t, e
<1>6. /\ DOMAIN e = Fields /\ e.state = d.state /\ e.ignored = d.ignored /\ e.waiting = d.waiting
      /\ e.longpress = d.longpress /\ e.twoTouch = d.twoTouch /\ e.threw = d.threw /\ e.tracked = t
  BY <1>1, <1>5 DEF Fields
<1>7. Detector(e, touches)
  BY <1>3, <1>4, <1>6, SameTouches
<1> QED
  BY <1>7 DEF e

\* What a movement past the threshold leaves possible.
LEMMA MoveLeaves ==
    ASSUME NEW d, NEW touches, Detector(d, touches), d.tracked # <<>>, ~ HasDetectedGesture(d)
    PROVE  LET S == d.state \ RuledOut(d)
           IN  IF Len(d.tracked) = 1 THEN S = {} \/ Single(S)
               ELSE IF Len(d.tracked) = 2 THEN S \in {{}, TwoFinger}
               ELSE S = {}
<1> DEFINE S == d.state \ RuledOut(d)
           n == Len(d.tracked)
<1>1. d.state \subseteq Taps \/ ~ Single(d.state)
  BY Undecided
<1>2. n \in Nat /\ n # 0
  BY DEF Detector, Shape
<1>3. CASE n = 1
  <2>1. RuledOut(d) = Taps \cup {"longpress"} \cup TwoFinger
    BY <1>3 DEF RuledOut
  <2>2. d.state \subseteq AllGestures
    BY DEF Detector, Shape
  <2>3. S \subseteq {"drag"}
    BY <2>1, <2>2 DEF AllGestures
  <2>4. S = {} \/ Single(S)
    BY <2>3, SingleOf DEF AllGestures
  <2> QED
    BY <1>3, <2>4
<1>4. CASE n = 2
  <2>1. RuledOut(d) = Taps \cup {"longpress", "drag"}
    BY <1>4 DEF RuledOut
  <2>2. /\ d.state \subseteq {"twotap", "threetap"} \cup TwoFinger
        /\ Single(d.state) \/ TwoFinger \subseteq d.state \/ TwoFinger \cap d.state = {}
    BY <1>4 DEF Detector, Possible
  <2>3. S \subseteq TwoFinger /\ S = d.state \cap TwoFinger
    BY <2>1, <2>2 DEF Taps, TwoFinger
  <2>4. d.state \subseteq Taps => S = {}
    BY <2>1
  <2>5. S \in {{}, TwoFinger}
    BY <1>1, <2>2, <2>3, <2>4
  <2> QED
    BY <1>4, <2>5
<1>5. CASE n > 2
  <2>1. n # 1 /\ n # 2
    <3> HIDE DEF n
    <3> QED
      BY <1>2, <1>5
  <2>2. RuledOut(d) = Taps \cup {"longpress", "drag"} \cup TwoFinger
    BY <2>1 DEF RuledOut
  <2>3. d.state \subseteq AllGestures
    BY DEF Detector, Shape
  <2>4. S = {}
    BY <2>2, <2>3 DEF AllGestures
  <2> QED
    BY <2>1, <2>4
<1>6. n = 1 \/ n = 2 \/ n > 2
  <2> HIDE DEF n
  <2> QED
    BY <1>2
<1> QED
  BY <1>3, <1>4, <1>5, <1>6

LEMMA TouchMoveKeeps ==
    ASSUME NEW d, NEW touches, Detector(d, touches), NEW id, NEW far \in BOOLEAN,
           NEW verdict \in TwoFinger
    PROVE  Detector(TouchMove(d, id, far, verdict), touches)
<1> DEFINE m == Moved(d, id, far)
           low == [m EXCEPT !.state = @ \ RuledOut(m), !.longpress = FALSE]
           told == Tell(low, id, verdict)
<1>1. Detector(m, touches) /\ DOMAIN m = Fields
  <2>1. Detector(m, touches)
    BY MovedKeeps
  <2> HIDE DEF m
  <2> QED
    BY <2>1 DEF Detector, Shape
<1>2. CASE id \notin TrackedIds(d)
  BY <1>2 DEF TouchMove
<1>3. CASE id \in TrackedIds(d) /\ HasDetectedGesture(d)
  <2>1. TouchMove(d, id, far, verdict) = PushEvent(m, "gesturemove")
    BY <1>3 DEF TouchMove
  <2> HIDE DEF m
  <2> QED
    BY <1>1, <2>1, PushAlike, AlikeKept
<1>4. CASE id \in TrackedIds(d) /\ ~ HasDetectedGesture(d) /\ ~ far
  BY <1>1, <1>4 DEF TouchMove
<1>5. CASE id \in TrackedIds(d) /\ ~ HasDetectedGesture(d) /\ far
  <2>1. /\ m.state = d.state /\ Len(m.tracked) = Len(d.tracked) /\ m.tracked # <<>>
        /\ ~ HasDetectedGesture(m)
    <3>1. DOMAIN d = Fields /\ d.tracked \in Seq(Touched)
      BY DEF Detector, Shape
    <3>2. m.state = d.state
      BY <3>1 DEF Moved, Fields
    <3>3. DOMAIN m.tracked = DOMAIN d.tracked
      BY <3>1 DEF Moved, Fields
    <3>4. m.tracked \in Seq(Touched)
      BY <1>1 DEF Detector, Shape
    <3>5. d.tracked # <<>>
      BY <1>5 DEF TrackedIds
    <3>6. Len(m.tracked) = Len(d.tracked) /\ m.tracked # <<>>
      BY <3>1, <3>3, <3>4, <3>5
    <3>7. d.state \subseteq AllGestures /\ SomeActive(d) /\ SomeActive(m)
      BY <1>1, <3>5, <3>6 DEF Detector, Shape, Follows
    <3> HIDE DEF m
    <3>8. ~ HasDetectedGesture(m)
      BY <1>5, <3>2, <3>7, Detected
    <3> QED
      BY <3>2, <3>6, <3>8
  <2>2. TouchMove(d, id, far, verdict) = IF HasDetectedGesture(told)
                      THEN PushEvent(PushEvent(told, "gesturestart"), "gesturemove")
                      ELSE told
    BY <1>5 DEF TouchMove
  <2> HIDE DEF m
  <2>3. /\ DOMAIN low = Fields /\ low.state = m.state \ RuledOut(m) /\ low.longpress = FALSE
        /\ low.tracked = m.tracked /\ low.ignored = m.ignored /\ low.waiting = m.waiting
        /\ low.twoTouch = m.twoTouch /\ low.threw = m.threw
    BY <1>1 DEF Fields
  <2> HIDE DEF low
  <2>4. /\ DOMAIN told = Fields /\ told.longpress = FALSE
        /\ told.tracked = m.tracked /\ told.ignored = m.ignored /\ told.waiting = m.waiting
        /\ told.threw = m.threw
    BY <2>3 DEF Tell, Fields
  <2>5. /\ Len(m.tracked) # 2 => told.state = low.state /\ told.twoTouch = low.twoTouch
        /\ Len(m.tracked) = 2 =>
              \/ told.state = low.state \ (TwoFinger \ {verdict}) /\ told.twoTouch = "none"
              \/ /\ told.state = low.state
                 /\ told.twoTouch = IF low.twoTouch = "none" THEN "running" ELSE low.twoTouch
    BY <2>3 DEF Tell, Fields
  <2> HIDE DEF told
  <2>6. IF Len(m.tracked) = 1 THEN low.state = {} \/ Single(low.state)
        ELSE IF Len(m.tracked) = 2 THEN low.state \in {{}, TwoFinger}
        ELSE low.state = {}
    BY <1>1, <2>1, <2>3, MoveLeaves
  <2>7. told.state \subseteq m.state
    BY <2>3, <2>5
  <2>8. Shape(told)
    <3>1. told.twoTouch \in {"none", "running", "fired"}
      BY <1>1, <2>3, <2>5 DEF Detector, Shape
    <3> QED
      BY <1>1, <2>4, <2>7, <3>1 DEF Detector, Shape
  <2>9. Follows(told, touches)
    <3>1. ActiveIds(told) = ActiveIds(m)
      BY <2>4 DEF ActiveIds
    <3> QED
      BY <1>1, <2>4, <3>1 DEF Detector, Follows, SomeActive
  <2>10. told.state \in {{}, TwoFinger} \/ Single(told.state)
    <3>1. CASE Len(m.tracked) = 2
      <4>1. low.state \in {{}, TwoFinger}
        BY <2>6, <3>1
      <4>2. CASE told.state = low.state
        BY <4>1, <4>2
      <4>3. CASE told.state = low.state \ (TwoFinger \ {verdict})
        <5>1. told.state \subseteq {verdict}
          BY <4>1, <4>3
        <5> QED
          BY <5>1, SingleOf DEF AllGestures
      <4> QED
        BY <2>5, <3>1, <4>2, <4>3
    <3>2. CASE Len(m.tracked) # 2
      BY <2>5, <2>6, <3>2
    <3> QED
      BY <3>1, <3>2
  <2>11. Possible(told)
    <3>1. told.tracked # <<>>
      BY <2>1, <2>4
    <3>2. Len(m.tracked) = 1 => told.state = {} \/ Single(told.state)
      BY <2>5, <2>6
    <3>3. Len(m.tracked) = 2 => told.state \subseteq TwoFinger
      BY <2>5, <2>6
    <3>4. m.waiting => told.state = {} \/ Single(told.state)
      BY <1>1, <2>7, SinglePart DEF Detector, Possible
    <3>5. /\ Len(m.tracked) = 3 => told.state \subseteq {"threetap"} \cup TwoFinger
          /\ Len(m.tracked) > 3 => told.state \subseteq TwoFinger
      BY <1>1, <2>7 DEF Detector, Possible
    <3>6. Single(told.state) \/ TwoFinger \subseteq told.state \/ TwoFinger \cap told.state = {}
      BY <2>10
    <3> QED
      BY <2>4, <3>1, <3>2, <3>3, <3>4, <3>5, <3>6 DEF Possible
  <2>12. Timers(told)
    <3>1. ASSUME told.twoTouch = "running"
          PROVE  Len(m.tracked) > 1 /\ told.state \in {TwoFinger, {}}
      <4>1. CASE Len(m.tracked) = 2
        BY <2>5, <2>6, <3>1, <4>1
      <4>2. CASE Len(m.tracked) # 2
        <5>1. m.twoTouch = "running"
          BY <2>3, <2>5, <3>1, <4>2
        <5>2. Len(m.tracked) > 1 /\ Len(m.tracked) \in Nat
          BY <1>1, <5>1 DEF Detector, Timers, Shape
        <5>3. Len(m.tracked) # 1
          <6>1. \A k \in Nat : k > 1 => k # 1
            OBVIOUS
          <6> QED
            BY <5>2, <6>1, Zenon
        <5> QED
          BY <2>5, <2>6, <4>2, <5>2, <5>3
      <4> QED
        BY <4>1, <4>2
    <3> QED
      BY <2>4, <3>1 DEF Timers
  <2>13. Detector(told, touches)
    BY <2>8, <2>9, <2>11, <2>12 DEF Detector
  <2>14. /\ Alike(told, PushEvent(told, "gesturestart")) /\ DOMAIN PushEvent(told, "gesturestart") = Fields
         /\ Alike(PushEvent(told, "gesturestart"), PushEvent(PushEvent(told, "gesturestart"), "gesturemove"))
    BY <2>4, PushAlike
  <2>15. Detector(PushEvent(told, "gesturestart"), touches)
    BY <2>13, <2>14, AlikeKept
  <2> QED
    BY <2>2, <2>13, <2>14, <2>15, AlikeKept
<1> QED
  BY <1>2, <1>3, <1>4, <1>5

\* Any end that is not followed by more of the same gesture: what is down is
\* ignored, and with nothing down the detector starts again.
LEMMA FinishKeeps ==
    ASSUME NEW d, NEW id, NEW touches, DOMAIN d = Fields, d.waiting \in BOOLEAN,
           d.longpress = FALSE, d.twoTouch \in {"none", "fired"}, d.threw = FALSE,
           touches = (ActiveIds(d) \cup d.ignored) \ {id}
    PROVE  Detector(Finish(d, id), touches)
<1> DEFINE e == Finish(d, id)
<1>1. /\ DOMAIN e = Fields /\ e.tracked = <<>> /\ e.ignored = touches /\ e.longpress = FALSE
      /\ e.twoTouch = d.twoTouch /\ e.threw = FALSE
      /\ touches = {} => e.state = AllGestures /\ e.waiting = FALSE
      /\ touches # {} => e.state = {} /\ e.waiting = d.waiting
  <2> DEFINE f == [Dead(d) EXCEPT !.tracked = <<>>, !.ignored = (@ \cup ActiveIds(d)) \ {id}]
  <2>1. e = ResetIfAlone(f)
    BY DEF Finish
  <2>2. /\ DOMAIN f = Fields /\ f.tracked = <<>> /\ f.ignored = touches /\ f.longpress = FALSE
        /\ f.twoTouch = d.twoTouch /\ f.threw = FALSE /\ f.state = {} /\ f.waiting = d.waiting
    BY DEF Dead, Fields
  <2> HIDE DEF e, f
  <2> QED
    BY <2>1, <2>2 DEF ResetIfAlone, Fields
<1> HIDE DEF e
<1>2. ActiveIds(e) = {} /\ Len(e.tracked) = 0
  BY <1>1 DEF ActiveIds
<1>3. Shape(e)
  <2>1. e.tracked \in Seq(Touched)
    BY <1>1
  <2>2. e.state \subseteq AllGestures /\ e.waiting \in BOOLEAN
    BY <1>1
  <2> QED
    BY <1>1, <2>1, <2>2 DEF Shape
<1>4. Follows(e, touches)
  BY <1>1, <1>2 DEF Follows
<1>5. Possible(e)
  BY <1>1, <1>2 DEF Possible
<1>6. Timers(e)
  BY <1>1 DEF Timers
<1>7. Detector(e, touches)
  BY <1>3, <1>4, <1>5, <1>6 DEF Detector
<1> QED
  BY <1>7 DEF e

\* The end of a touch that was only waited for.
LEMMA IgnoredEndKeeps ==
    ASSUME NEW d, NEW touches, Detector(d, touches), NEW id \in d.ignored
    PROVE  Detector(ResetIfAlone([d EXCEPT !.ignored = @ \ {id}]), touches \ {id})
<1> DEFINE f == [d EXCEPT !.ignored = @ \ {id}]
           e == ResetIfAlone(f)
<1>1. DOMAIN d = Fields /\ d.state \subseteq AllGestures /\ d.tracked \in Seq(Touched)
  BY DEF Detector, Shape
<1>2. /\ DOMAIN f = Fields /\ f.state = d.state /\ f.tracked = d.tracked /\ f.waiting = d.waiting
      /\ f.ignored = d.ignored \ {id} /\ f.longpress = d.longpress /\ f.twoTouch = d.twoTouch
      /\ f.threw = d.threw
  BY <1>1 DEF Fields
<1>3. CASE d.ignored \ {id} = {} /\ d.tracked = <<>>
  <2>1. e = [f EXCEPT !.state = AllGestures, !.waiting = FALSE]
    <3> HIDE DEF f
    <3> QED
      BY <1>2, <1>3 DEF ResetIfAlone
  <2> HIDE DEF e, f
  <2>2. /\ DOMAIN e = Fields /\ e.state = AllGestures /\ e.tracked = <<>> /\ e.waiting = FALSE
        /\ e.ignored = {} /\ e.longpress = d.longpress /\ e.twoTouch = d.twoTouch /\ e.threw = d.threw
    BY <1>2, <1>3, <2>1 DEF Fields
  <2>3. ActiveIds(e) = {} /\ ActiveIds(d) = {} /\ Len(e.tracked) = 0 /\ Len(d.tracked) = 0
    BY <1>3, <2>2 DEF ActiveIds
  <2>4. d.longpress = FALSE /\ d.twoTouch # "running"
    BY <2>3 DEF Detector, Timers, Shape
  <2>5. Shape(e)
    <3>1. d.twoTouch \in {"none", "running", "fired"} /\ d.threw = FALSE
      BY DEF Detector, Shape
    <3>2. e.tracked \in Seq(Touched)
      BY <2>2
    <3> QED
      BY <2>2, <2>4, <3>1, <3>2 DEF Shape
  <2>6. Follows(e, touches \ {id})
    BY <1>3, <2>2, <2>3 DEF Detector, Follows
  <2>7. Possible(e)
    BY <2>2, <2>3 DEF Possible
  <2>8. Timers(e)
    BY <2>2, <2>4 DEF Timers
  <2>9. Detector(e, touches \ {id})
    BY <2>5, <2>6, <2>7, <2>8 DEF Detector
  <2> QED
    BY <2>9 DEF e, f
<1>4. CASE ~ (d.ignored \ {id} = {} /\ d.tracked = <<>>)
  <2>1. e = f
    <3> HIDE DEF f
    <3> QED
      BY <1>2, <1>4 DEF ResetIfAlone
  <2> HIDE DEF e, f
  <2>2. ActiveIds(f) = ActiveIds(d)
    BY <1>2 DEF ActiveIds
  <2>3. Shape(f)
    BY <1>1, <1>2 DEF Detector, Shape
  <2>4. Follows(f, touches \ {id})
    <3>1. id \notin ActiveIds(d)
      BY DEF Detector, Follows
    <3> QED
      BY <1>2, <2>2, <3>1 DEF Detector, Follows, SomeActive
  <2>5. d.tracked = <<>> => d.state = {} /\ f.ignored # {}
    BY <1>2, <1>4 DEF Detector, Possible
  <2>6. Possible(f) /\ Timers(f)
    BY <1>2, <2>5 DEF Detector, Possible, Timers
  <2>7. Detector(e, touches \ {id})
    BY <2>1, <2>3, <2>4, <2>6 DEF Detector
  <2> QED
    BY <2>7 DEF e, f
<1> QED
  BY <1>3, <1>4

\* An end rules out what is not a tap of as many fingers as there were.
LEMMA ReleaseLeaves ==
    ASSUME NEW d, NEW touches, Detector(d, touches), d.tracked # <<>>, ~ HasDetectedGesture(d),
           NEW S, S \subseteq d.state \ (TwoFinger \cup {"drag", "longpress"}),
           ~ d.waiting /\ Len(d.tracked) = 1 => S \cap {"twotap", "threetap"} = {},
           ~ d.waiting /\ Len(d.tracked) = 2 => S \cap {"onetap", "threetap"} = {}
    PROVE  S \subseteq Taps /\ (S = {} \/ Single(S))
<1> DEFINE n == Len(d.tracked)
<1>1. d.state \subseteq AllGestures /\ n \in Nat /\ n # 0 /\ d.waiting \in BOOLEAN
  BY DEF Detector, Shape
<1>2. S \subseteq Taps
  BY <1>1 DEF AllGestures
<1>3. CASE d.waiting
  BY <1>2, <1>3, SinglePart DEF Detector, Possible
<1>4. CASE ~ d.waiting /\ n = 1
  <2>1. S \subseteq {"onetap"}
    BY <1>2, <1>4 DEF Taps
  <2> QED
    BY <1>2, <2>1, SingleOf DEF AllGestures, Taps
<1>5. CASE ~ d.waiting /\ n = 2
  <2>1. S \subseteq {"twotap"}
    BY <1>2, <1>5 DEF Taps
  <2> QED
    BY <1>2, <2>1, SingleOf DEF AllGestures, Taps
<1>6. CASE n = 3
  <2>1. S \subseteq {"threetap"}
    BY <1>6 DEF Detector, Possible
  <2> QED
    BY <1>2, <2>1, SingleOf DEF AllGestures, Taps
<1>7. CASE n > 3
  <2>1. S = {}
    BY <1>7 DEF Detector, Possible
  <2> QED
    BY <2>1
<1>8. n = 1 \/ n = 2 \/ n = 3 \/ n > 3
  <2> HIDE DEF n
  <2> QED
    BY <1>1
<1> QED
  BY <1>1, <1>3, <1>4, <1>5, <1>6, <1>7, <1>8

\* Releasing a touch of which the detector has been told to let go.
Released(d, id) == Release(BeginRelease(EndBeforeTimer(d)), id)

LEMMA ReleasedShape ==
    ASSUME NEW d, NEW touches, Detector(d, touches), d.tracked # <<>>, NEW id
    PROVE  LET r == Released(d, id)
           IN  /\ DOMAIN r = Fields /\ r.ignored = d.ignored /\ r.threw = FALSE /\ r.waiting \in BOOLEAN
               /\ r.longpress = FALSE /\ r.twoTouch \in {"none", "fired"}
               /\ r.tracked \in Seq(Touched) /\ Len(r.tracked) = Len(d.tracked)
               /\ r.state \subseteq d.state
               /\ ActiveIds(r) \ {id} = ActiveIds(d) \ {id}
               /\ r.waiting => id \notin ActiveIds(r)
               /\ HasDetectedGesture(d) => r.state \in {d.state, {}}
               /\ ~ HasDetectedGesture(d) =>
                     /\ r.waiting /\ r.twoTouch = "none"
                     /\ r.state \subseteq Taps /\ (r.state = {} \/ Single(r.state))
<1> DEFINE b0 == EndBeforeTimer(d)
           b == BeginRelease(b0)
           r == Released(d, id)
<1>1. /\ DOMAIN d = Fields /\ d.state \subseteq AllGestures /\ d.tracked \in Seq(Touched)
      /\ d.waiting \in BOOLEAN /\ d.longpress \in BOOLEAN /\ d.threw = FALSE
      /\ d.twoTouch \in {"none", "running", "fired"}
  BY DEF Detector, Shape
<1>2. SomeActive(d)
  BY DEF Detector, Follows
<1>3. /\ DOMAIN b0 = Fields /\ b0.tracked = d.tracked /\ b0.ignored = d.ignored
      /\ b0.waiting = d.waiting /\ b0.longpress = d.longpress /\ b0.threw = d.threw
      /\ HasDetectedGesture(d) => b0 = d
      /\ ~ HasDetectedGesture(d) => b0.twoTouch = "none" /\ b0.state \in {d.state, {}}
  BY <1>1 DEF EndBeforeTimer, Dead, Fields
<1> HIDE DEF b0
<1>4. HasDetectedGesture(b0) <=> HasDetectedGesture(d)
  <2>1. ActiveIds(b0) = ActiveIds(d)
    BY <1>3 DEF ActiveIds
  <2>2. CASE HasDetectedGesture(d)
    BY <1>3, <2>2
  <2>3. CASE ~ HasDetectedGesture(d)
    <3>1. b0.state \subseteq AllGestures /\ b0.state \in {d.state, {}} /\ SomeActive(b0)
      BY <1>1, <1>2, <1>3, <2>1, <2>3 DEF SomeActive
    <3>2. HasDetectedGesture(b0) => Single(b0.state) /\ ~ (b0.state \subseteq Taps)
      BY <3>1, Detected
    <3>3. ~ (Single(d.state) /\ ~ (d.state \subseteq Taps))
      BY <1>1, <1>2, <2>3, Detected
    <3> QED
      BY <2>3, <3>1, <3>2, <3>3, NotSingle
  <2> QED
    BY <2>2, <2>3
<1>5. /\ HasDetectedGesture(d) => b = d
      /\ DOMAIN b = Fields /\ b.tracked = d.tracked /\ b.ignored = d.ignored
      /\ b.threw = FALSE /\ b.waiting \in BOOLEAN
  BY <1>1, <1>3, <1>4 DEF BeginRelease, Fields
<1>6. ASSUME ~ HasDetectedGesture(d)
      PROVE  /\ b.waiting = TRUE /\ b.longpress = FALSE /\ b.twoTouch = "none"
             /\ b.state \subseteq d.state
             /\ b.state \subseteq Taps /\ (b.state = {} \/ Single(b.state))
  <2> DEFINE others == IF d.waiting THEN {}
                       ELSE IF Len(d.tracked) = 1 THEN {"twotap", "threetap"}
                       ELSE IF Len(d.tracked) = 2 THEN {"onetap", "threetap"} ELSE {}
  <2>1. /\ b.waiting = TRUE /\ b.longpress = FALSE /\ b.twoTouch = b0.twoTouch
        /\ b.state = b0.state \ (TwoFinger \cup {"drag", "longpress"} \cup others)
    BY <1>3, <1>4, <1>6 DEF BeginRelease, Fields
  <2> HIDE DEF b
  <2>2. b0.state \subseteq d.state /\ b0.twoTouch = "none"
    BY <1>3, <1>6
  <2>3. /\ b.state \subseteq d.state \ (TwoFinger \cup {"drag", "longpress"})
        /\ b.state \cap others = {}
    BY <2>1, <2>2
  <2>4. /\ ~ d.waiting /\ Len(d.tracked) = 1 => b.state \cap {"twotap", "threetap"} = {}
        /\ ~ d.waiting /\ Len(d.tracked) = 2 => b.state \cap {"onetap", "threetap"} = {}
    BY SMTT(30), <2>3
  <2> HIDE DEF others
  <2>5. b.state \subseteq Taps /\ (b.state = {} \/ Single(b.state))
    BY <1>6, <2>3, <2>4, ReleaseLeaves
  <2> QED
    BY <2>1, <2>2, <2>3, <2>5
<1>7. b.longpress = FALSE /\ b.twoTouch \in {"none", "fired"} /\ b.state \subseteq d.state
  <2>1. CASE HasDetectedGesture(d)
    <3>1. Single(d.state)
      BY <1>1, <2>1, Detected
    <3>2. ~ (d.state \in {AllGestures, {}}) /\ ~ (d.state \in {TwoFinger, {}})
      BY <3>1, NotSingle
    <3>3. d.longpress = FALSE /\ d.twoTouch # "running"
      BY <1>1, <3>2 DEF Detector, Timers
    <3> QED
      BY <1>1, <1>5, <2>1, <3>3
  <2>2. CASE ~ HasDetectedGesture(d)
    BY <1>6, <2>2
  <2> QED
    BY <2>1, <2>2
<1>8. r = Release(b, id)
  BY DEF Released, b0
<1> HIDE DEF b, r
<1>9. /\ DOMAIN r = Fields /\ r.ignored = b.ignored /\ r.threw = b.threw /\ r.waiting = b.waiting
      /\ r.longpress = b.longpress /\ r.twoTouch = b.twoTouch /\ r.state \in {b.state, {}}
  BY <1>5, <1>8 DEF Release, Fields
<1>10. /\ r.tracked \in Seq(Touched) /\ Len(r.tracked) = Len(d.tracked)
       /\ ActiveIds(r) \ {id} = ActiveIds(d) \ {id}
       /\ r.waiting => id \notin ActiveIds(r)
  <2>1. CASE ~ b.waiting
    <3>1. r = b
      BY <1>8, <2>1 DEF Release
    <3>2. ActiveIds(b) = ActiveIds(d)
      BY <1>5 DEF ActiveIds
    <3> QED
      BY <1>1, <1>5, <2>1, <3>1, <3>2
  <2>2. CASE b.waiting
    <3> DEFINE t == [i \in DOMAIN d.tracked |->
                        IF d.tracked[i].id = id THEN [d.tracked[i] EXCEPT !.active = FALSE]
                        ELSE d.tracked[i]]
    <3>1. r.tracked = t
      BY <1>5, <1>8, <2>2 DEF Release, Fields
    <3>2. DOMAIN d.tracked = 1 .. Len(d.tracked) /\ Len(d.tracked) \in Nat
      BY <1>1
    <3>3. ASSUME NEW i \in 1 .. Len(d.tracked)
          PROVE  /\ t[i] \in Touched /\ t[i].id = d.tracked[i].id
                 /\ t[i].active <=> d.tracked[i].active /\ d.tracked[i].id # id
      <4>1. d.tracked[i] \in Touched
        BY <1>1
      <4>2. t[i] = IF d.tracked[i].id = id THEN [d.tracked[i] EXCEPT !.active = FALSE]
                   ELSE d.tracked[i]
        BY <3>2
      <4>3. CASE d.tracked[i].id = id
        <5>1. t[i] = [d.tracked[i] EXCEPT !.active = FALSE]
          BY <4>2, <4>3
        <5>2. t[i] \in Touched /\ t[i].id = d.tracked[i].id /\ t[i].active = FALSE
          BY <4>1, <5>1 DEF Touched
        <5> QED
          BY <4>3, <5>2
      <4>4. CASE d.tracked[i].id # id
        <5>1. t[i] = d.tracked[i]
          BY <4>2, <4>4
        <5> HIDE DEF t
        <5> QED
          BY <4>1, <4>4, <5>1, Zenon
      <4> QED
        BY <4>3, <4>4
    <3>4. t \in Seq(Touched) /\ Len(t) = Len(d.tracked)
      <4>1. t = [i \in 1 .. Len(d.tracked) |-> t[i]]
        BY <3>2
      <4> HIDE DEF t
      <4>2. t \in [1 .. Len(d.tracked) -> Touched]
        BY <3>3, <4>1
      <4> QED
        BY <3>2, <4>2
    <3> HIDE DEF t
    <3>5. DOMAIN t = DOMAIN d.tracked
      BY <3>2, <3>4
    <3>6. ActiveIds(r) = ActiveIds(d) \ {id}
      BY <3>1, <3>2, <3>3, <3>5 DEF ActiveIds
    <3> QED
      BY <3>1, <3>4, <3>6
  <2> QED
    BY <2>1, <2>2
<1>11. HasDetectedGesture(d) => r.state \in {d.state, {}}
  BY <1>5, <1>9
<1>12. r.state \subseteq d.state
  BY <1>7, <1>9
<1>13. ASSUME ~ HasDetectedGesture(d)
       PROVE  /\ r.waiting /\ r.twoTouch = "none"
              /\ r.state \subseteq Taps /\ (r.state = {} \/ Single(r.state))
  BY <1>6, <1>9, <1>13
<1>14. /\ r.ignored = d.ignored /\ r.threw = FALSE /\ r.waiting \in BOOLEAN /\ r.longpress = FALSE
       /\ r.twoTouch \in {"none", "fired"} /\ DOMAIN r = Fields
  BY <1>5, <1>7, <1>9
<1> QED
  BY <1>10, <1>11, <1>12, <1>13, <1>14 DEF r

LEMMA TouchEndKeeps ==
    ASSUME NEW d, NEW touches, Detector(d, touches), NEW id \in touches
    PROVE  Detector(TouchEnd(d, id), touches \ {id})
<1>1. CASE id \in d.ignored
  <2>1. TouchEnd(d, id) = ResetIfAlone([d EXCEPT !.ignored = @ \ {id}])
    BY <1>1 DEF TouchEnd
  <2> QED
    BY <1>1, <2>1, IgnoredEndKeeps
<1>2. CASE id \notin d.ignored
  <2> DEFINE r == Released(d, id)
             started == IF r.waiting /\ HasDetectedGesture(r) THEN PushEvent(r, "gesturestart") ELSE r
             ended == IF HasDetectedGesture(r) THEN PushEvent(started, "gestureend") ELSE started
             stays == r.waiting /\ ~ HasDetectedGesture(r) /\ r.state # {}
  <2>1. TouchEnd(d, id) = IF stays THEN r ELSE Finish(ended, id)
    BY <1>2 DEF TouchEnd, Released
  <2>2. /\ touches = ActiveIds(d) \cup d.ignored /\ id \in ActiveIds(d)
        /\ id \notin d.ignored /\ d.tracked # <<>>
    BY <1>2 DEF Detector, Follows, ActiveIds
  <2>3. /\ DOMAIN r = Fields /\ r.ignored = d.ignored /\ r.threw = FALSE /\ r.waiting \in BOOLEAN
        /\ r.longpress = FALSE /\ r.twoTouch \in {"none", "fired"}
        /\ r.tracked \in Seq(Touched) /\ Len(r.tracked) = Len(d.tracked)
        /\ r.state \subseteq d.state
        /\ ActiveIds(r) \ {id} = ActiveIds(d) \ {id}
        /\ r.waiting => id \notin ActiveIds(r)
        /\ HasDetectedGesture(d) => r.state \in {d.state, {}}
        /\ ~ HasDetectedGesture(d) =>
              /\ r.waiting /\ r.twoTouch = "none"
              /\ r.state \subseteq Taps /\ (r.state = {} \/ Single(r.state))
    BY <2>2, ReleasedShape
  <2> HIDE DEF r
  <2>4. d.state \subseteq AllGestures /\ d.tracked \in Seq(Touched) /\ SomeActive(d)
    BY <2>2 DEF Detector, Shape, SomeActive
  <2>5. CASE stays
    <3>1. d.waiting \in BOOLEAN /\ r.state \subseteq AllGestures
      BY <2>3, <2>4 DEF Detector, Shape
    <3>2. ~ HasDetectedGesture(d)
      <4>1. SUFFICES ASSUME HasDetectedGesture(d)
                     PROVE  FALSE
        OBVIOUS
      <4>2. Single(d.state) /\ ~ (d.state \subseteq Taps)
        BY <2>4, <4>1, Detected
      <4>3. r.state = d.state
        BY <2>3, <2>5, <4>1
      <4>4. HasDetectedGesture(r)
        BY <3>1, <4>2, <4>3, Detected
      <4> QED
        BY <2>5, <4>4
    <3>3. r.state \subseteq Taps /\ Single(r.state) /\ r.twoTouch = "none"
      BY <2>3, <2>5, <3>2
    <3>4. SomeActive(r)
      BY <2>5, <3>1, <3>3, Detected
    <3>5. Shape(r)
      BY <2>3, <3>1 DEF Shape
    <3>6. ActiveIds(r) = ActiveIds(d) \ {id}
      BY <2>3, <2>5
    <3>7. Follows(r, touches \ {id})
      BY <2>2, <2>3, <2>5, <3>4, <3>6 DEF Detector, Follows
    <3>8. Possible(r)
      <4>1. r.tracked # <<>>
        BY <2>2, <2>3, <2>4
      <4>2. /\ Len(r.tracked) = 2 => r.state \subseteq {"twotap", "threetap"} \cup TwoFinger
            /\ Len(r.tracked) = 3 => r.state \subseteq {"threetap"} \cup TwoFinger
            /\ Len(r.tracked) > 3 => r.state \subseteq TwoFinger
        BY <2>3 DEF Detector, Possible
      <4> QED
        BY <3>3, <4>1, <4>2 DEF Possible
    <3>9. Timers(r)
      BY <2>3, <3>3 DEF Timers
    <3> QED
      BY <2>1, <2>5, <3>5, <3>7, <3>8, <3>9 DEF Detector
  <2>6. CASE ~ stays
    <3>1. /\ DOMAIN started = Fields /\ started.ignored = r.ignored /\ started.threw = r.threw
          /\ started.waiting = r.waiting /\ started.longpress = r.longpress
          /\ started.twoTouch = r.twoTouch /\ started.tracked = r.tracked
      BY <2>3, PushAlike DEF Alike
    <3> HIDE DEF started
    <3>2. /\ DOMAIN ended = Fields /\ ended.ignored = r.ignored /\ ended.threw = r.threw
          /\ ended.waiting = r.waiting /\ ended.longpress = r.longpress
          /\ ended.twoTouch = r.twoTouch /\ ended.tracked = r.tracked
      BY <3>1, PushAlike DEF Alike
    <3> HIDE DEF ended
    <3>3. ActiveIds(ended) = ActiveIds(r)
      BY <3>2 DEF ActiveIds
    <3>4. touches \ {id} = (ActiveIds(ended) \cup ended.ignored) \ {id}
      BY <2>2, <2>3, <3>2, <3>3
    <3>5. Detector(Finish(ended, id), touches \ {id})
      BY <2>3, <3>2, <3>4, FinishKeeps
    <3> QED
      BY <2>1, <2>6, <3>5
  <2> QED
    BY <2>5, <2>6
<1> QED
  BY <1>1, <1>2
-----------------------------------------------------------------------------
(* Every step keeps the detector ready.                                    *)

DetectorInv == Detector(g, user.touches) /\ "touches" \in DOMAIN user

LEMMA DetectorInit == Init => DetectorInv
<1> SUFFICES ASSUME Init
             PROVE  DetectorInv
  OBVIOUS
<1>1. /\ DOMAIN g = Fields /\ g.state = AllGestures /\ g.tracked = <<>> /\ g.ignored = {}
      /\ g.waiting = FALSE /\ g.longpress = FALSE /\ g.twoTouch = "none" /\ g.threw = FALSE
  BY DEF Init, NoTouches, Fields
<1>2. user.touches = {} /\ "touches" \in DOMAIN user
  BY DEF Init
<1>3. ActiveIds(g) = {} /\ Len(g.tracked) = 0 /\ g.tracked \in Seq(Touched)
  BY <1>1 DEF ActiveIds
<1>4. Shape(g)
  BY <1>1, <1>3 DEF Shape
<1>5. Follows(g, user.touches)
  BY <1>1, <1>2, <1>3 DEF Follows
<1>6. Possible(g) /\ Timers(g)
  BY <1>1, <1>3 DEF Possible, Timers
<1> QED
  BY <1>2, <1>4, <1>5, <1>6 DEF DetectorInv, Detector

LEMMA DetectorNext == DetectorInv /\ [Next]_vars => DetectorInv'
<1> SUFFICES ASSUME DetectorInv, [Next]_vars
             PROVE  DetectorInv'
  OBVIOUS
<1>1. Detector(g, user.touches) /\ "touches" \in DOMAIN user
  BY DEF DetectorInv
<1>2. Detector(Quiet, user.touches) /\ Quiet.longpress = g.longpress /\ Quiet.twoTouch = g.twoTouch
  <2>1. DOMAIN g = Fields
    BY <1>1 DEF Detector, Shape
  <2>2. Alike(g, Quiet)
    BY <2>1 DEF Alike, Quiet, Fields
  <2> QED
    BY <1>1, <2>2, AlikeKept DEF Alike
<1>3. ASSUME NEW e, g' = e, Detector(e, user.touches), UNCHANGED user
      PROVE  DetectorInv'
  BY <1>1, <1>3 DEF DetectorInv
<1>4. ASSUME UNCHANGED g, user'.touches = user.touches, DOMAIN user' = DOMAIN user
      PROVE  DetectorInv'
  BY <1>1, <1>4 DEF DetectorInv
<1>5. CASE Keyboard
  BY <1>1, <1>4, <1>5 DEF Keyboard, PressKey, RepeatKey, ReleaseKey, KeyEvent, AltGrTimeout, Blur, SetViewOnly
<1>6. CASE Mouse
  BY <1>1, <1>4, <1>6 DEF Mouse, PressButton, ReleaseButton, MoveMouse, HandleWheel, DelayedMouseMove,
                          ToggleViewDrag
<1>7. CASE FingerDown
  <2>1. PICK id \in Fingers \ user.touches :
             user' = [user EXCEPT !.touches = @ \cup {id}] /\ Hears(TouchStart(Quiet, id))
    BY <1>7 DEF FingerDown
  <2>2. g' = TouchStart(Quiet, id)
    BY <2>1 DEF Hears
  <2>3. user'.touches = user.touches \cup {id} /\ "touches" \in DOMAIN user'
    BY <1>1, <2>1
  <2>4. Detector(TouchStart(Quiet, id), user.touches \cup {id})
    BY <1>2, TouchStartKeeps
  <2> QED
    BY <2>2, <2>3, <2>4 DEF DetectorInv
<1>8. CASE FingerMoves
  <2>1. PICK id \in user.touches, far \in BOOLEAN, verdict \in TwoFinger :
             Hears(TouchMove(Quiet, id, far, verdict))
    BY <1>8 DEF FingerMoves
  <2> QED
    BY <1>2, <1>3, <1>8, <2>1, TouchMoveKeeps DEF FingerMoves, Hears
<1>9. CASE FingerUp
  <2>1. PICK id \in user.touches :
             user' = [user EXCEPT !.touches = @ \ {id}] /\ Hears(TouchEnd(Quiet, id))
    BY <1>9 DEF FingerUp
  <2>2. g' = TouchEnd(Quiet, id)
    BY <2>1 DEF Hears
  <2>3. user'.touches = user.touches \ {id} /\ "touches" \in DOMAIN user'
    BY <1>1, <2>1
  <2>4. Detector(TouchEnd(Quiet, id), user.touches \ {id})
    BY <1>2, TouchEndKeeps
  <2> QED
    BY <2>2, <2>3, <2>4 DEF DetectorInv
<1>10. CASE Longpress
  BY <1>2, <1>3, <1>10, LongpressKeeps DEF Longpress, Hears
<1>11. CASE TwoTouch
  <2>1. PICK verdict \in TwoFinger : Hears(TwoTouchTimeout(Quiet, verdict))
    BY <1>11 DEF TwoTouch
  <2>2. g.twoTouch = "running" /\ UNCHANGED user
    BY <1>11 DEF TwoTouch
  <2> QED
    BY <1>2, <1>3, <2>1, <2>2, TwoTouchKeeps DEF Hears
<1>12. CASE Tick
  BY <1>1, <1>3, <1>12, TickedKeeps DEF Tick
<1>13. CASE UNCHANGED vars
  BY <1>4, <1>13 DEF vars
<1> QED
  BY <1>5, <1>6, <1>7, <1>8, <1>9, <1>10, <1>11, <1>12, <1>13 DEF Next, Touch

LEMMA DetectorReady == DetectorInv => DetectorResets
<1> SUFFICES ASSUME DetectorInv
             PROVE  DetectorResets
  OBVIOUS
<1>1. Detector(g, user.touches)
  BY DEF DetectorInv
<1>2. g.threw = FALSE
  BY <1>1 DEF Detector, Shape
<1>3. ASSUME user.touches = {}
      PROVE  /\ g.state = AllGestures /\ g.tracked = <<>> /\ g.ignored = {}
             /\ ~ g.waiting /\ ~ g.longpress /\ g.twoTouch # "running"
  <2>1. ActiveIds(g) = {} /\ g.ignored = {}
    BY <1>1, <1>3 DEF Detector, Follows
  <2>2. g.tracked = <<>>
    BY <1>1, <2>1 DEF Detector, Follows, SomeActive
  <2>3. g.state = AllGestures /\ ~ g.waiting
    BY <1>1, <2>1, <2>2 DEF Detector, Possible
  <2>4. Len(g.tracked) = 0
    BY <2>2
  <2>5. ~ g.longpress /\ g.twoTouch # "running"
    BY <1>1, <2>4 DEF Detector, Timers
  <2> QED
    BY <2>1, <2>2, <2>3, <2>5
<1> QED
  BY <1>2, <1>3 DEF DetectorResets

\* With one touch, and no id of a timer, an end goes through every stage of
\* the handler as that of a tap.
LEMMA LoneTapIsHeard ==
    ASSUME NEW d, NEW id, DOMAIN d = Fields, d.state \subseteq AllGestures, "onetap" \in d.state,
           d.tracked \in Seq(Touched), Len(d.tracked) = 1, d.tracked[1].id = id, d.tracked[1].active,
           d.tracked[1].age <= TapTimeout, id \notin d.ignored, ~ d.waiting, d.twoTouch = "none",
           d.events = <<>>
    PROVE  TouchEnd(d, id).events = <<[type |-> "gesturestart", gesture |-> "onetap"],
                                      [type |-> "gestureend", gesture |-> "onetap"]>>
<1> DEFINE touch == d.tracked[1]
           b == [d EXCEPT !.state = {"onetap"}, !.longpress = FALSE, !.waiting = TRUE, !.release = 0]
           r == [b EXCEPT !.tracked = <<[touch EXCEPT !.active = FALSE]>>]
           tap == "onetap"
<1>1. touch \in Touched /\ d.tracked = <<touch>> /\ d.tracked # <<>>
  OBVIOUS
<1>2. ActiveIds(d) = {id}
  BY <1>1 DEF ActiveIds
<1>3. ~ HasDetectedGesture(d)
  <2>1. SomeActive(d)
    BY <1>2 DEF SomeActive
  <2>2. Single(d.state) => d.state = {tap}
    BY DEF Single
  <2> QED
    BY <2>1, <2>2, Detected DEF Taps
<1>4. EndBeforeTimer(d) = d
  BY DEF EndBeforeTimer
<1>5. BeginRelease(d) = b
  <2>1. d.state \ (TwoFinger \cup {"drag", "longpress"} \cup {"twotap", "threetap"}) = {tap}
    BY DEF AllGestures, Taps, TwoFinger
  <2>2. BeginRelease(d) = [d EXCEPT !.state = @ \ (TwoFinger \cup {"drag", "longpress"}
                                                      \cup {"twotap", "threetap"}),
                                    !.longpress = FALSE, !.waiting = TRUE, !.release = 0]
    BY ONLY <1>3, Len(d.tracked) = 1, ~ d.waiting DEF BeginRelease
  <2> QED
    BY ONLY <2>1, <2>2
<1>6. Release(b, id) = r
  <2>1. b.waiting = TRUE /\ b.release = 0 /\ b.tracked = <<touch>> /\ b.state = {tap}
    BY <1>1 DEF Fields
  <2>2. ~ (b.release > Multitouch \/ \E i \in DOMAIN b.tracked : b.tracked[i].age > TapTimeout)
    BY <1>1, <2>1 DEF Touched, TapTimeout, Multitouch, Old
  <2>3. [i \in DOMAIN b.tracked |->
            IF b.tracked[i].id = id THEN [b.tracked[i] EXCEPT !.active = FALSE] ELSE b.tracked[i]]
            = <<[touch EXCEPT !.active = FALSE]>>
    <3>1. DOMAIN b.tracked = 1 .. 1 /\ b.tracked[1] = touch
      BY ONLY <2>1
    <3>2. \A i \in DOMAIN b.tracked : i = 1
      BY <3>1
    <3> DEFINE w == [touch EXCEPT !.active = FALSE]
           f == [i \in DOMAIN b.tracked |->
                    IF b.tracked[i].id = id THEN [b.tracked[i] EXCEPT !.active = FALSE] ELSE b.tracked[i]]
    <3>3. DOMAIN f = 1 .. 1 /\ f[1] = w /\ f = [i \in DOMAIN f |-> f[i]]
      BY <3>1
    <3> HIDE DEF f, w
    <3>4. f = [i \in 1 .. 1 |-> w]
      BY ONLY <3>3
    <3>5. \A v : [i \in 1 .. 1 |-> v] = <<v>>
      OBVIOUS
    <3>6. f = <<w>>
      BY ONLY <3>4, <3>5
    <3> QED
      BY ONLY <3>6 DEF f, w
  <2>4. Release(b, id) = [b EXCEPT !.state = @, !.tracked = <<[touch EXCEPT !.active = FALSE]>>]
    BY ONLY <2>1, <2>2, <2>3 DEF Release
  <2> QED
    BY <2>4
<1>7. r.state = {tap} /\ r.waiting /\ r.events = <<>> /\ r.tracked = <<[touch EXCEPT !.active = FALSE]>>
  BY DEF Fields
<1>8. HasDetectedGesture(r)
  <2>1. ActiveIds(r) = {}
    BY <1>1, <1>7 DEF ActiveIds, Touched
  <2>2. r.state \subseteq AllGestures /\ Single(r.state)
    BY <1>7 DEF Single
  <2> QED
    BY <2>1, <2>2, Detected DEF SomeActive
<1> DEFINE started == PushEvent(r, "gesturestart")
           ended == PushEvent(started, "gestureend")
<1>9. TouchEnd(d, id) = Finish(ended, id)
  BY <1>4, <1>5, <1>6, <1>7, <1>8 DEF TouchEnd
<1>10. Finish(ended, id).events = ended.events
  BY DEF Finish, ResetIfAlone, Dead, PushEvent, Fields
<1>11. (CHOOSE x \in {tap} : TRUE) = tap
  OBVIOUS
<1>12. started.events = Append(r.events, [type |-> "gesturestart", gesture |-> tap]) /\ started.state = {tap}
  BY <1>7, <1>11 DEF PushEvent, Fields
<1>13. ended.events = Append(started.events, [type |-> "gestureend", gesture |-> tap])
  BY <1>11, <1>12 DEF PushEvent, Fields
<1> DEFINE s1 == [type |-> "gesturestart", gesture |-> tap]
           s2 == [type |-> "gestureend", gesture |-> tap]
<1> HIDE DEF s1, s2
<1>14. Append(<<>>, s1) = <<s1>> /\ Append(<<s1>>, s2) = <<s1, s2>>
  <2>1. <<>> \in Seq({s1, s2}) /\ <<s1>> \in Seq({s1, s2}) /\ s2 \in {s1, s2}
    OBVIOUS
  <2> DEFINE q == Append(<<s1>>, s2)
  <2>2. q \in Seq({s1, s2}) /\ Len(q) = 2 /\ q[1] = s1 /\ q[2] = s2
    BY <2>1
  <2> HIDE DEF q
  <2>3. q = <<q[1], q[2]>>
    BY ONLY <2>2
  <2>4. q = <<s1, s2>>
    BY ONLY <2>2, <2>3
  <2>5. Append(<<>>, s1) = <<s1>>
    BY <2>1
  <2> QED
    BY <2>4, <2>5 DEF q
<1>15. started.events = Append(r.events, s1) /\ ended.events = Append(started.events, s2)
  BY <1>12, <1>13 DEF s1, s2
<1> HIDE DEF started, ended, r
<1>16. ended.events = <<s1, s2>>
  BY ONLY <1>7, <1>14, <1>15
<1>17. TouchEnd(d, id).events = <<s1, s2>>
  BY <1>9, <1>10, <1>16
<1> QED
  BY <1>17 DEF s1, s2

LEMMA DetectorHearsTaps == DetectorInv => TapIsLostToTimerOnly
<1> SUFFICES ASSUME DetectorInv, g.twoTouch # "fired", NEW id \in user.touches, IsATap(id)
             PROVE  TouchEnd(Quiet, id).events = <<[type |-> "gesturestart", gesture |-> "onetap"],
                                                   [type |-> "gestureend", gesture |-> "onetap"]>>
  BY DEF TapIsLostToTimerOnly, TapIsHeard
<1>1. Detector(g, user.touches)
  BY DEF DetectorInv
<1>2. g.twoTouch = "none"
  BY <1>1 DEF Detector, Shape, Timers, IsATap
<1>3. g.tracked \in Seq(Touched) /\ Len(g.tracked) = 1 /\ g.tracked # <<>>
  BY <1>1 DEF Detector, Shape, IsATap
<1>4. g.tracked[1].active /\ ActiveIds(g) = {g.tracked[1].id}
  BY <1>1, <1>3 DEF Detector, Follows, SomeActive, ActiveIds, IsATap
<1>5. g.tracked[1].id = id /\ id \notin g.ignored
  BY <1>1, <1>4 DEF Detector, Follows, IsATap
<1>6. /\ DOMAIN Quiet = Fields /\ Quiet.events = <<>>
      /\ Quiet.state = g.state /\ Quiet.tracked = g.tracked /\ Quiet.ignored = g.ignored
      /\ Quiet.waiting = g.waiting /\ Quiet.twoTouch = g.twoTouch
  BY <1>1 DEF Detector, Shape, Quiet, Fields
<1>7. /\ Quiet.state \subseteq AllGestures /\ "onetap" \in Quiet.state /\ Quiet.tracked \in Seq(Touched)
      /\ Len(Quiet.tracked) = 1 /\ Quiet.tracked[1].id = id /\ Quiet.tracked[1].active
      /\ Quiet.tracked[1].age <= TapTimeout /\ id \notin Quiet.ignored /\ ~ Quiet.waiting
      /\ Quiet.twoTouch = "none" /\ Quiet.events = <<>> /\ DOMAIN Quiet = Fields
  BY <1>1, <1>2, <1>3, <1>4, <1>5, <1>6 DEF Detector, Shape, IsATap
<1> QED
  BY ONLY <1>7, LoneTapIsHeard
-----------------------------------------------------------------------------
(* The keyboard.                                                           *)

\* The keys, what they tell, and the events there can be.
Keys == Codes \cup {"ControlLeft"}
Symbols == Codes \cup {"a", "A", "AltGraph", "Mode_switch", "AltLeft", "MetaLeft", "ControlLeft"}
KeyEvents == [type : {"down", "up"}, code : Keys, keysym : Keys \cup {"a", "A"},
              quick : BOOLEAN, meta : BOOLEAN]

\* Only a letter tells anything but itself.
Telling(e) == e.code # "KeyA" => e.keysym = e.code

KeyboardFields(k) == DOMAIN k = {"down", "armed", "server", "viewOnly"}

KeyboardTyped(k) ==
    /\ KeyboardFields(k)
    /\ k.armed \in BOOLEAN /\ k.viewOnly \in BOOLEAN
    /\ DOMAIN k.down \subseteq Keys /\ Range(k.down) \subseteq Symbols
    /\ k.server \subseteq Symbols

\* What the server holds the Keyboard holds, and these keys have one keysym.
Alone == {"ControlLeft", "CapsLock"}
Sound(k) ==
    /\ KeyboardFields(k) /\ ~ k.viewOnly
    /\ k.server \subseteq Range(k.down)
    /\ \A code \in Alone \cap DOMAIN k.down : k.down[code] = code

Armed(k) == IF k.armed THEN {"ControlLeft"} ELSE {}

\* The two calls of SendKeyEvent there are.
Presses(k, keysym, code) == SendKeyEvent(k, keysym, code, TRUE)
Releases(k, keysym, code) == SendKeyEvent(k, keysym, code, FALSE)

LEMMA PressTyped ==
    ASSUME NEW k, KeyboardTyped(k), NEW code \in Keys, NEW keysym \in Symbols
    PROVE  LET j == Presses(k, keysym, code)
           IN  /\ KeyboardTyped(j) /\ j.armed = k.armed
               /\ DOMAIN j.down = DOMAIN k.down \cup {code} /\ j.down[code] = keysym
<1> DEFINE j == Presses(k, keysym, code)
           down == [c \in DOMAIN k.down \cup {code} |-> IF c = code THEN keysym ELSE k.down[c]]
<1>1. /\ DOMAIN j = DOMAIN k /\ j.down = down /\ j.armed = k.armed /\ j.viewOnly = k.viewOnly
      /\ j.server \subseteq k.server \cup {keysym}
  BY DEF Presses, Releases, SendKeyEvent, KeyboardTyped, KeyboardFields
<1>2. Range(down) \subseteq Range(k.down) \cup {keysym}
  BY DEF Range
<1>3. KeyboardTyped(j)
  BY <1>1, <1>2 DEF KeyboardTyped, KeyboardFields
<1> QED
  BY <1>1, <1>3

LEMMA PressSound ==
    ASSUME NEW k, Sound(k), NEW code, NEW keysym, code \in Alone => keysym = code,
           code \in DOMAIN k.down => k.down[code] = keysym
    PROVE  LET j == Presses(k, keysym, code)
           IN  /\ Sound(j) /\ j.armed = k.armed
               /\ DOMAIN j.down = DOMAIN k.down \cup {code} /\ j.down[code] = keysym
<1> DEFINE j == Presses(k, keysym, code)
           down == [c \in DOMAIN k.down \cup {code} |-> IF c = code THEN keysym ELSE k.down[c]]
<1>1. /\ DOMAIN j = DOMAIN k /\ j.down = down /\ j.armed = k.armed /\ j.viewOnly = k.viewOnly
      /\ j.server \subseteq k.server \cup {keysym}
  BY DEF Presses, Releases, SendKeyEvent, Sound, KeyboardFields
<1>2. Range(k.down) \cup {keysym} \subseteq Range(down)
  BY DEF Range
<1>3. Sound(j)
  BY <1>1, <1>2 DEF Sound, KeyboardFields
<1> QED
  BY <1>1, <1>3

LEMMA ReleaseTyped ==
    ASSUME NEW k, KeyboardTyped(k), NEW code, NEW keysym
    PROVE  LET j == Releases(k, keysym, code)
           IN  KeyboardTyped(j) /\ j.armed = k.armed /\ DOMAIN j.down = DOMAIN k.down \ {code}
<1> DEFINE j == Releases(k, keysym, code)
           down == [c \in DOMAIN k.down \ {code} |-> k.down[c]]
<1>1. CASE code \notin DOMAIN k.down
  BY <1>1 DEF Releases, SendKeyEvent
<1>2. CASE code \in DOMAIN k.down
  <2>1. /\ DOMAIN j = DOMAIN k /\ j.down = down /\ j.armed = k.armed /\ j.viewOnly = k.viewOnly
        /\ j.server \subseteq k.server
    BY <1>2 DEF Presses, Releases, SendKeyEvent, KeyboardTyped, KeyboardFields, Restrict
  <2>2. Range(down) \subseteq Range(k.down)
    BY DEF Range
  <2>3. KeyboardTyped(j)
    BY <2>1, <2>2 DEF KeyboardTyped, KeyboardFields
  <2> QED
    BY <2>1, <2>3
<1> QED
  BY <1>1, <1>2

LEMMA ReleaseSound ==
    ASSUME NEW k, Sound(k), NEW code
    PROVE  LET j == ReleaseCode(k, code)
           IN  Sound(j) /\ j.armed = k.armed /\ DOMAIN j.down = DOMAIN k.down \ {code}
<1> DEFINE j == ReleaseCode(k, code)
           down == [c \in DOMAIN k.down \ {code} |-> k.down[c]]
<1>1. CASE code \notin DOMAIN k.down
  BY <1>1 DEF ReleaseCode
<1>2. CASE code \in DOMAIN k.down
  <2>1. /\ DOMAIN j = DOMAIN k /\ j.down = down /\ j.armed = k.armed /\ j.viewOnly = k.viewOnly
        /\ j.server = k.server \ {k.down[code]}
    BY <1>2 DEF ReleaseCode, SendKeyEvent, Sound, KeyboardFields, Restrict
  <2>2. Range(k.down) \ {k.down[code]} \subseteq Range(down)
    BY DEF Range
  <2>3. Sound(j)
    BY <2>1, <2>2 DEF Sound, KeyboardFields
  <2> QED
    BY <2>1, <2>3
<1> QED
  BY <1>1, <1>2

LEMMA DisarmTyped ==
    ASSUME NEW k, KeyboardTyped(k)
    PROVE  LET j == Disarm(k)
           IN  KeyboardTyped(j) /\ ~ j.armed /\ DOMAIN j.down = DOMAIN k.down \cup Armed(k)
<1>1. CASE ~ k.armed
  BY <1>1 DEF Disarm, Armed
<1>2. CASE k.armed
  <2> DEFINE i == [k EXCEPT !.armed = FALSE]
  <2>1. KeyboardTyped(i) /\ i.down = k.down /\ ~ i.armed
    BY DEF KeyboardTyped, KeyboardFields
  <2>2. "ControlLeft" \in Keys /\ "ControlLeft" \in Symbols
    BY DEF Keys, Symbols
  <2>3. Disarm(k) = Presses(i, "ControlLeft", "ControlLeft")
    BY <1>2 DEF Disarm, Presses
  <2> HIDE DEF i
  <2> QED
    BY <1>2, <2>1, <2>2, <2>3, PressTyped DEF Armed
<1> QED
  BY <1>1, <1>2

LEMMA DisarmSound ==
    ASSUME NEW k, Sound(k)
    PROVE  LET j == Disarm(k)
           IN  Sound(j) /\ ~ j.armed /\ DOMAIN j.down = DOMAIN k.down \cup Armed(k)
<1>1. CASE ~ k.armed
  BY <1>1 DEF Disarm, Armed
<1>2. CASE k.armed
  <2> DEFINE i == [k EXCEPT !.armed = FALSE]
  <2>1. Sound(i) /\ i.down = k.down /\ ~ i.armed
    BY DEF Sound, KeyboardFields
  <2>2. "ControlLeft" \in DOMAIN i.down => i.down["ControlLeft"] = "ControlLeft"
    BY <2>1 DEF Sound, Alone
  <2>3. Disarm(k) = Presses(i, "ControlLeft", "ControlLeft")
    BY <1>2 DEF Disarm, Presses
  <2> HIDE DEF i
  <2> QED
    BY <1>2, <2>1, <2>2, <2>3, PressSound DEF Armed
<1> QED
  BY <1>1, <1>2

LEMMA PressAndReleaseTyped ==
    ASSUME NEW k, KeyboardTyped(k), NEW code \in Keys, NEW keysym \in Symbols
    PROVE  LET j == PressAndRelease(k, keysym, code)
           IN  KeyboardTyped(j) /\ j.armed = k.armed /\ DOMAIN j.down = DOMAIN k.down \ {code}
<1> DEFINE i == Presses(k, keysym, code)
<1>1. KeyboardTyped(i) /\ i.armed = k.armed /\ DOMAIN i.down = DOMAIN k.down \cup {code}
  BY PressTyped
<1>2. PressAndRelease(k, keysym, code) = Releases(i, keysym, code)
  BY DEF PressAndRelease, Presses, Releases
<1> HIDE DEF i
<1> QED
  BY <1>1, <1>2, ReleaseTyped

LEMMA PressAndReleaseSound ==
    ASSUME NEW k, Sound(k), NEW code, NEW keysym, code \in Alone => keysym = code,
           code \in DOMAIN k.down => k.down[code] = keysym
    PROVE  LET j == PressAndRelease(k, keysym, code)
           IN  Sound(j) /\ j.armed = k.armed /\ DOMAIN j.down = DOMAIN k.down \ {code}
<1> DEFINE i == Presses(k, keysym, code)
<1>1. /\ Sound(i) /\ i.armed = k.armed /\ DOMAIN i.down = DOMAIN k.down \cup {code}
      /\ i.down[code] = keysym
  BY PressSound
<1>2. PressAndRelease(k, keysym, code) = Releases(i, keysym, code)
  BY DEF PressAndRelease, Presses, Releases
<1> HIDE DEF i
<1>3. PressAndRelease(k, keysym, code) = ReleaseCode(i, code)
  BY <1>1, <1>2 DEF ReleaseCode, Releases
<1> QED
  BY <1>1, <1>3, ReleaseSound

LEMMA ShuffledTyped ==
    ASSUME NEW keysym \in Keys \cup {"a", "A"}
    PROVE  Shuffled(keysym) \in Symbols /\ (keysym \in Alone => Shuffled(keysym) = keysym)
  BY DEF Shuffled, Keys, Symbols, Alone

\* The parts of HandleKeyDown.
IsAltGr(k, e) == k.armed /\ e.code = "AltRight" /\ e.quick
Readied(k, e) == IF IsAltGr(k, e) THEN [k EXCEPT !.armed = FALSE] ELSE Disarm(k)
Symbol(k, e) == IF e.code \in DOMAIN Readied(k, e).down THEN Readied(k, e).down[e.code]
                ELSE IF IsAltGr(k, e) THEN "AltGraph" ELSE Shuffled(e.keysym)
MayBeAltGr(k, e) == os = "windows" /\ e.code = "ControlLeft" /\ e.code \notin DOMAIN Readied(k, e).down

LEMMA KeyDownParts ==
    ASSUME NEW k, NEW e
    PROVE  HandleKeyDown(k, e) =
               IF NeverReleased(e) THEN PressAndRelease(Readied(k, e), Symbol(k, e), e.code)
               ELSE IF MayBeAltGr(k, e) THEN [Readied(k, e) EXCEPT !.armed = TRUE]
               ELSE Presses(Readied(k, e), Symbol(k, e), e.code)
<1> DEFINE ready == IF IsAltGr(k, e) THEN [k EXCEPT !.armed = FALSE] ELSE Disarm(k)
           keysym == CASE e.code \in DOMAIN ready.down -> ready.down[e.code]
                       [] e.code \notin DOMAIN ready.down /\ IsAltGr(k, e) -> "AltGraph"
                       [] OTHER -> Shuffled(e.keysym)
           may == os = "windows" /\ e.code = "ControlLeft" /\ e.code \notin DOMAIN ready.down
<1>1. HandleKeyDown(k, e) =
          CASE NeverReleased(e) -> PressAndRelease(ready, keysym, e.code)
            [] ~ NeverReleased(e) /\ may -> [ready EXCEPT !.armed = TRUE]
            [] OTHER -> Presses(ready, keysym, e.code)
  BY DEF HandleKeyDown, IsAltGr, Presses
<1>2. ready = Readied(k, e)
  BY DEF Readied
<1> HIDE DEF ready
<1>3. keysym = Symbol(k, e)
  BY <1>2 DEF Symbol
<1>4. may <=> MayBeAltGr(k, e)
  BY <1>2 DEF MayBeAltGr
<1> HIDE DEF keysym, may
<1> QED
  BY <1>1, <1>2, <1>3, <1>4

LEMMA ReadiedTyped ==
    ASSUME NEW k, NEW e, KeyboardTyped(k)
    PROVE  LET j == Readied(k, e)
           IN  KeyboardTyped(j) /\ ~ j.armed /\ DOMAIN j.down \subseteq DOMAIN k.down \cup Armed(k)
<1>1. CASE IsAltGr(k, e)
  BY <1>1 DEF Readied, KeyboardTyped, KeyboardFields
<1>2. CASE ~ IsAltGr(k, e)
  BY <1>2, DisarmTyped DEF Readied
<1> QED
  BY <1>1, <1>2

LEMMA ReadiedSound ==
    ASSUME NEW k, NEW e, Sound(k)
    PROVE  LET j == Readied(k, e)
           IN  Sound(j) /\ ~ j.armed /\ DOMAIN j.down \subseteq DOMAIN k.down \cup Armed(k)
<1>1. CASE IsAltGr(k, e)
  BY <1>1 DEF Readied, Sound, KeyboardFields
<1>2. CASE ~ IsAltGr(k, e)
  BY <1>2, DisarmSound DEF Readied
<1> QED
  BY <1>1, <1>2

LEMMA KeyDownTyped ==
    ASSUME NEW k, KeyboardTyped(k), NEW e \in KeyEvents
    PROVE  KeyboardTyped(HandleKeyDown(k, e))
<1>1. KeyboardTyped(Readied(k, e)) /\ e.code \in Keys
  BY ReadiedTyped DEF KeyEvents
<1>2. Symbol(k, e) \in Symbols
  <2>1. Shuffled(e.keysym) \in Symbols /\ "AltGraph" \in Symbols
    BY ShuffledTyped DEF KeyEvents, Symbols
  <2>2. e.code \in DOMAIN Readied(k, e).down => Readied(k, e).down[e.code] \in Symbols
    BY <1>1 DEF KeyboardTyped, Range
  <2> QED
    BY <2>1, <2>2 DEF Symbol
<1>3. KeyboardTyped([Readied(k, e) EXCEPT !.armed = TRUE])
  BY <1>1 DEF KeyboardTyped, KeyboardFields
<1>4. /\ KeyboardTyped(PressAndRelease(Readied(k, e), Symbol(k, e), e.code))
      /\ KeyboardTyped(Presses(Readied(k, e), Symbol(k, e), e.code))
  BY <1>1, <1>2, PressTyped, PressAndReleaseTyped
<1> QED
  BY <1>3, <1>4, KeyDownParts

\* A press takes down one key more, and the Control that was held back; a key
\* that is never released does not stay.
LEMMA KeyDownSound ==
    ASSUME NEW k, Sound(k), NEW e \in KeyEvents, Telling(e)
    PROVE  LET j == HandleKeyDown(k, e)
           IN  /\ Sound(j) /\ (j.armed => os = "windows" /\ e.code = "ControlLeft")
               /\ DOMAIN j.down \subseteq DOMAIN k.down \cup Armed(k) \cup {e.code}
               /\ NeverReleased(e) => e.code \notin DOMAIN j.down
<1> DEFINE j == HandleKeyDown(k, e)
           r == Readied(k, e)
<1>1. Sound(r) /\ ~ r.armed /\ DOMAIN r.down \subseteq DOMAIN k.down \cup Armed(k)
  BY ReadiedSound
<1>2. e.code \in DOMAIN r.down => r.down[e.code] = Symbol(k, e)
  BY DEF Symbol
<1>3. e.code \in Alone => Symbol(k, e) = e.code
  <2>1. e.code \in Alone => e.keysym = e.code /\ ~ IsAltGr(k, e)
    BY DEF Alone, Telling, IsAltGr
  <2>2. e.keysym \in Keys \cup {"a", "A"}
    BY DEF KeyEvents
  <2>3. e.keysym \in Alone => Shuffled(e.keysym) = e.keysym
    BY <2>2, ShuffledTyped
  <2>4. e.code \in Alone \cap DOMAIN r.down => r.down[e.code] = e.code
    BY <1>1 DEF Sound
  <2> QED
    BY <2>1, <2>3, <2>4 DEF Symbol
<1> HIDE DEF r
<1>4. CASE NeverReleased(e)
  <2>1. j = PressAndRelease(r, Symbol(k, e), e.code)
    BY <1>4, KeyDownParts DEF r
  <2>2. Sound(j) /\ j.armed = r.armed /\ DOMAIN j.down = DOMAIN r.down \ {e.code}
    BY <1>1, <1>2, <1>3, <2>1, PressAndReleaseSound
  <2> QED
    BY <1>1, <2>2
<1>5. CASE ~ NeverReleased(e) /\ MayBeAltGr(k, e)
  <2>1. j = [r EXCEPT !.armed = TRUE]
    BY <1>5, KeyDownParts DEF r
  <2>2. Sound(j) /\ j.down = r.down
    BY <1>1, <2>1 DEF Sound, KeyboardFields
  <2>3. os = "windows" /\ e.code = "ControlLeft"
    BY <1>5 DEF MayBeAltGr
  <2> QED
    BY <1>1, <1>5, <2>2, <2>3
<1>6. CASE ~ NeverReleased(e) /\ ~ MayBeAltGr(k, e)
  <2>1. j = Presses(r, Symbol(k, e), e.code)
    BY <1>6, KeyDownParts DEF r
  <2>2. Sound(j) /\ j.armed = r.armed /\ DOMAIN j.down = DOMAIN r.down \cup {e.code}
    BY <1>1, <1>2, <1>3, <2>1, PressSound
  <2> QED
    BY <1>1, <1>6, <2>2
<1> QED
  BY <1>4, <1>5, <1>6

LEMMA ReleaseCodeTyped ==
    ASSUME NEW k, KeyboardTyped(k), NEW code
    PROVE  KeyboardTyped(ReleaseCode(k, code))
<1>1. ReleaseCode(k, code) = IF code \in DOMAIN k.down THEN Releases(k, k.down[code], code) ELSE k
  BY DEF ReleaseCode, Releases
<1> QED
  BY <1>1, ReleaseTyped

LEMMA KeyUpTyped ==
    ASSUME NEW k, KeyboardTyped(k), NEW e \in KeyEvents
    PROVE  KeyboardTyped(HandleKeyUp(k, e))
<1> DEFINE r == Disarm(k)
<1>1. KeyboardTyped(r)
  BY DisarmTyped
<1>2. e.code = "CapsLock" => KeyboardTyped(PressAndRelease(r, "CapsLock", "CapsLock"))
  <2>1. e.code = "CapsLock" => "CapsLock" \in Keys /\ "CapsLock" \in Symbols
    BY DEF KeyEvents, Keys, Symbols
  <2> QED
    BY <1>1, <2>1, PressAndReleaseTyped
<1>3. /\ KeyboardTyped(ReleaseCode(r, e.code))
      /\ KeyboardTyped(ReleaseCode(ReleaseCode(ReleaseCode(r, e.code), "ShiftRight"), "ShiftLeft"))
  BY <1>1, ReleaseCodeTyped
<1> QED
  BY <1>2, <1>3 DEF HandleKeyUp

\* A release lets go of its key, of both Shifts on Windows.
LEMMA KeyUpSound ==
    ASSUME NEW k, Sound(k), NEW e \in KeyEvents
    PROVE  LET j == HandleKeyUp(k, e)
           IN  /\ Sound(j) /\ ~ j.armed
               /\ DOMAIN j.down \subseteq (DOMAIN k.down \cup Armed(k)) \ {e.code}
               /\ os = "windows" /\ e.code \in Shifts => DOMAIN j.down \cap Shifts = {}
<1> DEFINE j == HandleKeyUp(k, e)
           r == Disarm(k)
           released == ReleaseCode(r, e.code)
<1>1. Sound(r) /\ ~ r.armed /\ DOMAIN r.down = DOMAIN k.down \cup Armed(k)
  BY DisarmSound
<1> HIDE DEF r
<1>2. Sound(released) /\ ~ released.armed /\ DOMAIN released.down = DOMAIN r.down \ {e.code}
  BY <1>1, ReleaseSound
<1>3. CASE os = "mac" /\ e.code = "CapsLock"
  <2>1. j = PressAndRelease(r, "CapsLock", "CapsLock")
    BY <1>3 DEF HandleKeyUp, r
  <2>2. "CapsLock" \in DOMAIN r.down => r.down["CapsLock"] = "CapsLock"
    BY <1>1 DEF Sound, Alone
  <2>3. Sound(j) /\ j.armed = r.armed /\ DOMAIN j.down = DOMAIN r.down \ {"CapsLock"}
    BY <1>1, <2>1, <2>2, PressAndReleaseSound
  <2> QED
    BY <1>1, <1>3, <2>3
<1>4. CASE os = "windows" /\ e.code \in Shifts
  <2> HIDE DEF released
  <2> DEFINE one == ReleaseCode(released, "ShiftRight")
  <2>1. Sound(one) /\ ~ one.armed /\ DOMAIN one.down = DOMAIN released.down \ {"ShiftRight"}
    BY <1>2, ReleaseSound
  <2>2. j = ReleaseCode(one, "ShiftLeft")
    BY <1>4 DEF HandleKeyUp, r, released
  <2> HIDE DEF one
  <2>3. Sound(j) /\ ~ j.armed /\ DOMAIN j.down = DOMAIN one.down \ {"ShiftLeft"}
    BY <2>1, <2>2, ReleaseSound
  <2>4. DOMAIN j.down \subseteq DOMAIN released.down /\ DOMAIN j.down \cap Shifts = {}
    BY <2>1, <2>3 DEF Shifts
  <2> QED
    BY <1>1, <1>2, <2>3, <2>4
<1>5. CASE ~ (os = "mac" /\ e.code = "CapsLock") /\ ~ (os = "windows" /\ e.code \in Shifts)
  <2>1. j = released
    BY <1>5 DEF HandleKeyUp, r
  <2> HIDE DEF released
  <2> QED
    BY <1>1, <1>2, <1>5, <2>1
<1> QED
  BY <1>3, <1>4, <1>5
-----------------------------------------------------------------------------
(* The keys that are held.                                                 *)

UserFields == {"keys", "buttons", "touches", "muted", "fakeCtrl", "caps"}

UserTyped ==
    /\ DOMAIN user = UserFields
    /\ user.keys \subseteq Codes /\ user.touches \subseteq Fingers
    /\ user.muted \subseteq user.keys \ Modifiers
    /\ queue \in Seq(KeyEvents) /\ Len(queue) <= 2

UpComes(code) == \E i \in 1 .. Len(queue) : queue[i].type = "up" /\ queue[i].code = code

\* A key is really down or its release comes, the Control of an AltGr with
\* the AltGr, and Windows tells of two Shifts when the last one is released.
Accounted(code) ==
    \/ code \in user.keys \/ UpComes(code)
    \/ code = "ControlLeft" /\ user.fakeCtrl
    \/ os = "windows" /\ code \in Shifts /\ (Shifts \cap user.keys # {} \/ \E s \in Shifts : UpComes(s))

\* What is about to be pressed is a key that is down.
Real(e) ==
    /\ Telling(e)
    /\ e.type = "down" => e.code \in user.keys \/ (e.code = "ControlLeft" /\ user.fakeCtrl)

PressesAreReal == \A i \in 1 .. Len(queue) : Real(queue[i])

FakeIsAltGr == user.fakeCtrl => os = "windows" /\ "AltRight" \in user.keys

\* What the system does not tell the release of is not held.
Muting(e) == os = "mac" /\ e.type = "down" /\ e.code \in user.muted => NeverReleased(e)
MutedIsNotHeld ==
    /\ os = "mac" => user.muted \cap DOMAIN kb.down = {}
    /\ \A i \in 1 .. Len(queue) : Muting(queue[i])
NothingIsLost ==
    /\ os = "mac" => "CapsLock" \notin DOMAIN kb.down
    /\ os = "windows" => "Zenkaku" \notin DOMAIN kb.down

KeysAccounted ==
    /\ \A code \in DOMAIN kb.down : Accounted(code)
    /\ kb.armed => os = "windows" /\ Accounted("ControlLeft")

KeysInv == PressesAreReal /\ FakeIsAltGr /\ MutedIsNotHeld /\ NothingIsLost /\ Sound(kb) /\ KeysAccounted

KeyboardInv == UserTyped /\ KeyboardTyped(kb) /\ (~ odd => KeysInv)

LEMMA KeysInvReleased == KeyboardInv => NoStuckKeys
<1> SUFFICES ASSUME KeyboardInv, ~ odd, user.keys = {}, queue = <<>>, ~ kb.armed
             PROVE  kb.server = {}
  BY DEF NoStuckKeys, KeysReleased
<1>1. KeysInv
  BY DEF KeyboardInv
<1>2. \A code : ~ UpComes(code)
  BY DEF UpComes
<1>3. ~ user.fakeCtrl
  BY <1>1 DEF KeysInv, FakeIsAltGr
<1>4. \A code : ~ Accounted(code)
  BY <1>2, <1>3 DEF Accounted
<1>5. DOMAIN kb.down = {}
  BY <1>1, <1>4 DEF KeysInv, KeysAccounted
<1>6. Range(kb.down) = {}
  BY <1>5 DEF Range
<1> QED
  BY <1>1, <1>6 DEF KeysInv, Sound

LEMMA KeyboardInit == Init => KeyboardInv
<1> SUFFICES ASSUME Init PROVE KeyboardInv
  OBVIOUS
<1>1. queue = <<>> /\ Len(queue) = 0 /\ queue \in Seq(KeyEvents) /\ \A i \in 1 .. Len(queue) : FALSE
  BY DEF Init
<1>2. kb = [down |-> <<>>, armed |-> FALSE, server |-> {}, viewOnly |-> FALSE] /\ DOMAIN kb.down = {}
  BY DEF Init
<1>3. Range(kb.down) = {}
  BY <1>2 DEF Range
<1>4. KeyboardTyped(kb) /\ Sound(kb)
  BY <1>2, <1>3 DEF KeyboardTyped, Sound, KeyboardFields
<1>5. UserTyped
  BY <1>1 DEF Init, UserTyped, UserFields
<1>6. ~ user.fakeCtrl
  BY DEF Init
<1> QED
  BY <1>1, <1>2, <1>4, <1>5, <1>6 DEF KeyboardInv, KeysInv, PressesAreReal, FakeIsAltGr, MutedIsNotHeld,
     NothingIsLost, KeysAccounted

\* What the rest of the model does to the keyboard: Pinched.
LEMMA PinchedKeeps ==
    ASSUME NEW k, NEW events, KeyboardTyped(k)
    PROVE  LET j == Pinched(k, events)
           IN  /\ KeyboardTyped(j) /\ (Sound(k) => Sound(j))
               /\ j.down = k.down /\ j.armed = k.armed /\ j.viewOnly = k.viewOnly
  BY DEF Pinched, KeyboardTyped, KeyboardFields, Sound

LEMMA OtherKeeps ==
    ASSUME KeyboardInv, UNCHANGED <<os, queue>>,
           DOMAIN user' = UserFields, user'.touches \subseteq Fingers,
           user'.keys = user.keys, user'.muted = user.muted, user'.fakeCtrl = user.fakeCtrl,
           KeyboardTyped(kb)', Sound(kb) => Sound(kb)',
           kb'.down = kb.down, kb'.armed = kb.armed, odd => odd'
    PROVE  KeyboardInv'
<1>1. UserTyped'
  BY DEF KeyboardInv, UserTyped
<1>2. \A code : Accounted(code) => Accounted(code)'
  BY DEF Accounted, UpComes
<1>3. ASSUME KeysInv, Sound(kb)' PROVE KeysInv'
  <2>1. PressesAreReal' /\ FakeIsAltGr'
    BY <1>3 DEF KeysInv, PressesAreReal, Real, FakeIsAltGr
  <2>2. MutedIsNotHeld' /\ NothingIsLost'
    BY <1>3 DEF KeysInv, MutedIsNotHeld, Muting, NeverReleased, NothingIsLost
  <2>3. KeysAccounted'
    BY <1>2, <1>3 DEF KeysInv, KeysAccounted
  <2> QED
    BY <1>3, <2>1, <2>2, <2>3 DEF KeysInv
<1> QED
  BY <1>1, <1>3 DEF KeyboardInv, KeysInv

LEMMA KeysymsTell ==
    ASSUME NEW code \in Codes, NEW keysym \in Keysyms(code)
    PROVE  keysym \in Keys \cup {"a", "A"} /\ (code # "KeyA" => keysym = code)
  BY DEF Keysyms, Keys

\* The user presses, repeats or releases a key.
LEMMA UserKeeps ==
    ASSUME KeyboardInv, queue = <<>>, UNCHANGED <<os, kb, odd>>, UserTyped',
           KeysInv => /\ PressesAreReal' /\ FakeIsAltGr'
                      /\ \A i \in 1 .. Len(queue') : Muting(queue[i])'
                      /\ os = "mac" => user'.muted \cap DOMAIN kb.down = {}
                      /\ \A code \in DOMAIN kb.down \cup Armed(kb) : Accounted(code)'
    PROVE  KeyboardInv'
<1>1. KeyboardTyped(kb)' /\ (Sound(kb) => Sound(kb)')
  BY DEF KeyboardInv
<1>2. ASSUME KeysInv PROVE KeysInv'
  <2>1. PressesAreReal' /\ FakeIsAltGr' /\ Sound(kb)'
    BY <1>1, <1>2 DEF KeysInv
  <2>2. MutedIsNotHeld' /\ NothingIsLost'
    BY <1>2 DEF KeysInv, MutedIsNotHeld, NothingIsLost
  <2>3. KeysAccounted'
    BY <1>2 DEF KeysInv, KeysAccounted, Armed
  <2> QED
    BY <2>1, <2>2, <2>3 DEF KeysInv
<1> QED
  BY <1>1, <1>2 DEF KeyboardInv

LEMMA PressKeyKeeps ==
    ASSUME KeyboardInv, PressKey
    PROVE  KeyboardInv'
<1>1. PICK code \in Codes \ user.keys :
         /\ \E keysym \in Keysyms(code), quick \in BOOLEAN : queue' = EventsOfPress(code, keysym, quick)
         /\ user' = [user EXCEPT !.keys = @ \cup {code},
                                !.muted = IF MetaHeld THEN @ \cup ({code} \ Modifiers) ELSE @,
                                !.fakeCtrl = @ \/ (os = "windows" /\ code = "AltRight"
                                                   /\ "ControlLeft" \notin user.keys),
                                !.caps = IF code = "CapsLock" THEN ~ @ ELSE @]
  BY DEF PressKey
<1>2. PICK keysym \in Keysyms(code), quick \in BOOLEAN : queue' = EventsOfPress(code, keysym, quick)
  BY <1>1
<1>3. queue = <<>> /\ UNCHANGED <<os, kb, odd>> /\ Len(queue) = 0
  BY DEF PressKey
<1>4. DOMAIN user = UserFields /\ user.keys \subseteq Codes /\ user.touches \subseteq Fingers
      /\ user.muted \subseteq user.keys \ Modifiers
  BY DEF KeyboardInv, UserTyped
<1>5. /\ DOMAIN user' = UserFields /\ user'.keys = user.keys \cup {code} /\ user'.touches = user.touches
      /\ user'.muted = (IF MetaHeld THEN user.muted \cup ({code} \ Modifiers) ELSE user.muted)
      /\ user'.fakeCtrl = (user.fakeCtrl \/ (os = "windows" /\ code = "AltRight" /\ "ControlLeft" \notin user.keys))
  BY <1>1, <1>4 DEF UserFields
<1>6. code \in Keys /\ keysym \in Keys \cup {"a", "A"} /\ (code # "KeyA" => keysym = code) /\ "ControlLeft" \in Keys
  BY KeysymsTell DEF Keys
<1> DEFINE ctrl == Event("down", "ControlLeft", "ControlLeft", FALSE)
           pressed == Event("down", code, keysym, quick)
           capsUp == Event("up", code, keysym, FALSE)
<1>7. /\ ctrl \in KeyEvents /\ ctrl.type = "down" /\ ctrl.code = "ControlLeft" /\ ctrl.keysym = "ControlLeft"
      /\ pressed \in KeyEvents /\ pressed.type = "down" /\ pressed.code = code /\ pressed.keysym = keysym
      /\ pressed.meta <=> MetaHeld
      /\ capsUp \in KeyEvents /\ capsUp.type = "up" /\ capsUp.code = code /\ capsUp.keysym = keysym
  BY <1>6 DEF Event, KeyEvents, MetaHeld
<1>8. \/ /\ queue' = <<ctrl, pressed>>
         /\ os = "windows" /\ code = "AltRight" /\ "ControlLeft" \notin user.keys
      \/ queue' = <<capsUp>>
      \/ queue' = <<pressed>>
  BY <1>2 DEF EventsOfPress
<1> HIDE DEF ctrl, pressed, capsUp
<1>9. /\ queue' \in Seq(KeyEvents) /\ Len(queue') <= 2
      /\ \A i \in 1 .. Len(queue') :
            \/ queue'[i] = ctrl /\ os = "windows" /\ code = "AltRight" /\ "ControlLeft" \notin user.keys
            \/ queue'[i] = capsUp
            \/ queue'[i] = pressed
  <2>1. CASE queue' = <<ctrl, pressed>> /\ os = "windows" /\ code = "AltRight" /\ "ControlLeft" \notin user.keys
    BY <1>7, <2>1
  <2>2. CASE queue' = <<capsUp>>
    BY <1>7, <2>2
  <2>3. CASE queue' = <<pressed>>
    BY <1>7, <2>3
  <2> QED
    BY <1>8, <2>1, <2>2, <2>3
<1>10. UserTyped'
  BY <1>4, <1>5, <1>9 DEF UserTyped
<1>11. ASSUME KeysInv
       PROVE  /\ PressesAreReal' /\ FakeIsAltGr'
              /\ \A i \in 1 .. Len(queue') : Muting(queue[i])'
              /\ os = "mac" => user'.muted \cap DOMAIN kb.down = {}
              /\ \A c \in DOMAIN kb.down \cup Armed(kb) : Accounted(c)'
  <2>1. \A i \in 1 .. Len(queue') : Real(queue[i])'
    BY <1>5, <1>6, <1>7, <1>9 DEF Real, Telling
  <2>2. FakeIsAltGr'
    BY <1>3, <1>5, <1>11 DEF KeysInv, FakeIsAltGr
  <2>4. \A c \in DOMAIN kb.down \cup Armed(kb) : Accounted(c) /\ ~ UpComes(c)
    BY <1>3, <1>11 DEF KeysInv, KeysAccounted, Armed, UpComes
  <2>5. \A s : ~ UpComes(s)
    BY <1>3 DEF UpComes
  <2>6. \A c \in DOMAIN kb.down \cup Armed(kb) : Accounted(c)'
    BY <1>3, <1>5, <2>4, <2>5 DEF Accounted
  <2>7. os = "mac" => code \notin DOMAIN kb.down
    <3>1. code \in DOMAIN kb.down => Accounted(code) /\ ~ UpComes(code)
      BY <2>4
    <3>2. os = "mac" => ~ user.fakeCtrl
      BY <1>11 DEF KeysInv, FakeIsAltGr
    <3> QED
      BY <3>1, <3>2 DEF Accounted
  <2>8. os = "mac" => user'.muted \cap DOMAIN kb.down = {}
    BY <1>5, <1>11, <2>7 DEF KeysInv, MutedIsNotHeld
  <2>9. os = "mac" /\ code \in user'.muted => NeverReleased(pressed)
    BY <1>4, <1>5, <1>7 DEF NeverReleased, Modifiers
  <2> QED
    BY <1>3, <1>7, <1>9, <2>1, <2>2, <2>6, <2>8, <2>9 DEF PressesAreReal, Muting, NeverReleased
<1> QED
  BY <1>3, <1>10, <1>11, UserKeeps

LEMMA RepeatKeyKeeps ==
    ASSUME KeyboardInv, RepeatKey
    PROVE  KeyboardInv'
<1>1. PICK code \in user.keys :
         /\ \E keysym \in Keysyms(code) : queue' = <<Event("down", code, keysym, FALSE)>>
         /\ user' = [user EXCEPT !.muted = IF MetaHeld THEN @ ELSE @ \ {code}]
  BY DEF RepeatKey
<1>2. PICK keysym \in Keysyms(code) : queue' = <<Event("down", code, keysym, FALSE)>>
  BY <1>1
<1>3. queue = <<>> /\ UNCHANGED <<os, kb, odd>>
  BY DEF RepeatKey
<1>4. /\ DOMAIN user = UserFields /\ user.keys \subseteq Codes /\ user.touches \subseteq Fingers
      /\ user.muted \subseteq user.keys \ Modifiers
  BY DEF KeyboardInv, UserTyped
<1>5. /\ DOMAIN user' = UserFields /\ user'.keys = user.keys /\ user'.touches = user.touches
      /\ user'.muted = (IF MetaHeld THEN user.muted ELSE user.muted \ {code})
      /\ user'.fakeCtrl = user.fakeCtrl
  BY <1>1, <1>4 DEF UserFields
<1>6. code \in Codes /\ code \in Keys /\ keysym \in Keys \cup {"a", "A"} /\ (code # "KeyA" => keysym = code)
  BY <1>4, KeysymsTell DEF Keys
<1> DEFINE pressed == Event("down", code, keysym, FALSE)
<1>7. /\ pressed \in KeyEvents /\ pressed.type = "down" /\ pressed.code = code /\ pressed.keysym = keysym
      /\ pressed.meta <=> MetaHeld
  BY <1>6 DEF Event, KeyEvents, MetaHeld
<1>8. queue' = <<pressed>>
  BY <1>2
<1> HIDE DEF pressed
<1>9. queue' \in Seq(KeyEvents) /\ Len(queue') <= 2 /\ \A i \in 1 .. Len(queue') : queue'[i] = pressed
  BY <1>7, <1>8
<1>10. UserTyped'
  BY <1>4, <1>5, <1>9 DEF UserTyped
<1>11. ASSUME KeysInv
       PROVE  /\ PressesAreReal' /\ FakeIsAltGr'
              /\ \A i \in 1 .. Len(queue') : Muting(queue[i])'
              /\ os = "mac" => user'.muted \cap DOMAIN kb.down = {}
              /\ \A c \in DOMAIN kb.down \cup Armed(kb) : Accounted(c)'
  <2>1. \A i \in 1 .. Len(queue') : Real(queue[i])'
    BY <1>5, <1>6, <1>7, <1>9 DEF Real, Telling
  <2>2. FakeIsAltGr'
    BY <1>3, <1>5, <1>11 DEF KeysInv, FakeIsAltGr
  <2>3. \A c \in DOMAIN kb.down \cup Armed(kb) : Accounted(c)
    BY <1>11 DEF KeysInv, KeysAccounted, Armed
  <2>4. \A s : ~ UpComes(s)
    BY <1>3 DEF UpComes
  <2>5. \A c \in DOMAIN kb.down \cup Armed(kb) : Accounted(c)'
    BY <1>3, <1>5, <2>3, <2>4 DEF Accounted
  <2>6. os = "mac" => user'.muted \cap DOMAIN kb.down = {}
    BY <1>5, <1>11 DEF KeysInv, MutedIsNotHeld
  <2>7. os = "mac" /\ code \in user'.muted => NeverReleased(pressed)
    BY <1>4, <1>5, <1>7 DEF NeverReleased, Modifiers
  <2> QED
    BY <1>3, <1>7, <1>9, <2>1, <2>2, <2>5, <2>6, <2>7 DEF PressesAreReal, Muting, NeverReleased
<1> QED
  BY <1>3, <1>10, <1>11, UserKeeps

LEMMA ReleaseKeyKeeps ==
    ASSUME KeyboardInv, ReleaseKey
    PROVE  KeyboardInv'
<1>1. PICK code \in user.keys :
         /\ queue' = EventsOfRelease(code)
         /\ user' = [user EXCEPT !.keys = @ \ {code}, !.muted = @ \ {code},
                                 !.fakeCtrl = @ /\ code # "AltRight"]
  BY DEF ReleaseKey
<1>2. queue = <<>> /\ UNCHANGED <<os, kb, odd>>
  BY DEF ReleaseKey
<1>3. /\ DOMAIN user = UserFields /\ user.keys \subseteq Codes /\ user.touches \subseteq Fingers
      /\ user.muted \subseteq user.keys \ Modifiers
  BY DEF KeyboardInv, UserTyped
<1>4. /\ DOMAIN user' = UserFields /\ user'.keys = user.keys \ {code} /\ user'.touches = user.touches
      /\ user'.muted = user.muted \ {code}
      /\ user'.fakeCtrl = (user.fakeCtrl /\ code # "AltRight")
  BY <1>1, <1>3 DEF UserFields
<1> DEFINE up == Event("up", code, code, FALSE)
           ctrl == Event("up", "ControlLeft", "ControlLeft", FALSE)
<1>5. /\ up \in KeyEvents /\ up.type = "up" /\ up.code = code /\ up.keysym = code
      /\ ctrl \in KeyEvents /\ ctrl.type = "up" /\ ctrl.code = "ControlLeft" /\ ctrl.keysym = "ControlLeft"
  BY <1>3 DEF Event, KeyEvents, Keys, MetaHeld
<1>6. \/ queue' = <<>> /\ Unheard(code)
      \/ queue' = <<ctrl, up>> /\ ~ Unheard(code)
      \/ queue' = <<up>> /\ ~ Unheard(code) /\ ~ (os = "windows" /\ code = "AltRight" /\ user.fakeCtrl)
  BY <1>1 DEF EventsOfRelease
<1> HIDE DEF up, ctrl
<1>7. /\ queue' \in Seq(KeyEvents) /\ Len(queue') <= 2
      /\ \A i \in 1 .. Len(queue') : queue'[i] \in {ctrl, up}
      /\ ~ Unheard(code) => UpComes(code)'
      /\ ~ Unheard(code) /\ os = "windows" /\ code = "AltRight" /\ user.fakeCtrl => UpComes("ControlLeft")'
  <2>1. CASE queue' = <<>> /\ Unheard(code)
    BY <1>5, <2>1
  <2>2. CASE queue' = <<ctrl, up>> /\ ~ Unheard(code)
    <3>1. Len(queue') = 2 /\ queue'[1] = ctrl /\ queue'[2] = up
      BY <2>2
    <3> QED
      BY <1>5, <2>2, <3>1 DEF UpComes
  <2>3. CASE queue' = <<up>> /\ ~ Unheard(code) /\ ~ (os = "windows" /\ code = "AltRight" /\ user.fakeCtrl)
    <3>1. Len(queue') = 1 /\ queue'[1] = up
      BY <2>3
    <3> QED
      BY <1>5, <2>3, <3>1 DEF UpComes
  <2> QED
    BY <1>6, <2>1, <2>2, <2>3
<1>8. UserTyped'
  BY <1>3, <1>4, <1>7 DEF UserTyped
<1>9. ASSUME KeysInv
      PROVE  /\ PressesAreReal' /\ FakeIsAltGr'
             /\ \A i \in 1 .. Len(queue') : Muting(queue[i])'
             /\ os = "mac" => user'.muted \cap DOMAIN kb.down = {}
             /\ \A c \in DOMAIN kb.down \cup Armed(kb) : Accounted(c)'
  <2>1. \A i \in 1 .. Len(queue') : Real(queue[i])' /\ Muting(queue[i])'
    BY <1>5, <1>7 DEF Real, Telling, Muting
  <2>2. FakeIsAltGr'
    BY <1>2, <1>4, <1>9 DEF KeysInv, FakeIsAltGr
  <2>3. \A s : ~ UpComes(s)
    BY <1>2 DEF UpComes
  <2>4. os = "mac" => user'.muted \cap DOMAIN kb.down = {}
    BY <1>4, <1>9 DEF KeysInv, MutedIsNotHeld
  <2>5. ASSUME NEW c \in DOMAIN kb.down \cup Armed(kb)
        PROVE  Accounted(c)'
    <3>1. Accounted(c)
      BY <1>9 DEF KeysInv, KeysAccounted, Armed
    <3>2. CASE c \in user.keys /\ c # code
      BY <1>4, <3>2 DEF Accounted
    <3>3. CASE c = code
      <4>1. CASE ~ Unheard(code)
        BY <1>7, <3>3, <4>1 DEF Accounted
      <4>2. CASE os = "windows" /\ code \in Shifts /\ Shifts \subseteq user.keys
        <5>1. Shifts \cap user'.keys # {}
          BY <1>4, <4>2 DEF Shifts
        <5> QED
          BY <1>2, <3>3, <4>2, <5>1 DEF Accounted
      <4>3. CASE os = "mac" /\ (code = "CapsLock" \/ code \in user.muted)
        BY <1>9, <3>3, <4>3 DEF KeysInv, KeysAccounted, MutedIsNotHeld, NothingIsLost, Armed
      <4>4. CASE os = "windows" /\ code = "Zenkaku"
        BY <1>9, <3>3, <4>4 DEF KeysInv, NothingIsLost, Armed
      <4> QED
        BY <4>1, <4>2, <4>3, <4>4 DEF Unheard
    <3>4. CASE c = "ControlLeft" /\ user.fakeCtrl
      <4>1. os = "windows"
        BY <1>9, <3>4 DEF KeysInv, FakeIsAltGr
      <4>2. code = "AltRight" => ~ Unheard(code)
        BY <4>1 DEF Unheard, Shifts
      <4> QED
        BY <1>4, <1>7, <3>4, <4>1, <4>2 DEF Accounted
    <3>5. CASE os = "windows" /\ c \in Shifts /\ Shifts \cap user.keys # {}
      <4>1. CASE code \in Shifts /\ ~ Unheard(code)
        BY <1>2, <1>7, <3>5, <4>1 DEF Accounted
      <4>2. CASE code \notin Shifts
        <5>1. Shifts \cap user'.keys # {}
          BY <1>4, <3>5, <4>2
        <5> QED
          BY <1>2, <3>5, <5>1 DEF Accounted
      <4>3. CASE code \in Shifts /\ Unheard(code)
        <5>1. Shifts \subseteq user.keys
          BY <3>5, <4>3 DEF Unheard, Shifts
        <5>2. Shifts \cap user'.keys # {}
          BY <1>4, <5>1 DEF Shifts
        <5> QED
          BY <1>2, <3>5, <5>2 DEF Accounted
      <4> QED
        BY <4>1, <4>2, <4>3
    <3> QED
      BY <2>3, <3>1, <3>2, <3>3, <3>4, <3>5 DEF Accounted
  <2> QED
    BY <2>1, <2>2, <2>4, <2>5 DEF PressesAreReal
<1> QED
  BY <1>2, <1>8, <1>9, UserKeeps

LEMMA KeyEventKeeps ==
    ASSUME KeyboardInv, KeyEvent
    PROVE  KeyboardInv'
<1> DEFINE e == queue[1]
<1>1. /\ queue # <<>> /\ queue' = Tail(queue) /\ UNCHANGED <<os, user, odd>>
      /\ kb' = IF Head(queue).type = "down" THEN HandleKeyDown(kb, Head(queue)) ELSE HandleKeyUp(kb, Head(queue))
  BY DEF KeyEvent
<1>2. queue \in Seq(KeyEvents) /\ Len(queue) <= 2
  BY DEF KeyboardInv, UserTyped
<1>3. /\ e \in KeyEvents /\ Head(queue) = e /\ queue' \in Seq(KeyEvents)
      /\ Len(queue') = Len(queue) - 1 /\ \A i \in 1 .. Len(queue') : queue'[i] = queue[i + 1]
  BY <1>1, <1>2
<1>4. \/ e.type = "down" /\ kb' = HandleKeyDown(kb, e)
      \/ e.type = "up" /\ kb' = HandleKeyUp(kb, e)
  BY <1>1, <1>3 DEF KeyEvents
<1>5. KeyboardTyped(kb)'
  <2>1. KeyboardTyped(kb)
    BY DEF KeyboardInv
  <2> QED
    BY <1>3, <1>4, <2>1, KeyDownTyped, KeyUpTyped
<1>6. UserTyped'
  BY <1>1, <1>2, <1>3 DEF KeyboardInv, UserTyped, UserFields
<1>7. 1 \in 1 .. Len(queue) /\ \A i \in 1 .. Len(queue') : i + 1 \in 1 .. Len(queue)
  BY <1>1, <1>2, <1>3
<1>8. ASSUME NEW code, UpComes(code), ~ (e.type = "up" /\ e.code = code) PROVE UpComes(code)'
  <2>1. PICK i \in 1 .. Len(queue) : queue[i].type = "up" /\ queue[i].code = code
    BY <1>8 DEF UpComes
  <2>2. i # 1
    BY <1>8, <2>1
  <2>3. i - 1 \in 1 .. Len(queue') /\ queue'[i - 1] = queue[i]
    BY <1>2, <1>3, <2>1, <2>2
  <2> QED
    BY <2>1, <2>3 DEF UpComes
<1>9. ASSUME KeysInv PROVE KeysInv'
  <2>1. Real(e) /\ Muting(e)
    BY <1>7, <1>9 DEF KeysInv, PressesAreReal, MutedIsNotHeld
  <2>2. PressesAreReal' /\ \A i \in 1 .. Len(queue') : Muting(queue[i])'
    BY <1>1, <1>3, <1>7, <1>9 DEF KeysInv, PressesAreReal, MutedIsNotHeld, Real, Muting, NeverReleased
  <2>3. FakeIsAltGr'
    BY <1>1, <1>9 DEF KeysInv, FakeIsAltGr
  <2>4. Sound(kb) /\ Telling(e)
    BY <1>9, <2>1 DEF KeysInv, Real
  <2>5. \A c \in DOMAIN kb.down \cup Armed(kb) : Accounted(c)
    BY <1>9 DEF KeysInv, KeysAccounted, Armed
  <2>6. os # "windows" => Armed(kb) = {}
    BY <1>9 DEF KeysInv, KeysAccounted, Armed
  <2>7. ASSUME NEW c, Accounted(c), ~ (e.type = "up" /\ e.code = c),
               ~ (e.type = "up" /\ e.code \in Shifts /\ c \in Shifts /\ os = "windows")
        PROVE  Accounted(c)'
    <3>1. UpComes(c) => UpComes(c)'
      BY <1>8, <2>7
    <3>2. os = "windows" /\ c \in Shifts => \A s \in Shifts : UpComes(s) => UpComes(s)'
      BY <1>8, <2>7
    <3> QED
      BY <1>1, <2>7, <3>1, <3>2 DEF Accounted
  <2>8. CASE e.type = "down"
    <3>1. /\ Sound(kb)' /\ (kb'.armed => os = "windows" /\ e.code = "ControlLeft")
          /\ DOMAIN kb'.down \subseteq DOMAIN kb.down \cup Armed(kb) \cup {e.code}
          /\ NeverReleased(e) => e.code \notin DOMAIN kb'.down
      BY <1>3, <1>4, <2>4, <2>8, KeyDownSound
    <3>2. Accounted(e.code)
      BY <2>1, <2>8 DEF Real, Accounted
    <3>3. \A c \in DOMAIN kb'.down : Accounted(c)'
      BY <2>5, <2>7, <2>8, <3>1, <3>2
    <3>4. kb'.armed => os' = "windows" /\ Accounted("ControlLeft")'
      BY <1>1, <2>7, <2>8, <3>1, <3>2
    <3>5. NothingIsLost'
      <4>1. os = "mac" => (e.code = "CapsLock" => NeverReleased(e)) /\ "CapsLock" \notin DOMAIN kb.down
        BY <1>9 DEF NeverReleased, KeysInv, NothingIsLost
      <4>2. os = "windows" => (e.code = "Zenkaku" => NeverReleased(e)) /\ "Zenkaku" \notin DOMAIN kb.down
        BY <1>9 DEF NeverReleased, KeysInv, NothingIsLost
      <4> QED
        BY <1>1, <3>1, <4>1, <4>2 DEF NothingIsLost, Armed
    <3>6. MutedIsNotHeld'
      <4>1. os = "mac" => user.muted \cap DOMAIN kb'.down = {}
        <5>1. os = "mac" => user.muted \cap DOMAIN kb.down = {}
          BY <1>9 DEF KeysInv, MutedIsNotHeld
        <5>2. os = "mac" /\ e.code \in user.muted => NeverReleased(e)
          BY <2>1, <2>8 DEF Muting
        <5> QED
          BY <2>6, <3>1, <5>1, <5>2
      <4> QED
        BY <1>1, <2>2, <4>1 DEF MutedIsNotHeld
    <3> QED
      BY <2>2, <2>3, <3>1, <3>3, <3>4, <3>5, <3>6 DEF KeysInv, KeysAccounted
  <2>9. CASE e.type = "up"
    <3>1. /\ Sound(kb)' /\ ~ kb'.armed
          /\ DOMAIN kb'.down \subseteq (DOMAIN kb.down \cup Armed(kb)) \ {e.code}
          /\ os = "windows" /\ e.code \in Shifts => DOMAIN kb'.down \cap Shifts = {}
      BY <1>3, <1>4, <2>4, <2>9, KeyUpSound
    <3>2. \A c \in DOMAIN kb'.down : Accounted(c)'
      BY <2>5, <2>7, <3>1
    <3>3. NothingIsLost'
      BY <1>1, <1>9, <3>1 DEF KeysInv, NothingIsLost, Armed
    <3>4. MutedIsNotHeld'
      BY <1>1, <1>9, <2>2, <2>6, <3>1 DEF KeysInv, MutedIsNotHeld
    <3> QED
      BY <2>2, <2>3, <3>1, <3>2, <3>3, <3>4 DEF KeysInv, KeysAccounted
  <2> QED
    BY <1>4, <2>8, <2>9
<1> QED
  BY <1>1, <1>5, <1>6, <1>9 DEF KeyboardInv

LEMMA AltGrTimeoutKeeps ==
    ASSUME KeyboardInv, AltGrTimeout
    PROVE  KeyboardInv'
<1>1. kb.armed /\ kb' = Disarm(kb) /\ UNCHANGED <<os, user, queue, odd>>
  BY DEF AltGrTimeout
<1>2. KeyboardTyped(kb)'
  BY <1>1, DisarmTyped DEF KeyboardInv
<1>3. UserTyped'
  BY <1>1 DEF KeyboardInv, UserTyped, UserFields
<1>4. ASSUME KeysInv PROVE KeysInv'
  <2>1. Sound(kb)' /\ ~ kb'.armed /\ DOMAIN kb'.down = DOMAIN kb.down \cup {"ControlLeft"}
    BY <1>1, <1>4, DisarmSound DEF KeysInv, Armed
  <2>2. os = "windows" /\ Accounted("ControlLeft")
    BY <1>1, <1>4 DEF KeysInv, KeysAccounted
  <2>3. PressesAreReal' /\ FakeIsAltGr' /\ MutedIsNotHeld'
    BY <1>1, <1>4, <2>2 DEF KeysInv, PressesAreReal, Real, FakeIsAltGr, MutedIsNotHeld, Muting
  <2>4. NothingIsLost'
    BY <1>1, <1>4, <2>1, <2>2 DEF KeysInv, NothingIsLost
  <2>5. \A c : Accounted(c) => Accounted(c)'
    BY <1>1 DEF Accounted, UpComes
  <2>6. KeysAccounted'
    BY <1>4, <2>1, <2>2, <2>5 DEF KeysInv, KeysAccounted
  <2> QED
    BY <2>1, <2>3, <2>4, <2>6 DEF KeysInv
<1> QED
  BY <1>1, <1>2, <1>3, <1>4 DEF KeyboardInv

LEMMA AllKeysUpTyped ==
    ASSUME NEW k, KeyboardTyped(k)
    PROVE  LET j == AllKeysUp(k)
           IN  KeyboardTyped(j) /\ j.armed = k.armed /\ DOMAIN j.down = {} /\ (Sound(k) => Sound(j))
<1> DEFINE j == AllKeysUp(k)
<1>1. /\ DOMAIN j = DOMAIN k /\ j.down = <<>> /\ j.armed = k.armed /\ j.viewOnly = k.viewOnly
      /\ j.server = IF k.viewOnly THEN k.server ELSE k.server \ Range(k.down)
  BY DEF AllKeysUp, KeyboardTyped, KeyboardFields
<1>2. DOMAIN j.down = {} /\ Range(j.down) = {}
  BY <1>1 DEF Range
<1> QED
  BY <1>1, <1>2 DEF KeyboardTyped, KeyboardFields, Sound

LEMMA BlurKeeps ==
    ASSUME KeyboardInv, Blur
    PROVE  KeyboardInv'
<1>1. /\ queue = <<>> /\ kb' = AllKeysUp(kb) /\ UNCHANGED <<os, queue>> /\ odd' = (odd \/ kb.armed)
      /\ user' = [user EXCEPT !.keys = {}, !.muted = {}, !.fakeCtrl = FALSE]
  BY DEF Blur
<1>2. KeyboardTyped(kb)' /\ kb'.armed = kb.armed /\ DOMAIN kb'.down = {} /\ (Sound(kb) => Sound(kb)')
  BY <1>1, AllKeysUpTyped DEF KeyboardInv
<1>3. UserTyped' /\ ~ user'.fakeCtrl
  BY <1>1 DEF KeyboardInv, UserTyped, UserFields
<1>4. \A i \in 1 .. Len(queue') : FALSE
  BY <1>1
<1>5. ASSUME KeysInv, ~ kb.armed PROVE KeysInv'
  <2>1. Sound(kb)' /\ ~ kb'.armed
    BY <1>2, <1>5 DEF KeysInv
  <2>2. PressesAreReal' /\ FakeIsAltGr' /\ MutedIsNotHeld' /\ NothingIsLost' /\ KeysAccounted'
    BY <1>2, <1>3, <1>4, <2>1 DEF PressesAreReal, FakeIsAltGr, MutedIsNotHeld, NothingIsLost, KeysAccounted
  <2> QED
    BY <2>1, <2>2 DEF KeysInv
<1> QED
  BY <1>1, <1>2, <1>3, <1>5 DEF KeyboardInv

LEMMA SetViewOnlyKeeps ==
    ASSUME KeyboardInv, SetViewOnly
    PROVE  KeyboardInv'
<1> DEFINE k == [kb EXCEPT !.viewOnly = ~ @]
<1>1. /\ kb' = (IF k.viewOnly THEN AllKeysUp(k) ELSE k) /\ UNCHANGED <<os, user, queue>> /\ odd'
  BY DEF SetViewOnly
<1>2. KeyboardTyped(k)
  BY DEF KeyboardInv, KeyboardTyped, KeyboardFields
<1> HIDE DEF k
<1>3. KeyboardTyped(kb)'
  BY <1>1, <1>2, AllKeysUpTyped
<1>4. UserTyped'
  BY <1>1 DEF KeyboardInv, UserTyped, UserFields
<1> QED
  BY <1>1, <1>3, <1>4 DEF KeyboardInv
-----------------------------------------------------------------------------
(* The pointer.                                                            *)

MouseFields(m) ==
    DOMAIN m = {"mask", "timer", "pos", "drag", "dragging", "hasMoved", "server", "at", "last"}

MouseTyped(m) ==
    /\ MouseFields(m) /\ m.timer \in BOOLEAN
    /\ m.mask \subseteq Buttons /\ m.server \subseteq Buttons

\* The server knows the buttons the RFB does, and the place unless a move is
\* held back, that to the last place.  Of the buttons only those of some are
\* sent while the viewport can be dragged, and it is dragged only then.
Faithful(m, some) ==
    /\ MouseFields(m) /\ m.timer \in BOOLEAN /\ m.server = m.mask
    /\ IF m.timer THEN m.pos = m.last ELSE m.at = m.last
    /\ IF m.drag THEN m.mask \subseteq some ELSE ~ m.dragging

ButtonDown(m, place, button) == HandleMouseButton(m, place, TRUE, button)
ButtonUp(m, place, button) == HandleMouseButton(m, place, FALSE, button)

LEMMA MoveTyped ==
    ASSUME NEW m, MouseTyped(m), NEW place, NEW far, NEW soon
    PROVE  MouseTyped(HandleMouseMove(m, place, far, soon))
<1> USE DEF MouseTyped, MouseFields, SendMouse, Points
<1>1. CASE m.dragging
  BY <1>1 DEF HandleMouseMove
<1>2. CASE ~ m.dragging /\ (m.timer \/ soon)
  BY <1>2 DEF HandleMouseMove
<1>3. CASE ~ m.dragging /\ ~ (m.timer \/ soon)
  BY <1>3 DEF HandleMouseMove
<1> QED
  BY <1>1, <1>2, <1>3

LEMMA MoveFaithful ==
    ASSUME ~ kb.viewOnly, NEW m, NEW some, Faithful(m, some), NEW place, NEW far, NEW soon
    PROVE  LET j == HandleMouseMove(m, place, far, soon)
           IN  Faithful(j, some) /\ j.mask = m.mask /\ j.drag = m.drag /\ j.dragging = m.dragging
<1> USE DEF Faithful, MouseFields, SendMouse, Points
<1>1. CASE m.dragging
  BY <1>1 DEF HandleMouseMove
<1>2. CASE ~ m.dragging /\ (m.timer \/ soon)
  BY <1>2 DEF HandleMouseMove
<1>3. CASE ~ m.dragging /\ ~ (m.timer \/ soon)
  BY <1>3 DEF HandleMouseMove
<1> QED
  BY <1>1, <1>2, <1>3

LEMMA DelayedFaithful ==
    ASSUME NEW m
    PROVE  LET j == HandleDelayedMouseMove(m)
           IN  /\ MouseTyped(m) => MouseTyped(j)
               /\ \A some : ~ kb.viewOnly /\ Faithful(m, some) /\ m.timer =>
                     Faithful(j, some) /\ j.mask = m.mask /\ j.drag = m.drag /\ j.dragging = m.dragging
  BY DEF HandleDelayedMouseMove, MouseTyped, Faithful, MouseFields, SendMouse

\* The three ways a button goes.
Begins(m) == m.drag /\ ~ m.dragging
Begun(m) == [m EXCEPT !.dragging = TRUE, !.hasMoved = FALSE]
Settled(m) == [m EXCEPT !.dragging = FALSE]
Clicked(m, place, button) == IF m.drag THEN SendMouse([m EXCEPT !.dragging = FALSE], place, {button}) ELSE m
Flushed(m, place, button) ==
    IF m.timer THEN SendMouse([Clicked(m, place, button) EXCEPT !.timer = FALSE], place, m.mask)
    ELSE Clicked(m, place, button)
Sent(m, place, button, mask) ==
    SendMouse(Points([Flushed(m, place, button) EXCEPT !.mask = mask], place), place, mask)

LEMMA PressBegins ==
    ASSUME NEW m, NEW place, NEW button, Begins(m)
    PROVE  ButtonDown(m, place, button) = Begun(m)
  BY DEF ButtonDown, ButtonUp, Begun, Settled, HandleMouseButton, Begins, Clicked, Flushed, Sent

LEMMA PressEnds ==
    ASSUME NEW m, NEW place, NEW button, ~ Begins(m), m.drag, m.hasMoved
    PROVE  ButtonDown(m, place, button) = Settled(m)
  BY DEF ButtonDown, ButtonUp, Begun, Settled, HandleMouseButton, Begins, Clicked, Flushed, Sent

LEMMA PressSends ==
    ASSUME NEW m, NEW place, NEW button, ~ Begins(m), ~ (m.drag /\ m.hasMoved)
    PROVE  ButtonDown(m, place, button) = Sent(m, place, button, m.mask \cup {button})
  BY DEF ButtonDown, ButtonUp, Begun, Settled, HandleMouseButton, Begins, Clicked, Flushed, Sent

LEMMA ReleaseEnds ==
    ASSUME NEW m, NEW place, NEW button, m.drag, m.hasMoved
    PROVE  ButtonUp(m, place, button) = Settled(m)
  BY DEF ButtonDown, ButtonUp, Begun, Settled, HandleMouseButton, Begins, Clicked, Flushed, Sent

LEMMA ReleaseSends ==
    ASSUME NEW m, NEW place, NEW button, ~ (m.drag /\ m.hasMoved)
    PROVE  ButtonUp(m, place, button) = Sent(m, place, button, m.mask \ {button})
  BY DEF ButtonDown, ButtonUp, Begun, Settled, HandleMouseButton, Begins, Clicked, Flushed, Sent

LEMMA SentTyped ==
    ASSUME NEW m, MouseTyped(m), NEW place, NEW button \in Buttons, NEW mask \in SUBSET Buttons
    PROVE  MouseTyped(Sent(m, place, button, mask))
<1>1. MouseTyped(Clicked(m, place, button))
  BY DEF Clicked, MouseTyped, MouseFields, SendMouse
<1>2. MouseTyped(Flushed(m, place, button))
  BY <1>1 DEF Flushed, MouseTyped, MouseFields, SendMouse
<1> QED
  BY <1>2 DEF Sent, MouseTyped, MouseFields, SendMouse, Points

LEMMA SentFaithful ==
    ASSUME ~ kb.viewOnly, NEW m, NEW place, NEW button, NEW mask,
           MouseFields(m), m.timer \in BOOLEAN, m.drag \/ ~ m.dragging
    PROVE  LET j == Sent(m, place, button, mask)
           IN  /\ MouseFields(j) /\ ~ j.timer /\ j.timer \in BOOLEAN /\ j.server = mask /\ j.mask = mask
               /\ j.hasMoved = m.hasMoved /\ j.at = j.last /\ j.drag = m.drag /\ ~ j.dragging
<1> DEFINE c == Clicked(m, place, button)
           f == Flushed(m, place, button)
<1>1. MouseFields(c) /\ c.timer = m.timer /\ ~ c.dragging /\ c.drag = m.drag /\ c.hasMoved = m.hasMoved
  BY DEF Clicked, MouseFields, SendMouse
<1>2. f = IF m.timer THEN SendMouse([c EXCEPT !.timer = FALSE], place, m.mask) ELSE c
  BY DEF Flushed
<1> HIDE DEF c
<1>3. MouseFields(f) /\ ~ f.timer /\ f.timer \in BOOLEAN /\ ~ f.dragging /\ f.drag = m.drag /\ f.hasMoved = m.hasMoved
  BY <1>1, <1>2 DEF MouseFields, SendMouse
<1>4. Sent(m, place, button, mask) = SendMouse(Points([f EXCEPT !.mask = mask], place), place, mask)
  BY DEF Sent
<1> HIDE DEF f
<1> QED
  BY <1>3, <1>4 DEF MouseFields, SendMouse, Points

LEMMA ButtonTyped ==
    ASSUME NEW m, MouseTyped(m), NEW place, NEW button \in Buttons
    PROVE  MouseTyped(ButtonDown(m, place, button)) /\ MouseTyped(ButtonUp(m, place, button))
<1>1. m.mask \cup {button} \in SUBSET Buttons /\ m.mask \ {button} \in SUBSET Buttons
  BY DEF MouseTyped
<1>2. MouseTyped(Begun(m)) /\ MouseTyped(Settled(m))
  BY DEF Begun, Settled, MouseTyped, MouseFields
<1>3. /\ MouseTyped(Sent(m, place, button, m.mask \cup {button}))
      /\ MouseTyped(Sent(m, place, button, m.mask \ {button}))
  BY <1>1, SentTyped
<1>4. ButtonDown(m, place, button) \in {Begun(m), Settled(m), Sent(m, place, button, m.mask \cup {button})}
  BY PressBegins, PressEnds, PressSends
<1>5. ButtonUp(m, place, button) \in {Settled(m), Sent(m, place, button, m.mask \ {button})}
  BY ReleaseEnds, ReleaseSends
<1> QED
  BY <1>2, <1>3, <1>4, <1>5

\* A press begins a drag of the viewport, or ends one, or is sent.
LEMMA PressFaithful ==
    ASSUME ~ kb.viewOnly, NEW m, Faithful(m, {}), NEW place, NEW button
    PROVE  LET j == ButtonDown(m, place, button)
           IN  /\ Faithful(j, {button}) /\ j.mask \subseteq m.mask \cup {button} /\ j.drag = m.drag
               /\ ~ m.dragging => Faithful(j, {})
               /\ Faithful(j, {}) \/ ~ (j.drag /\ j.hasMoved)
               /\ j.dragging => Begins(m)
<1>1. MouseFields(m) /\ m.timer \in BOOLEAN /\ (m.drag \/ ~ m.dragging)
  BY DEF Faithful
<1>2. CASE Begins(m)
  <2>1. ButtonDown(m, place, button) = Begun(m)
    BY <1>2, PressBegins
  <2> QED
    BY <1>2, <2>1 DEF Faithful, MouseFields, Begins, Begun
<1>3. CASE ~ Begins(m) /\ m.drag /\ m.hasMoved
  <2>1. ButtonDown(m, place, button) = Settled(m)
    BY <1>3, PressEnds
  <2> QED
    BY <1>3, <2>1 DEF Faithful, MouseFields, Begins, Settled
<1>4. CASE ~ Begins(m) /\ ~ (m.drag /\ m.hasMoved)
  <2> DEFINE mask == m.mask \cup {button}
             j == Sent(m, place, button, mask)
  <2>1. ButtonDown(m, place, button) = j
    BY <1>4, PressSends
  <2>2. /\ MouseFields(j) /\ ~ j.timer /\ j.timer \in BOOLEAN /\ j.server = mask /\ j.mask = mask
        /\ j.hasMoved = m.hasMoved /\ j.at = j.last /\ j.drag = m.drag /\ ~ j.dragging
    BY <1>1, SentFaithful
  <2> HIDE DEF j
  <2> QED
    BY <1>4, <2>1, <2>2 DEF Faithful, Begins
<1> QED
  BY <1>2, <1>3, <1>4

\* A release ends a drag of the viewport or is sent.
LEMMA ReleaseFaithful ==
    ASSUME ~ kb.viewOnly, NEW m, NEW place, NEW button, Faithful(m, {button})
    PROVE  LET j == ButtonUp(m, place, button)
           IN  /\ j.mask \subseteq m.mask /\ j.drag = m.drag /\ ~ j.dragging
               /\ ~ (m.drag /\ m.hasMoved) => Faithful(j, {}) /\ button \notin j.mask
               /\ Faithful(m, {}) => Faithful(j, {}) /\ button \notin j.mask
<1>1. MouseFields(m) /\ m.timer \in BOOLEAN /\ (m.drag \/ ~ m.dragging)
  BY DEF Faithful
<1>2. CASE m.drag /\ m.hasMoved
  <2>1. ButtonUp(m, place, button) = Settled(m)
    BY <1>2, ReleaseEnds
  <2> QED
    BY <1>2, <2>1 DEF Faithful, MouseFields, Settled
<1>3. CASE ~ (m.drag /\ m.hasMoved)
  <2> DEFINE mask == m.mask \ {button}
             j == Sent(m, place, button, mask)
  <2>1. ButtonUp(m, place, button) = j
    BY <1>3, ReleaseSends
  <2>2. /\ MouseFields(j) /\ ~ j.timer /\ j.timer \in BOOLEAN /\ j.server = mask /\ j.mask = mask
        /\ j.hasMoved = m.hasMoved /\ j.at = j.last /\ j.drag = m.drag /\ ~ j.dragging
    BY <1>1, SentFaithful
  <2> HIDE DEF j
  <2> QED
    BY <2>1, <2>2 DEF Faithful
<1> QED
  BY <1>2, <1>3

LEMMA StepIs == ASSUME NEW m, NEW place, NEW button
                PROVE  Step(m, place, button) = ButtonUp(ButtonDown(m, place, button), place, button)
  BY DEF Step, ButtonUp, ButtonDown

LEMMA StepTyped ==
    ASSUME NEW m, MouseTyped(m), NEW place, NEW button \in Buttons
    PROVE  MouseTyped(Step(m, place, button))
<1> DEFINE d == ButtonDown(m, place, button)
<1>1. MouseTyped(d)
  BY ButtonTyped
<1>2. Step(m, place, button) = ButtonUp(d, place, button)
  BY StepIs
<1> HIDE DEF d
<1> QED
  BY <1>1, <1>2, ButtonTyped

\* A step presses nothing that stays.
LEMMA StepFaithful ==
    ASSUME ~ kb.viewOnly, NEW m, Faithful(m, {}), NEW place, NEW button
    PROVE  LET j == Step(m, place, button)
           IN  Faithful(j, {}) /\ j.mask \subseteq m.mask /\ j.drag = m.drag /\ ~ j.dragging
<1> DEFINE d == ButtonDown(m, place, button)
           u == ButtonUp(d, place, button)
<1>1. /\ Faithful(d, {button}) /\ d.mask \subseteq m.mask \cup {button} /\ d.drag = m.drag
      /\ Faithful(d, {}) \/ ~ (d.drag /\ d.hasMoved)
  BY PressFaithful
<1>2. Step(m, place, button) = u
  BY StepIs
<1> HIDE DEF d
<1>3. /\ u.mask \subseteq d.mask /\ u.drag = d.drag /\ ~ u.dragging
      /\ Faithful(u, {}) /\ button \notin u.mask
  BY <1>1, ReleaseFaithful
<1> QED
  BY <1>1, <1>2, <1>3

\* The move a gesture makes.
GestureMove(m, place, far, soon) == HandleMouseMove(m, place, far, soon)

LEMMA GestureMoveTyped ==
    ASSUME NEW m, MouseTyped(m), NEW place, NEW far, NEW soon
    PROVE  MouseTyped(GestureMove(m, place, far, soon))
<1>1. MouseTyped(HandleMouseMove(m, place, far, soon))
  BY MoveTyped
<1> QED
  BY <1>1 DEF GestureMove

LEMMA GestureMoveFaithful ==
    ASSUME ~ kb.viewOnly, NEW m, NEW some, Faithful(m, some), NEW place, NEW far, NEW soon
    PROVE  LET j == GestureMove(m, place, far, soon)
           IN  Faithful(j, some) /\ j.mask = m.mask /\ j.drag = m.drag /\ j.dragging = m.dragging
<1> USE DEF Faithful, MouseFields, SendMouse, Points
<1>1. CASE m.dragging
  BY <1>1 DEF HandleMouseMove, GestureMove
<1>2. CASE ~ m.dragging /\ (m.timer \/ soon)
  BY <1>2 DEF HandleMouseMove, GestureMove
<1>3. CASE ~ m.dragging /\ ~ (m.timer \/ soon)
  BY <1>3 DEF HandleMouseMove, GestureMove
<1> QED
  BY <1>1, <1>2, <1>3

\* What an event of a gesture does.
GestureEvents == [type : {"gesturestart", "gesturemove", "gestureend"}, gesture : AllGestures]
Kept == DOMAIN HeldButton
HeldBy(x) == IF x \in Kept THEN {HeldButton[x]} ELSE {}

LEMMA GestureKinds ==
    /\ Kept = {"drag", "longpress"} /\ AllGestures = Taps \cup TwoFinger \cup Kept
    /\ Taps \cap Kept = {} /\ TwoFinger \cap Kept = {}
    /\ \A x \in Taps : TapButton[x] \in Buttons
    /\ \A x \in Kept : HeldButton[x] \in Buttons
  BY DEF Kept, HeldButton, TapButton, Taps, TwoFinger, AllGestures, Buttons

LEMMA GestureIs ==
    ASSUME NEW m, NEW ev \in GestureEvents, NEW place, NEW far, NEW soon, NEW steps \in {"none", "up", "down"}
    PROVE  LET j == HandleGesture(m, ev, place, far, soon, steps)
               moved == GestureMove(m, place, far, soon)
           IN  IF ev.gesture \in Kept
               THEN j = IF ev.type = "gesturemove" THEN moved
                        ELSE IF ev.type = "gesturestart" THEN ButtonDown(moved, place, HeldButton[ev.gesture])
                        ELSE ButtonUp(moved, place, HeldButton[ev.gesture])
               ELSE \/ j \in {m, moved}
                    \/ \E button \in Buttons : j = Step(moved, place, button)
<1> DEFINE j == HandleGesture(m, ev, place, far, soon, steps)
           moved == GestureMove(m, place, far, soon)
<1>1. ev.gesture \in AllGestures /\ ev.type \in {"gesturestart", "gesturemove", "gestureend"}
  BY DEF GestureEvents
<1>2. CASE ev.gesture \in Taps
  <2>1. j = IF ev.type = "gesturestart" THEN Step(moved, place, TapButton[ev.gesture]) ELSE m
    BY <1>2, GestureKinds DEF HandleGesture, GestureMove, Kept
  <2> QED
    BY <1>2, <2>1, GestureKinds
<1>3. CASE ev.gesture \in Kept
  <2> DEFINE button == HeldButton[ev.gesture]
  <2>1. j = IF ev.type = "gesturemove" THEN moved
            ELSE HandleMouseButton(moved, place, ev.type = "gesturestart", button)
    BY <1>3, GestureKinds DEF HandleGesture, GestureMove, Kept
  <2>2. CASE ev.type = "gesturestart"
    <3>1. (ev.type = "gesturestart") = TRUE
      BY <2>2
    <3>2. j = ButtonDown(moved, place, button)
      BY <2>1, <2>2, <3>1 DEF ButtonDown
    <3> QED
      BY <1>3, <2>2, <3>2
  <2>3. CASE ev.type = "gestureend"
    <3>1. (ev.type = "gesturestart") = FALSE
      BY <2>3
    <3>2. j = ButtonUp(moved, place, button)
      BY <2>1, <2>3, <3>1 DEF ButtonUp
    <3> QED
      BY <1>3, <2>3, <3>2
  <2>4. CASE ev.type = "gesturemove"
    BY <1>3, <2>1, <2>4
  <2> QED
    BY <1>1, <2>2, <2>3, <2>4
<1>4. CASE ev.gesture \notin Taps /\ ev.gesture \notin Kept
  <2>1. j = CASE ev.type = "gesturestart" -> moved
              [] ev.type = "gesturemove" -> (IF steps = "none" THEN moved ELSE Step(moved, place, steps))
              [] OTHER -> m
    BY <1>4 DEF HandleGesture, GestureMove, Kept
  <2>2. steps # "none" => steps \in Buttons
    BY DEF Buttons
  <2> QED
    BY <1>1, <1>4, <2>1, <2>2
<1> QED
  BY <1>2, <1>3, <1>4

LEMMA GestureTyped ==
    ASSUME NEW m, MouseTyped(m), NEW ev \in GestureEvents, NEW place, NEW far, NEW soon,
           NEW steps \in {"none", "up", "down"}
    PROVE  MouseTyped(HandleGesture(m, ev, place, far, soon, steps))
<1>1. MouseTyped(GestureMove(m, place, far, soon))
  BY GestureMoveTyped
<1>2. \A button \in Buttons : MouseTyped(Step(GestureMove(m, place, far, soon), place, button))
  BY <1>1, StepTyped
<1>3. \A button \in Buttons : /\ MouseTyped(ButtonDown(GestureMove(m, place, far, soon), place, button))
                              /\ MouseTyped(ButtonUp(GestureMove(m, place, far, soon), place, button))
  BY <1>1, ButtonTyped
<1>4. ev.gesture \in Kept => HeldButton[ev.gesture] \in Buttons
  BY GestureKinds
<1> DEFINE j == HandleGesture(m, ev, place, far, soon, steps)
<1>5. CASE ev.gesture \in Kept
  <2>1. j \in {GestureMove(m, place, far, soon), ButtonDown(GestureMove(m, place, far, soon), place, HeldButton[ev.gesture]),
               ButtonUp(GestureMove(m, place, far, soon), place, HeldButton[ev.gesture])}
    BY <1>5, GestureIs
  <2> QED
    BY <1>1, <1>3, <1>4, <1>5, <2>1
<1>6. CASE ev.gesture \notin Kept
  <2>1. j \in {m, GestureMove(m, place, far, soon)} \/ \E button \in Buttons : j = Step(GestureMove(m, place, far, soon), place, button)
    BY <1>6, GestureIs
  <2> QED
    BY <1>1, <1>2, <2>1
<1> QED
  BY <1>5, <1>6

LEMMA GestureFaithful ==
    ASSUME ~ kb.viewOnly, NEW m, Faithful(m, {}), NEW ev \in GestureEvents, NEW place, NEW far, NEW soon,
           NEW steps \in {"none", "up", "down"},
           ev.gesture \in Kept /\ ev.type = "gesturestart" => ~ m.dragging
    PROVE  LET j == HandleGesture(m, ev, place, far, soon, steps)
           IN  /\ Faithful(j, {}) /\ j.drag = m.drag
               /\ IF ev.gesture \in Kept /\ ev.type = "gesturestart"
                  THEN j.mask \subseteq m.mask \cup HeldBy(ev.gesture)
                  ELSE j.mask \subseteq m.mask /\ (j.dragging => m.dragging)
               /\ ev.gesture \in Kept /\ ev.type = "gestureend" =>
                     j.mask \cap HeldBy(ev.gesture) = {} /\ ~ j.dragging
<1> DEFINE j == HandleGesture(m, ev, place, far, soon, steps)
           f == GestureMove(m, place, far, soon)
           button == HeldButton[ev.gesture]
<1>1. Faithful(f, {}) /\ f.mask = m.mask /\ f.drag = m.drag /\ f.dragging = m.dragging
  BY GestureMoveFaithful
<1>2. ev.type \in {"gesturestart", "gesturemove", "gestureend"}
  BY DEF GestureEvents
<1> HIDE DEF f
<1>3. CASE ev.gesture \in Kept /\ ev.type = "gesturestart"
  <2>1. j = ButtonDown(f, place, button)
    BY <1>3, GestureIs DEF f
  <2>2. ~ f.dragging
    BY <1>1, <1>3
  <2>3. ASSUME NEW b
        PROVE  LET d == ButtonDown(f, place, b)
               IN  Faithful(d, {}) /\ d.mask \subseteq f.mask \cup {b} /\ d.drag = f.drag
    BY ZenonT(60), <1>1, <2>2, PressFaithful
  <2>4. Faithful(j, {}) /\ j.mask \subseteq f.mask \cup {button} /\ j.drag = f.drag
    BY <2>1, <2>3
  <2> QED
    BY <1>1, <1>3, <2>4 DEF HeldBy
<1>4. CASE ev.gesture \in Kept /\ ev.type = "gestureend"
  <2>1. j = ButtonUp(f, place, button)
    BY <1>4, GestureIs DEF f
  <2>2. Faithful(f, {button})
    BY <1>1 DEF Faithful
  <2>3. /\ j.mask \subseteq f.mask /\ j.drag = f.drag /\ ~ j.dragging
        /\ Faithful(j, {}) /\ button \notin j.mask
    BY <1>1, <2>1, <2>2, ReleaseFaithful
  <2> QED
    BY <1>1, <1>4, <2>3 DEF HeldBy
<1>5. CASE ev.gesture \in Kept /\ ev.type = "gesturemove"
  <2>1. j = f
    BY <1>5, GestureIs DEF f
  <2> QED
    BY <1>1, <1>5, <2>1
<1>6. CASE ev.gesture \notin Kept
  <2>1. j \in {m, f} \/ \E b \in Buttons : j = Step(f, place, b)
    BY <1>6, GestureIs DEF f
  <2>2. CASE j \in {m, f}
    BY <1>1, <1>6, <2>2
  <2>3. ASSUME NEW b \in Buttons, j = Step(f, place, b)
        PROVE  Faithful(j, {}) /\ j.mask \subseteq f.mask /\ j.drag = f.drag /\ ~ j.dragging
    BY <1>1, <2>3, StepFaithful
  <2> QED
    BY <1>1, <1>6, <2>1, <2>2, <2>3
<1> QED
  BY <1>2, <1>3, <1>4, <1>5, <1>6
-----------------------------------------------------------------------------
(* What the detector pushes.                                               *)

\* The button that a gesture in progress holds.
Holding(d) == {HeldButton[x] : x \in {y \in Kept : d.state = {y}}}

\* A detector that waits for the last fingers holds no button.
Calm(d) == d.waiting => d.state \cap Kept = {}

StartOf(x) == [type |-> "gesturestart", gesture |-> x]
MoveOf(x) == [type |-> "gesturemove", gesture |-> x]
EndOf(x) == [type |-> "gestureend", gesture |-> x]

Starts(events, x) == events = <<StartOf(x)>> \/ events = <<StartOf(x), MoveOf(x)>>
TapOf(events, x) == events = <<StartOf(x), EndOf(x)>>

\* A gesture starts, moves, ends, or is a tap that does both; a button is
\* held from the start to the end.
Tells(d, e) ==
    \/ e.events = <<>> /\ Holding(e) = Holding(d)
    \/ \E x \in AllGestures : e.events = <<MoveOf(x)>> /\ Holding(e) = Holding(d)
    \/ \E x \in AllGestures : Starts(e.events, x) /\ Holding(d) = {} /\ Holding(e) = HeldBy(x)
    \/ \E x \in AllGestures : e.events = <<EndOf(x)>> /\ Holding(d) = HeldBy(x) /\ Holding(e) = {}
    \/ \E x \in AllGestures \ Kept : TapOf(e.events, x) /\ Holding(d) = {} /\ Holding(e) = {}

LEMMA HoldingOne ==
    ASSUME NEW d, NEW x, d.state = {x}
    PROVE  Holding(d) = HeldBy(x)
  BY DEF Holding, HeldBy

LEMMA HoldingNone ==
    ASSUME NEW d, d.state \cap Kept = {} \/ ~ Single(d.state)
    PROVE  Holding(d) = {}
<1>1. ASSUME NEW y \in Kept, d.state = {y} PROVE FALSE
  BY <1>1, GestureKinds DEF Single
<1> QED
  BY <1>1 DEF Holding

LEMMA HoldingDetected ==
    ASSUME NEW d, d.state \subseteq AllGestures, ~ HasDetectedGesture(d)
    PROVE  Holding(d) = {}
<1>1. ASSUME NEW y \in Kept, d.state = {y} PROVE FALSE
  <2>1. Single(d.state) /\ ~ (d.state \subseteq Taps)
    BY <1>1, GestureKinds DEF Single
  <2> QED
    BY <2>1, Detected
<1> QED
  BY <1>1 DEF Holding

LEMMA HoldingSame == ASSUME NEW d, NEW e, e.state = d.state PROVE Holding(e) = Holding(d)
  BY DEF Holding

LEMMA Pushed ==
    ASSUME NEW d, NEW type, NEW x, DOMAIN d = Fields, d.state = {x}
    PROVE  LET e == PushEvent(d, type)
           IN  /\ DOMAIN e = Fields /\ e.state = {x} /\ e.waiting = d.waiting
               /\ e.events = Append(d.events, [type |-> type, gesture |-> x])
<1>1. (CHOOSE y \in d.state : TRUE) = x
  OBVIOUS
<1> QED
  BY <1>1 DEF PushEvent, Fields

LEMMA TouchStartTells ==
    ASSUME NEW d, NEW touches, Detector(d, touches), Calm(d), d.events = <<>>, NEW id
    PROVE  /\ Tells(d, TouchStart(d, id)) /\ Calm(TouchStart(d, id))
           /\ TouchStart(d, id).events = <<>>
<1> DEFINE e == TouchStart(d, id)
<1>1. DOMAIN d = Fields /\ d.state \subseteq AllGestures /\ d.tracked \in Seq(Touched)
  BY DEF Detector, Shape
<1>2. CASE HasDetectedGesture(d) \/ d.state = {}
  <2>1. e.state = d.state /\ e.waiting = d.waiting /\ e.events = <<>>
    BY <1>1, <1>2 DEF TouchStart, Ignore, Fields
  <2>2. Holding(e) = Holding(d)
    BY <2>1, HoldingSame
  <2> QED
    BY <2>1, <2>2 DEF Tells, Calm
<1>3. CASE ~ HasDetectedGesture(d) /\ d.state # {} /\ (TooLate(d) \/ d.waiting)
  <2>1. e.state = {} /\ e.events = <<>>
    BY <1>1, <1>3 DEF TouchStart, Ignore, Dead, Fields
  <2>2. Holding(e) = {} /\ Holding(d) = {}
    BY <1>1, <1>3, <2>1, HoldingNone, HoldingDetected
  <2> QED
    BY <2>1, <2>2 DEF Tells, Calm
<1>4. CASE ~ HasDetectedGesture(d) /\ d.state # {} /\ ~ TooLate(d) /\ ~ d.waiting
  <2> DEFINE n == Len(d.tracked) + 1
  <2>1. e = Track(d, id)
    BY <1>4 DEF TouchStart
  <2>2. /\ e.events = <<>> /\ e.waiting = d.waiting
        /\ e.state = CASE n = 1 -> d.state
                       [] n = 2 -> d.state \ {"onetap", "drag", "longpress"}
                       [] n = 3 -> d.state \ ({"twotap"} \cup TwoFinger)
                       [] OTHER -> {}
    <3>1. Len(Append(d.tracked, [id |-> id, age |-> 0, active |-> TRUE, far |-> FALSE])) = n
      BY <1>1
    <3> QED
      BY <1>1, <2>1, <3>1 DEF Track, Fields
  <2>3. Holding(d) = {}
    BY <1>1, <1>4, HoldingDetected
  <2>4. Len(d.tracked) \in Nat
    BY <1>1
  <2>5. Holding(e) = {}
    <3>1. CASE n = 1
      BY <2>2, <2>3, <3>1, HoldingSame
    <3>2. CASE n = 2
      <4>1. e.state = d.state \ {"onetap", "drag", "longpress"}
        BY <2>2, <3>2
      <4> QED
        BY <4>1, GestureKinds, HoldingNone
    <3>3. CASE n = 3
      <4>1. Len(d.tracked) = 2
        <5>1. \A k \in Nat : k + 1 = 3 => k = 2
          OBVIOUS
        <5> QED
          BY <2>4, <3>3, <5>1, Zenon
      <4>2. d.state \subseteq {"twotap", "threetap"} \cup TwoFinger
        BY <4>1 DEF Detector, Possible
      <4>3. e.state \subseteq d.state
        BY <2>2, <3>3
      <4>4. ({"twotap", "threetap"} \cup TwoFinger) \cap Kept = {}
        BY GestureKinds DEF TwoFinger
      <4> QED
        BY <4>2, <4>3, <4>4, HoldingNone
    <3>4. CASE ~ (n = 1) /\ ~ (n = 2) /\ ~ (n = 3)
      <4>1. e.state = {}
        BY <2>2, <3>4
      <4> QED
        BY <4>1, HoldingNone
    <3> QED
      BY <3>1, <3>2, <3>3, <3>4
  <2> QED
    BY <1>4, <2>2, <2>3, <2>5 DEF Tells, Calm
<1> QED
  BY <1>2, <1>3, <1>4

LEMMA LongpressTells ==
    ASSUME NEW d, NEW touches, Detector(d, touches), d.events = <<>>, d.longpress
    PROVE  Tells(d, LongpressTimeout(d)) /\ Calm(LongpressTimeout(d))
<1> DEFINE m == [d EXCEPT !.longpress = FALSE, !.state = {"longpress"}]
           e == PushEvent(m, "gesturestart")
<1>1. Len(d.tracked) = 1 /\ ~ d.waiting /\ d.state \in {AllGestures, {}}
  BY DEF Detector, Timers
<1>2. DOMAIN d = Fields /\ d.state \subseteq AllGestures /\ d.tracked \in Seq(Touched)
  BY DEF Detector, Shape
<1>3. ~ Single(d.state) /\ d.tracked # <<>>
  <2>1. ~ Single(d.state)
    BY <1>1, NotSingle
  <2>2. d.tracked \in Seq(Touched) /\ Len(d.tracked) = 1
    BY <1>1, <1>2
  <2>3. ASSUME d.tracked = <<>> PROVE FALSE
    <3>1. Len(d.tracked) = 0
      BY <2>3
    <3> QED
      BY SMTT(30), <2>2, <3>1
  <2> QED
    BY <2>1, <2>3
<1>4. LongpressTimeout(d) = e
  <2>1. ~ HasDetectedGesture(d)
    BY <1>2, <1>3, Detected
  <2> QED
    BY <1>3, <2>1 DEF LongpressTimeout
<1>5. DOMAIN m = Fields /\ m.state = {"longpress"} /\ m.waiting = d.waiting /\ m.events = <<>>
  BY <1>2 DEF Fields
<1> HIDE DEF m
<1>6. e.state = {"longpress"} /\ e.waiting = d.waiting /\ e.events = <<StartOf("longpress")>>
  BY <1>5, Pushed DEF StartOf
<1> HIDE DEF e
<1>7. Holding(d) = {} /\ Holding(e) = HeldBy("longpress") /\ "longpress" \in AllGestures
  BY <1>3, <1>6, HoldingNone, HoldingOne DEF AllGestures
<1> QED
  BY <1>1, <1>4, <1>6, <1>7 DEF Tells, Starts, Calm

LEMMA TwoTouchTells ==
    ASSUME NEW d, NEW touches, Detector(d, touches), d.events = <<>>, d.twoTouch = "running",
           NEW verdict \in TwoFinger
    PROVE  Tells(d, TwoTouchTimeout(d, verdict)) /\ Calm(TwoTouchTimeout(d, verdict))
<1> DEFINE m == [d EXCEPT !.twoTouch = "fired", !.state = {verdict}]
           s == PushEvent(m, "gesturestart")
           e == PushEvent(s, "gesturemove")
<1>1. Len(d.tracked) > 1 /\ d.state \in {TwoFinger, {}}
  BY DEF Detector, Timers
<1>2. DOMAIN d = Fields /\ d.state \subseteq AllGestures /\ d.tracked \in Seq(Touched)
  BY DEF Detector, Shape
<1>3. d.tracked # <<>>
  BY <1>1, <1>2
<1>4. TwoTouchTimeout(d, verdict) = e
  BY <1>3 DEF TwoTouchTimeout
<1>5. DOMAIN m = Fields /\ m.state = {verdict} /\ m.waiting = d.waiting /\ m.events = <<>>
  BY <1>2 DEF Fields
<1> HIDE DEF m
<1>6. DOMAIN s = Fields /\ s.state = {verdict} /\ s.events = <<StartOf(verdict)>>
  BY <1>5, Pushed DEF StartOf
<1> HIDE DEF s
<1>7. e.state = {verdict} /\ e.events = <<StartOf(verdict), MoveOf(verdict)>>
  BY <1>6, Pushed DEF MoveOf
<1> HIDE DEF e
<1>8. verdict \in AllGestures /\ verdict \notin Kept
  BY GestureKinds DEF AllGestures
<1>9. Holding(d) = {} /\ Holding(e) = HeldBy(verdict)
  BY <1>1, <1>7, NotSingle, HoldingNone, HoldingOne
<1> QED
  BY <1>4, <1>7, <1>8, <1>9 DEF Tells, Starts, Calm

LEMMA TouchMoveTells ==
    ASSUME NEW d, NEW touches, Detector(d, touches), Calm(d), d.events = <<>>,
           NEW id, NEW far \in BOOLEAN, NEW verdict \in TwoFinger
    PROVE  Tells(d, TouchMove(d, id, far, verdict)) /\ Calm(TouchMove(d, id, far, verdict))
<1> DEFINE e == TouchMove(d, id, far, verdict)
           m == Moved(d, id, far)
           low == [m EXCEPT !.state = @ \ RuledOut(m), !.longpress = FALSE]
           told == Tell(low, id, verdict)
<1>1. DOMAIN d = Fields /\ d.state \subseteq AllGestures
  BY DEF Detector, Shape
<1>2. DOMAIN m = Fields /\ m.state = d.state /\ m.waiting = d.waiting /\ m.events = <<>>
  BY <1>1 DEF Moved, Fields
<1>3. CASE id \notin TrackedIds(d)
  <2>1. e = d
    BY <1>3 DEF TouchMove
  <2> QED
    BY <2>1 DEF Tells
<1>4. CASE id \in TrackedIds(d) /\ HasDetectedGesture(d)
  <2>1. e = PushEvent(m, "gesturemove")
    BY <1>4 DEF TouchMove
  <2>2. PICK x \in AllGestures : d.state = {x}
    BY <1>1, <1>4, Detected DEF Single
  <2> HIDE DEF m
  <2>3. e.state = {x} /\ e.waiting = d.waiting /\ e.events = <<MoveOf(x)>>
    BY <1>2, <2>1, <2>2, Pushed DEF MoveOf
  <2>4. Holding(e) = Holding(d)
    BY <2>2, <2>3, HoldingSame
  <2> QED
    BY <2>2, <2>3, <2>4 DEF Tells, Calm
<1>5. CASE id \in TrackedIds(d) /\ ~ HasDetectedGesture(d) /\ ~ far
  <2>1. e = m
    BY <1>5 DEF TouchMove
  <2> HIDE DEF m
  <2> QED
    BY <1>2, <2>1, HoldingSame DEF Tells, Calm
<1>6. CASE id \in TrackedIds(d) /\ ~ HasDetectedGesture(d) /\ far
  <2>1. e = IF HasDetectedGesture(told)
            THEN PushEvent(PushEvent(told, "gesturestart"), "gesturemove")
            ELSE told
    BY <1>6 DEF TouchMove
  <2> HIDE DEF m
  <2>2. DOMAIN low = Fields /\ low.state \subseteq d.state /\ low.waiting = d.waiting /\ low.events = <<>>
    BY <1>2 DEF Fields
  <2> HIDE DEF low
  <2>3. DOMAIN told = Fields /\ told.state \subseteq d.state /\ told.waiting = d.waiting /\ told.events = <<>>
    BY <2>2 DEF Tell, Fields
  <2> HIDE DEF told
  <2>4. Holding(d) = {} /\ (d.waiting => told.state \cap Kept = {})
    BY <1>1, <1>6, <2>3, HoldingDetected DEF Calm
  <2>5. CASE ~ HasDetectedGesture(told)
    <3>1. Holding(told) = {}
      BY <1>1, <2>3, <2>5, HoldingDetected
    <3> QED
      BY <2>1, <2>3, <2>4, <2>5, <3>1 DEF Tells, Calm
  <2>6. CASE HasDetectedGesture(told)
    <3> DEFINE s == PushEvent(told, "gesturestart")
    <3>1. PICK x \in AllGestures : told.state = {x}
      BY <1>1, <2>3, <2>6, Detected DEF Single
    <3>2. DOMAIN s = Fields /\ s.state = {x} /\ s.waiting = d.waiting /\ s.events = <<StartOf(x)>>
      BY <2>3, <3>1, Pushed DEF StartOf
    <3>3. e = PushEvent(s, "gesturemove")
      BY <2>1, <2>6
    <3> HIDE DEF s
    <3>4. e.state = {x} /\ e.waiting = d.waiting /\ e.events = <<StartOf(x), MoveOf(x)>>
      BY SMTT(30), <3>2, <3>3, Pushed DEF MoveOf
    <3>5. Holding(e) = HeldBy(x)
      BY <3>4, HoldingOne
    <3> QED
      BY <2>4, <3>1, <3>4, <3>5 DEF Tells, Starts, Calm
  <2> QED
    BY <2>5, <2>6
<1> QED
  BY <1>3, <1>4, <1>5, <1>6

LEMMA ReleasedTells ==
    ASSUME NEW d, NEW id, DOMAIN d = Fields
    PROVE  LET r == Released(d, id)
           IN  /\ r.events = d.events
               /\ HasDetectedGesture(d) => r.waiting = d.waiting /\ (~ d.waiting => r = d)
<1> DEFINE b0 == EndBeforeTimer(d)
           b == BeginRelease(b0)
           r == Released(d, id)
<1>1. DOMAIN b0 = Fields /\ b0.events = d.events /\ (HasDetectedGesture(d) => b0 = d)
  BY DEF EndBeforeTimer, Dead, Fields
<1> HIDE DEF b0
<1>2. DOMAIN b = Fields /\ b.events = d.events /\ (HasDetectedGesture(d) => b = d)
  BY <1>1 DEF BeginRelease, Fields
<1>3. r = Release(b, id)
  BY DEF Released, b0
<1> HIDE DEF b
<1>4. r.events = b.events /\ r.waiting = b.waiting /\ (~ b.waiting => r = b)
  BY <1>2, <1>3 DEF Release, Fields
<1> QED
  BY <1>2, <1>4

LEMMA FinishTells ==
    ASSUME NEW d, NEW id, DOMAIN d = Fields
    PROVE  LET e == Finish(d, id)
           IN  e.events = d.events /\ Holding(e) = {} /\ Calm(e)
<1> DEFINE f == [Dead(d) EXCEPT !.tracked = <<>>, !.ignored = (@ \cup ActiveIds(d)) \ {id}]
           e == Finish(d, id)
<1>1. e = ResetIfAlone(f)
  BY DEF Finish
<1>2. DOMAIN f = Fields /\ f.state = {} /\ f.events = d.events
  BY DEF Dead, Fields
<1> HIDE DEF f
<1>3. e.events = d.events /\ (e.state = {} \/ (e.state = AllGestures /\ e.waiting = FALSE))
  BY <1>1, <1>2 DEF ResetIfAlone, Fields
<1>4. Holding(e) = {}
  BY <1>3, HoldingNone, NotSingle
<1> QED
  BY <1>3, <1>4 DEF Calm

LEMMA TouchEndTells ==
    ASSUME NEW d, NEW touches, Detector(d, touches), Calm(d), d.events = <<>>, NEW id \in touches
    PROVE  Tells(d, TouchEnd(d, id)) /\ Calm(TouchEnd(d, id))
<1> DEFINE e == TouchEnd(d, id)
<1>1. DOMAIN d = Fields /\ d.state \subseteq AllGestures /\ d.waiting \in BOOLEAN
  BY DEF Detector, Shape
<1>2. CASE id \in d.ignored
  <2> DEFINE f == [d EXCEPT !.ignored = @ \ {id}]
  <2>1. e = ResetIfAlone(f)
    BY <1>2 DEF TouchEnd
  <2>2. /\ DOMAIN f = Fields /\ f.state = d.state /\ f.waiting = d.waiting /\ f.events = <<>>
        /\ f.tracked = d.tracked
    BY <1>1 DEF Fields
  <2> HIDE DEF f
  <2>3. CASE d.tracked = <<>>
    <3>1. d.state = {}
      BY <1>2, <2>3 DEF Detector, Possible
    <3>2. /\ e.events = <<>> /\ e.state \in {{}, AllGestures}
          /\ e.state = {} \/ e.waiting = FALSE
      BY <2>1, <2>2, <3>1 DEF ResetIfAlone, Fields
    <3>3. Holding(e) = {} /\ Holding(d) = {}
      BY <3>1, <3>2, HoldingNone, NotSingle
    <3> QED
      BY <3>2, <3>3 DEF Tells, Calm
  <2>4. CASE d.tracked # <<>>
    <3>1. e = f
      BY <2>1, <2>2, <2>4 DEF ResetIfAlone
    <3> QED
      BY <2>2, <3>1, HoldingSame DEF Tells, Calm
  <2> QED
    BY <2>3, <2>4
<1>3. CASE id \notin d.ignored
  <2> DEFINE r == Released(d, id)
             started == IF r.waiting /\ HasDetectedGesture(r) THEN PushEvent(r, "gesturestart") ELSE r
             ended == IF HasDetectedGesture(r) THEN PushEvent(started, "gestureend") ELSE started
             stays == r.waiting /\ ~ HasDetectedGesture(r) /\ r.state # {}
  <2>1. e = IF stays THEN r ELSE Finish(ended, id)
    BY <1>3 DEF TouchEnd, Released
  <2>2. d.tracked # <<>>
    BY <1>3 DEF Detector, Follows, ActiveIds
  <2>3. /\ DOMAIN r = Fields /\ r.state \subseteq d.state
        /\ HasDetectedGesture(d) => r.state \in {d.state, {}}
        /\ ~ HasDetectedGesture(d) => r.waiting /\ r.state \subseteq Taps
    BY ZenonT(60), <2>2, ReleasedShape
  <2>4. /\ r.events = <<>>
        /\ HasDetectedGesture(d) => r.waiting = d.waiting /\ (~ d.waiting => r = d)
    BY <1>1, ReleasedTells
  <2> HIDE DEF r
  <2>5. ~ HasDetectedGesture(d) \/ d.waiting => Holding(d) = {} /\ r.state \cap Kept = {}
    <3>1. CASE ~ HasDetectedGesture(d)
      BY <1>1, <2>3, <3>1, HoldingDetected, GestureKinds
    <3>2. CASE d.waiting
      <4>1. d.state \cap Kept = {}
        BY <3>2 DEF Calm
      <4> QED
        BY <2>3, <4>1, HoldingNone
    <3> QED
      BY <3>1, <3>2
  <2>6. CASE stays
    <3>1. ~ HasDetectedGesture(d) \/ d.waiting
      BY <2>4, <2>6
    <3>2. Holding(r) = {} /\ Calm(r)
      BY <2>5, <3>1, HoldingNone DEF Calm
    <3>3. e = r
      BY <2>1, <2>6
    <3> QED
      BY <2>4, <2>5, <3>1, <3>2, <3>3 DEF Tells
  <2>7. CASE ~ stays /\ HasDetectedGesture(r)
    <3>1. PICK x \in AllGestures : r.state = {x}
      BY <1>1, <2>3, <2>7, Detected DEF Single
    <3>2. DOMAIN started = Fields /\ started.state = {x}
          /\ started.events = IF r.waiting THEN <<StartOf(x)>> ELSE <<>>
      BY <2>3, <2>4, <2>7, <3>1, Pushed DEF StartOf
    <3> HIDE DEF started
    <3>3. DOMAIN ended = Fields
          /\ ended.events = IF r.waiting THEN <<StartOf(x), EndOf(x)>> ELSE <<EndOf(x)>>
      BY <2>7, <3>2, Pushed DEF EndOf
    <3> HIDE DEF ended
    <3>4. e.events = ended.events /\ Holding(e) = {} /\ Calm(e)
      BY <2>1, <2>7, <3>3, FinishTells
    <3>5. CASE ~ HasDetectedGesture(d) \/ d.waiting
      <4>1. r.waiting
        BY <2>3, <2>4, <3>5
      <4>2. x \notin Kept
        BY <2>5, <3>1, <3>5
      <4> QED
        BY <2>5, <3>1, <3>3, <3>4, <3>5, <4>1, <4>2 DEF Tells, TapOf
    <3>6. CASE HasDetectedGesture(d) /\ ~ d.waiting
      <4>1. r = d /\ ~ r.waiting
        BY <2>4, <3>6
      <4>2. Holding(d) = HeldBy(x)
        BY <3>1, <4>1, HoldingOne
      <4> QED
        BY <3>1, <3>3, <3>4, <4>1, <4>2 DEF Tells
    <3> QED
      BY <3>5, <3>6
  <2>8. CASE ~ stays /\ ~ HasDetectedGesture(r)
    <3>1. ended = r
      BY <2>8
    <3> HIDE DEF ended
    <3>2. e.events = <<>> /\ Holding(e) = {} /\ Calm(e)
      BY <2>1, <2>3, <2>4, <2>8, <3>1, FinishTells
    <3>3. ~ HasDetectedGesture(d) \/ d.waiting
      BY <2>4, <2>8
    <3> QED
      BY <2>5, <3>2, <3>3 DEF Tells
  <2> QED
    BY <2>6, <2>7, <2>8
<1> QED
  BY <1>2, <1>3
-----------------------------------------------------------------------------
(* The pointer and the fingers.                                            *)

LEMMA GestureEventsAre ==
    ASSUME NEW x \in AllGestures
    PROVE  /\ StartOf(x) \in GestureEvents /\ StartOf(x).type = "gesturestart" /\ StartOf(x).gesture = x
           /\ MoveOf(x) \in GestureEvents /\ MoveOf(x).type = "gesturemove" /\ MoveOf(x).gesture = x
           /\ EndOf(x) \in GestureEvents /\ EndOf(x).type = "gestureend" /\ EndOf(x).gesture = x
  BY DEF StartOf, MoveOf, EndOf, GestureEvents

\* One event or two.
LEMMA TellsFew ==
    ASSUME NEW d, NEW e, Tells(d, e)
    PROVE  \/ e.events = <<>>
           \/ \E a \in GestureEvents : e.events = <<a>>
           \/ \E a, b \in GestureEvents : e.events = <<a, b>>
<1>1. CASE e.events = <<>>
  BY <1>1
<1>2. ASSUME NEW x \in AllGestures, e.events = <<MoveOf(x)>> \/ e.events = <<EndOf(x)>> \/ e.events = <<StartOf(x)>>
      PROVE  \E a \in GestureEvents : e.events = <<a>>
  BY <1>2, GestureEventsAre
<1>3. ASSUME NEW x \in AllGestures, e.events = <<StartOf(x), MoveOf(x)>> \/ e.events = <<StartOf(x), EndOf(x)>>
      PROVE  \E a, b \in GestureEvents : e.events = <<a, b>>
  BY <1>3, GestureEventsAre
<1> QED
  BY <1>1, <1>2, <1>3 DEF Tells, Starts, TapOf

LEMMA OneEvent ==
    ASSUME NEW m, NEW a, NEW events, events = <<a>>, NEW place, NEW far, NEW soon, NEW steps
    PROVE  HandleGestures(m, events, place, far, soon, steps) = HandleGesture(m, a, place, far, soon, steps)
<1>1. Len(events) = 1 /\ events[1] = a
  OBVIOUS
<1> QED
  BY <1>1 DEF HandleGestures

LEMMA TwoEvents ==
    ASSUME NEW m, NEW a, NEW b, NEW events, events = <<a, b>>, NEW place, NEW far, NEW soon, NEW steps
    PROVE  HandleGestures(m, events, place, far, soon, steps) =
               HandleGesture(HandleGesture(m, a, place, far, soon, steps), b, place, far, soon, steps)
<1>1. Len(events) = 2 /\ events[1] = a /\ events[2] = b
  OBVIOUS
<1> QED
  BY <1>1 DEF HandleGestures

LEMMA GesturesTyped ==
    ASSUME NEW m, MouseTyped(m), NEW d, NEW e, Tells(d, e), e.events # <<>>,
           NEW place, NEW far, NEW soon, NEW steps \in {"none", "up", "down"}
    PROVE  MouseTyped(HandleGestures(m, e.events, place, far, soon, steps))
<1>1. ASSUME NEW a \in GestureEvents, e.events = <<a>>
      PROVE  MouseTyped(HandleGestures(m, e.events, place, far, soon, steps))
  BY <1>1, OneEvent, TwoEvents, GestureTyped
<1>2. ASSUME NEW a \in GestureEvents, NEW b \in GestureEvents, e.events = <<a, b>>
      PROVE  MouseTyped(HandleGestures(m, e.events, place, far, soon, steps))
  <2>1. MouseTyped(HandleGesture(m, a, place, far, soon, steps))
    BY GestureTyped
  <2> QED
    BY <1>2, <2>1, OneEvent, TwoEvents, GestureTyped
<1> QED
  BY <1>1, <1>2, TellsFew

\* The pointer follows the buttons and the gestures.
Pointing(m, buttons, d) ==
    /\ Faithful(m, {})
    /\ m.mask \subseteq buttons \cup Holding(d)
    /\ m.dragging => buttons # {} \/ Holding(d) # {}

\* An event that starts no gesture that holds a button, and ends none.
LEMMA GesturePasses ==
    ASSUME ~ kb.viewOnly, NEW m, NEW buttons, NEW d, Pointing(m, buttons, d),
           NEW x \in AllGestures, NEW ev \in {StartOf(x), MoveOf(x), EndOf(x)},
           ev = MoveOf(x) \/ x \notin Kept,
           NEW place, NEW far, NEW soon, NEW steps \in {"none", "up", "down"}
    PROVE  LET j == HandleGesture(m, ev, place, far, soon, steps)
           IN  Pointing(j, buttons, d) /\ j.drag = m.drag
<1> DEFINE j == HandleGesture(m, ev, place, far, soon, steps)
<1>1. ev \in GestureEvents /\ ~ (ev.gesture \in Kept /\ ev.type = "gesturestart")
  BY GestureEventsAre
<1>2. Faithful(m, {}) /\ m.mask \subseteq buttons \cup Holding(d)
  BY DEF Pointing
<1>3. Faithful(j, {}) /\ j.drag = m.drag /\ j.mask \subseteq m.mask /\ (j.dragging => m.dragging)
  BY <1>1, <1>2, GestureFaithful
<1> QED
  BY <1>3 DEF Pointing

LEMMA StartPasses ==
    ASSUME ~ kb.viewOnly, NEW m, NEW buttons, NEW d, NEW e, Pointing(m, buttons, d),
           NEW x \in AllGestures, Holding(d) = {}, Holding(e) = HeldBy(x),
           m.drag => buttons = {},
           NEW place, NEW far, NEW soon, NEW steps \in {"none", "up", "down"}
    PROVE  LET j == HandleGesture(m, StartOf(x), place, far, soon, steps)
           IN  Pointing(j, buttons, e) /\ j.drag = m.drag
<1> DEFINE ev == StartOf(x)
           j == HandleGesture(m, ev, place, far, soon, steps)
<1>1. ev \in GestureEvents /\ ev.gesture = x /\ ev.type = "gesturestart"
  BY GestureEventsAre
<1>2. Faithful(m, {}) /\ m.mask \subseteq buttons
  BY DEF Pointing
<1>3. CASE x \in Kept
  <2>1. ~ m.dragging
    BY <1>2 DEF Pointing, Faithful
  <2>2. Faithful(j, {}) /\ j.drag = m.drag /\ j.mask \subseteq m.mask \cup HeldBy(x)
    BY <1>1, <1>2, <1>3, <2>1, GestureFaithful
  <2>3. HeldBy(x) # {}
    BY <1>3 DEF HeldBy
  <2> QED
    BY <1>2, <2>2, <2>3 DEF Pointing
<1>4. CASE x \notin Kept
  <2>1. Pointing(j, buttons, d) /\ j.drag = m.drag
    BY <1>4, GesturePasses
  <2>2. Holding(e) = Holding(d)
    BY <1>4 DEF HeldBy
  <2> QED
    BY <2>1, <2>2 DEF Pointing
<1> QED
  BY <1>3, <1>4

LEMMA EndPasses ==
    ASSUME ~ kb.viewOnly, NEW m, NEW buttons, NEW d, NEW e, Pointing(m, buttons, d),
           NEW x \in AllGestures, Holding(d) = HeldBy(x), Holding(e) = {},
           NEW place, NEW far, NEW soon, NEW steps \in {"none", "up", "down"}
    PROVE  LET j == HandleGesture(m, EndOf(x), place, far, soon, steps)
           IN  Pointing(j, buttons, e) /\ j.drag = m.drag
<1> DEFINE ev == EndOf(x)
           j == HandleGesture(m, ev, place, far, soon, steps)
<1>1. ev \in GestureEvents /\ ev.gesture = x /\ ev.type = "gestureend"
  BY GestureEventsAre
<1>2. Faithful(m, {})
  BY DEF Pointing
<1>3. CASE x \in Kept
  <2>1. Faithful(j, {}) /\ j.drag = m.drag /\ j.mask \subseteq m.mask /\ j.mask \cap HeldBy(x) = {} /\ ~ j.dragging
    BY <1>1, <1>2, <1>3, GestureFaithful
  <2> QED
    BY <2>1 DEF Pointing
<1>4. CASE x \notin Kept
  <2>1. Pointing(j, buttons, d) /\ j.drag = m.drag
    BY <1>4, GesturePasses
  <2>2. Holding(e) = Holding(d)
    BY <1>4 DEF HeldBy
  <2> QED
    BY <2>1, <2>2 DEF Pointing
<1> QED
  BY <1>3, <1>4

LEMMA GesturesPass ==
    ASSUME ~ kb.viewOnly, NEW m, NEW buttons, NEW d, NEW e, Pointing(m, buttons, d), Tells(d, e),
           e.events # <<>>, m.drag => buttons = {},
           NEW place, NEW far, NEW soon, NEW steps \in {"none", "up", "down"}
    PROVE  LET j == HandleGestures(m, e.events, place, far, soon, steps)
           IN  Pointing(j, buttons, e) /\ j.drag = m.drag
<1> DEFINE j == HandleGestures(m, e.events, place, far, soon, steps)
           one(ev) == HandleGesture(m, ev, place, far, soon, steps)
<1>1. ASSUME NEW x \in AllGestures, e.events = <<MoveOf(x)>>, Holding(e) = Holding(d)
      PROVE  Pointing(j, buttons, e) /\ j.drag = m.drag
  <2>1. j = one(MoveOf(x))
    BY <1>1, OneEvent, TwoEvents
  <2>2. Pointing(one(MoveOf(x)), buttons, d) /\ one(MoveOf(x)).drag = m.drag
    BY GesturePasses
  <2> QED
    BY <1>1, <2>1, <2>2 DEF Pointing
<1>2. ASSUME NEW x \in AllGestures, Starts(e.events, x), Holding(d) = {}, Holding(e) = HeldBy(x)
      PROVE  Pointing(j, buttons, e) /\ j.drag = m.drag
  <2> DEFINE s == one(StartOf(x))
  <2>1. Pointing(s, buttons, e) /\ s.drag = m.drag
    BY <1>2, StartPasses
  <2>2. j = s \/ j = HandleGesture(s, MoveOf(x), place, far, soon, steps)
    <3>1. CASE e.events = <<StartOf(x)>>
      BY <3>1, OneEvent
    <3>2. CASE e.events = <<StartOf(x), MoveOf(x)>>
      BY <3>2, TwoEvents
    <3> QED
      BY <1>2, <3>1, <3>2 DEF Starts
  <2> HIDE DEF s, j
  <2>3. LET k == HandleGesture(s, MoveOf(x), place, far, soon, steps)
        IN  Pointing(k, buttons, e) /\ k.drag = s.drag
    BY <2>1, GesturePasses
  <2> QED
    BY <2>1, <2>2, <2>3
<1>3. ASSUME NEW x \in AllGestures, e.events = <<EndOf(x)>>, Holding(d) = HeldBy(x), Holding(e) = {}
      PROVE  Pointing(j, buttons, e) /\ j.drag = m.drag
  <2>1. j = one(EndOf(x))
    BY <1>3, OneEvent, TwoEvents
  <2> QED
    BY <1>3, <2>1, EndPasses
<1>4. ASSUME NEW x \in AllGestures \ Kept, TapOf(e.events, x), Holding(d) = {}, Holding(e) = {}
      PROVE  Pointing(j, buttons, e) /\ j.drag = m.drag
  <2> DEFINE s == one(StartOf(x))
  <2>1. Pointing(s, buttons, d) /\ s.drag = m.drag
    BY GesturePasses
  <2>2. j = HandleGesture(s, EndOf(x), place, far, soon, steps)
    BY <1>4, OneEvent, TwoEvents DEF TapOf
  <2> HIDE DEF s, j
  <2>3. LET k == HandleGesture(s, EndOf(x), place, far, soon, steps)
        IN  Pointing(k, buttons, d) /\ k.drag = s.drag
    BY <2>1, GesturePasses
  <2> QED
    BY <1>4, <2>1, <2>2, <2>3 DEF Pointing
<1> QED
  BY <1>1, <1>2, <1>3, <1>4 DEF Tells
-----------------------------------------------------------------------------
(* The mouse and the fingers together.                                     *)

\* While the viewport can be dragged it is by a mouse or by fingers.
Apart == mouse.drag => user.buttons = {} \/ user.touches = {}

PointerInv ==
    /\ MouseTyped(mouse) /\ user.buttons \subseteq Buttons
    /\ Calm(g) /\ Len(g.events) <= 2
    /\ ~ odd => Pointing(mouse, user.buttons, g) /\ Apart

InputInv == DetectorInv /\ KeyboardInv /\ PointerInv

LEMMA HoldingTouches ==
    ASSUME NEW d, Detector(d, {})
    PROVE  Holding(d) = {}
<1>1. d.ignored = {} /\ ActiveIds(d) = {}
  BY DEF Detector, Follows
<1>2. d.tracked = <<>>
  BY <1>1 DEF Detector, Follows, SomeActive
<1>3. d.state = AllGestures
  BY <1>1, <1>2 DEF Detector, Possible
<1> QED
  BY <1>3, NotSingle, HoldingNone

LEMMA PointerInit == Init => PointerInv
<1> SUFFICES ASSUME Init
             PROVE  PointerInv
  OBVIOUS
<1>1. /\ MouseTyped(mouse) /\ mouse.mask = {} /\ mouse.server = {} /\ mouse.timer = FALSE
      /\ mouse.at = mouse.last /\ mouse.dragging = FALSE /\ mouse.drag = FALSE
  BY DEF Init, MouseTyped, MouseFields
<1>2. user.buttons = {} /\ user.touches = {}
  BY DEF Init
<1>3. g.waiting = FALSE /\ g.events = <<>>
  BY DEF Init, NoTouches
<1>4. Calm(g) /\ Len(g.events) <= 2
  BY <1>3 DEF Calm
<1>5. Faithful(mouse, {})
  BY <1>1 DEF Faithful, MouseTyped
<1> QED
  BY <1>1, <1>2, <1>4, <1>5 DEF PointerInv, Pointing, Apart

\* Nothing but the mouse and the buttons changes.
LEMMA MouseKeeps ==
    ASSUME PointerInv, UNCHANGED g, MouseTyped(mouse'), user'.buttons \subseteq Buttons,
           ~ odd' => Pointing(mouse', user'.buttons, g) /\ Apart'
    PROVE  PointerInv'
<1>1. ~ odd' => Pointing(mouse, user.buttons, g)'
  BY DEF Pointing, Holding
<1> QED
  BY <1>1 DEF PointerInv, Calm

LEMMA SameKeeps ==
    ASSUME PointerInv, UNCHANGED <<g, mouse>>, user'.buttons = user.buttons,
           user'.touches = user.touches, odd => odd'
    PROVE  PointerInv'
<1>1. ~ odd' => Pointing(mouse', user'.buttons, g) /\ Apart'
  BY DEF PointerInv, Apart
<1>2. MouseTyped(mouse') /\ user'.buttons \subseteq Buttons
  BY DEF PointerInv
<1> QED
  BY <1>1, <1>2, MouseKeeps

LEMMA PressButtonKeeps ==
    ASSUME InputInv, PressButton
    PROVE  PointerInv'
<1>1. PICK button \in {"left", "right"} \ user.buttons, place \in Places :
          /\ user' = [user EXCEPT !.buttons = @ \cup {button}]
          /\ mouse' = ButtonDown(mouse, place, button)
  BY DEF PressButton, ButtonDown
<1>2. PointerInv /\ UNCHANGED <<kb, g>> /\ button \in Buttons
  BY DEF InputInv, PressButton, Buttons
<1>3. user'.buttons = user.buttons \cup {button} /\ user'.touches = user.touches
  BY <1>1 DEF InputInv, KeyboardInv, UserTyped, UserFields
<1>4. MouseTyped(mouse') /\ user'.buttons \subseteq Buttons
  BY <1>1, <1>2, <1>3, ButtonTyped DEF PointerInv
<1>5. ASSUME ~ odd'
      PROVE  Pointing(mouse', user'.buttons, g) /\ Apart'
  <2>1. ~ odd /\ (mouse.drag => user.buttons = {} /\ user.touches = {})
    BY <1>5 DEF PressButton
  <2>2. ~ kb.viewOnly
    BY <2>1 DEF InputInv, KeyboardInv, KeysInv, Sound
  <2>3. Pointing(mouse, user.buttons, g) /\ Faithful(mouse, {})
    BY <1>2, <2>1 DEF PointerInv, Pointing
  <2>4. ~ mouse.dragging
    <3>1. CASE mouse.drag
      <4>1. Holding(g) = {}
        BY <2>1, <3>1, HoldingTouches DEF InputInv, DetectorInv
      <4> QED
        BY <2>1, <2>3, <3>1, <4>1 DEF Pointing
    <3>2. CASE ~ mouse.drag
      BY <2>3, <3>2 DEF Faithful
    <3> QED
      BY <3>1, <3>2
  <2> DEFINE j == ButtonDown(mouse, place, button)
  <2>5. Faithful(j, {}) /\ j.mask \subseteq mouse.mask \cup {button} /\ j.drag = mouse.drag
    BY <2>2, <2>3, <2>4, PressFaithful
  <2>6. mouse' = j
    BY <1>1
  <2> HIDE DEF j
  <2> QED
    BY <1>3, <2>1, <2>3, <2>5, <2>6 DEF Pointing, Apart
<1> QED
  BY <1>2, <1>4, <1>5, MouseKeeps

LEMMA ReleaseButtonKeeps ==
    ASSUME InputInv, ReleaseButton
    PROVE  PointerInv'
<1>1. PICK button \in user.buttons, place \in Places :
          /\ user' = [user EXCEPT !.buttons = @ \ {button}]
          /\ mouse' = ButtonUp(mouse, place, button)
  BY DEF ReleaseButton, ButtonUp
<1>2. PointerInv /\ UNCHANGED <<kb, g, odd>> /\ button \in Buttons
  BY <1>1 DEF InputInv, ReleaseButton, PointerInv
<1>3. user'.buttons = user.buttons \ {button} /\ user'.touches = user.touches
  BY <1>1 DEF InputInv, KeyboardInv, UserTyped, UserFields
<1>4. MouseTyped(mouse') /\ user'.buttons \subseteq Buttons
  BY <1>1, <1>2, <1>3, ButtonTyped DEF PointerInv
<1>5. ASSUME ~ odd'
      PROVE  Pointing(mouse', user'.buttons, g) /\ Apart'
  <2>1. ~ odd
    BY <1>2, <1>5
  <2>2. ~ kb.viewOnly
    BY <2>1 DEF InputInv, KeyboardInv, KeysInv, Sound
  <2>3. Pointing(mouse, user.buttons, g) /\ Faithful(mouse, {}) /\ Apart
    BY <1>2, <2>1 DEF PointerInv, Pointing
  <2>4. Faithful(mouse, {button})
    BY <2>3 DEF Faithful
  <2> DEFINE j == ButtonUp(mouse, place, button)
  <2>5. /\ Faithful(j, {}) /\ j.mask \subseteq mouse.mask /\ button \notin j.mask /\ j.drag = mouse.drag
        /\ ~ j.dragging
    BY <2>2, <2>3, <2>4, ReleaseFaithful
  <2>6. mouse' = j
    BY <1>1
  <2> HIDE DEF j
  <2> QED
    BY <1>3, <2>3, <2>5, <2>6 DEF Pointing, Apart
<1> QED
  BY <1>2, <1>4, <1>5, MouseKeeps

LEMMA MoveMouseKeeps ==
    ASSUME InputInv, MoveMouse
    PROVE  PointerInv'
<1>1. PICK place \in Places, far \in BOOLEAN, soon \in BOOLEAN :
          mouse' = HandleMouseMove(mouse, place, far, soon)
  BY DEF MoveMouse
<1>2. PointerInv /\ UNCHANGED <<user, kb, g, odd>>
  BY DEF InputInv, MoveMouse
<1>3. MouseTyped(mouse') /\ user'.buttons \subseteq Buttons
  BY <1>1, <1>2, MoveTyped DEF PointerInv
<1>4. ASSUME ~ odd'
      PROVE  Pointing(mouse', user'.buttons, g) /\ Apart'
  <2>1. ~ kb.viewOnly /\ ~ odd
    BY <1>2, <1>4 DEF InputInv, KeyboardInv, KeysInv, Sound
  <2>2. Pointing(mouse, user.buttons, g) /\ Faithful(mouse, {}) /\ Apart
    BY <1>2, <2>1 DEF PointerInv, Pointing
  <2> DEFINE j == HandleMouseMove(mouse, place, far, soon)
  <2>3. Faithful(j, {}) /\ j.mask = mouse.mask /\ j.drag = mouse.drag /\ j.dragging = mouse.dragging
    BY <2>1, <2>2, MoveFaithful
  <2>4. mouse' = j
    BY <1>1
  <2> HIDE DEF j
  <2> QED
    BY <1>2, <2>2, <2>3, <2>4 DEF Pointing, Apart
<1> QED
  BY <1>2, <1>3, <1>4, MouseKeeps

LEMMA HandleWheelKeeps ==
    ASSUME InputInv, HandleWheel
    PROVE  PointerInv'
<1>1. PICK place \in Places, button \in {"up", "down"} : mouse' = Step(mouse, place, button)
  BY DEF HandleWheel
<1>2. PointerInv /\ UNCHANGED <<user, kb, g, odd>> /\ ~ kb.viewOnly /\ button \in Buttons
  BY DEF InputInv, HandleWheel, Buttons
<1>3. MouseTyped(mouse') /\ user'.buttons \subseteq Buttons
  BY <1>1, <1>2, StepTyped DEF PointerInv
<1>4. ASSUME ~ odd'
      PROVE  Pointing(mouse', user'.buttons, g) /\ Apart'
  <2>1. Pointing(mouse, user.buttons, g) /\ Faithful(mouse, {}) /\ Apart
    BY <1>2, <1>4 DEF PointerInv, Pointing
  <2> DEFINE j == Step(mouse, place, button)
  <2>2. Faithful(j, {}) /\ j.mask \subseteq mouse.mask /\ j.drag = mouse.drag /\ ~ j.dragging
    BY <1>2, <2>1, StepFaithful
  <2>3. mouse' = j
    BY <1>1
  <2> HIDE DEF j
  <2> QED
    BY <1>2, <2>1, <2>2, <2>3 DEF Pointing, Apart
<1> QED
  BY <1>2, <1>3, <1>4, MouseKeeps

LEMMA DelayedMouseMoveKeeps ==
    ASSUME InputInv, DelayedMouseMove
    PROVE  PointerInv'
<1>1. /\ mouse' = HandleDelayedMouseMove(mouse) /\ mouse.timer
      /\ PointerInv /\ UNCHANGED <<user, kb, g, odd>>
  BY DEF InputInv, DelayedMouseMove
<1>2. MouseTyped(mouse') /\ user'.buttons \subseteq Buttons
  BY <1>1, DelayedFaithful DEF PointerInv
<1>3. ASSUME ~ odd'
      PROVE  Pointing(mouse', user'.buttons, g) /\ Apart'
  <2>1. ~ kb.viewOnly /\ ~ odd
    BY <1>1, <1>3 DEF InputInv, KeyboardInv, KeysInv, Sound
  <2>2. Pointing(mouse, user.buttons, g) /\ Faithful(mouse, {}) /\ Apart
    BY <1>1, <2>1 DEF PointerInv, Pointing
  <2> DEFINE j == HandleDelayedMouseMove(mouse)
  <2>3. Faithful(j, {}) /\ j.mask = mouse.mask /\ j.drag = mouse.drag /\ j.dragging = mouse.dragging
    BY <1>1, <2>1, <2>2, DelayedFaithful
  <2>4. mouse' = j
    BY <1>1
  <2> HIDE DEF j
  <2> QED
    BY <1>1, <2>2, <2>3, <2>4 DEF Pointing, Apart
<1> QED
  BY <1>1, <1>2, <1>3, MouseKeeps

LEMMA ToggleViewDragKeeps ==
    ASSUME InputInv, ToggleViewDrag
    PROVE  PointerInv'
<1>1. /\ mouse' = [mouse EXCEPT !.drag = ~ @] /\ odd' = (odd \/ user.buttons # {} \/ user.touches # {})
      /\ PointerInv /\ UNCHANGED <<user, kb, g>>
  BY DEF InputInv, ToggleViewDrag
<1>2. MouseTyped(mouse') /\ user'.buttons \subseteq Buttons
  BY <1>1 DEF PointerInv, MouseTyped, MouseFields
<1>3. ASSUME ~ odd'
      PROVE  Pointing(mouse', user'.buttons, g) /\ Apart'
  <2>1. ~ odd /\ user.buttons = {} /\ user.touches = {}
    BY <1>1, <1>3
  <2>2. Pointing(mouse, user.buttons, g) /\ Holding(g) = {}
    BY <1>1, <2>1, HoldingTouches DEF PointerInv, InputInv, DetectorInv
  <2>3. Faithful(mouse, {}) /\ mouse.mask = {} /\ ~ mouse.dragging
    BY <2>1, <2>2 DEF Pointing
  <2>4. Faithful(mouse', {}) /\ mouse'.mask = {} /\ ~ mouse'.dragging
    BY <1>1, <2>3 DEF Faithful, MouseFields
  <2> QED
    BY <1>1, <2>1, <2>4 DEF Pointing, Apart
<1> QED
  BY <1>1, <1>2, <1>3, MouseKeeps

LEMMA QuietDetector ==
    ASSUME InputInv
    PROVE  /\ Detector(Quiet, user.touches) /\ Calm(Quiet) /\ Quiet.events = <<>>
           /\ Quiet.longpress = g.longpress /\ Quiet.twoTouch = g.twoTouch /\ Holding(Quiet) = Holding(g)
<1>1. DOMAIN g = Fields /\ Detector(g, user.touches) /\ Calm(g)
  BY DEF InputInv, DetectorInv, Detector, Shape, PointerInv
<1>2. Alike(g, Quiet) /\ Quiet.events = <<>>
  BY <1>1 DEF Alike, Quiet, Fields
<1>3. Quiet.state = g.state /\ Quiet.waiting = g.waiting
  BY <1>2 DEF Alike
<1> QED
  BY <1>1, <1>2, <1>3, AlikeKept, HoldingSame DEF Alike, Calm

\* The RFB hears what the detector tells, while there is a finger.
LEMMA HearsKeeps ==
    ASSUME InputInv, NEW e, Hears(e), Tells(Quiet, e), Calm(e), e.events # <<>> => user.touches # {},
           DOMAIN user' = UserFields, user'.touches \subseteq Fingers, user'.buttons = user.buttons,
           user'.keys = user.keys, user'.muted = user.muted, user'.fakeCtrl = user.fakeCtrl,
           odd => odd', ~ odd' /\ mouse.drag => user.buttons = {} \/ user'.touches = {}
    PROVE  KeyboardInv' /\ PointerInv'
<1>1. UNCHANGED <<os, queue>> /\ kb' = Pinched(kb, e.events) /\ g' = e
  BY DEF Hears
<1>2. KeyboardInv'
  <2>1. KeyboardTyped(kb) /\ KeyboardInv
    BY DEF InputInv, KeyboardInv
  <2>2. LET j == Pinched(kb, e.events)
        IN  KeyboardTyped(j) /\ (Sound(kb) => Sound(j)) /\ j.down = kb.down /\ j.armed = kb.armed
    BY <2>1, PinchedKeeps
  <2>3. KeyboardTyped(kb)' /\ (Sound(kb) => Sound(kb)') /\ kb'.down = kb.down /\ kb'.armed = kb.armed
    BY <1>1, <2>2
  <2> QED
    BY <1>1, <2>1, <2>3, OtherKeeps
<1>3. Len(e.events) <= 2
  <2>1. CASE e.events = <<>>
    BY <2>1
  <2>2. ASSUME NEW a, e.events = <<a>> PROVE Len(e.events) <= 2
    BY <2>2
  <2>3. ASSUME NEW a, NEW b, e.events = <<a, b>> PROVE Len(e.events) <= 2
    BY <2>3
  <2> QED
    BY <2>1, <2>2, <2>3, TellsFew
<1>4. PointerInv /\ DetectorInv
  BY DEF InputInv
<1>5. /\ MouseTyped(mouse')
      /\ ~ odd' => Pointing(mouse', user.buttons, e) /\ mouse'.drag = mouse.drag
  <2>1. ASSUME ~ odd' PROVE ~ odd /\ ~ kb.viewOnly /\ Pointing(mouse, user.buttons, Quiet) /\ Apart
    <3>1. ~ odd
      BY <2>1
    <3>2. ~ kb.viewOnly
      BY <3>1 DEF InputInv, KeyboardInv, KeysInv, Sound
    <3>3. Pointing(mouse, user.buttons, g) /\ Apart
      BY <1>4, <3>1 DEF PointerInv
    <3> QED
      BY <3>1, <3>2, <3>3, QuietDetector DEF Pointing
  <2>2. CASE e.events = <<>>
    <3>1. UNCHANGED mouse
      BY <2>2 DEF Hears
    <3>2. Holding(e) = Holding(Quiet)
      BY <2>2 DEF Tells, Starts, TapOf
    <3> QED
      BY <1>4, <2>1, <3>1, <3>2 DEF PointerInv, Pointing
  <2>3. CASE e.events # <<>>
    <3>1. PICK place \in Places, far \in BOOLEAN, soon \in BOOLEAN, steps \in {"none", "up", "down"} :
              mouse' = HandleGestures(mouse, e.events, place, far, soon, steps)
      BY <2>3 DEF Hears
    <3>2. MouseTyped(HandleGestures(mouse, e.events, place, far, soon, steps))
      BY <1>4, <2>3, GesturesTyped DEF PointerInv
    <3>3. ASSUME ~ odd'
          PROVE  LET j == HandleGestures(mouse, e.events, place, far, soon, steps)
                 IN  Pointing(j, user.buttons, e) /\ j.drag = mouse.drag
      <4>1. mouse.drag => user.buttons = {}
        BY <2>1, <2>3, <3>3 DEF Apart
      <4> QED
        BY <2>1, <2>3, <3>3, <4>1, GesturesPass
    <3> QED
      BY <3>1, <3>2, <3>3
  <2> QED
    BY <2>2, <2>3
<1>6. ~ odd' => Pointing(mouse, user.buttons, g)' /\ Apart'
  BY <1>1, <1>5 DEF Pointing, Holding, Apart
<1>7. PointerInv'
  BY <1>1, <1>3, <1>4, <1>5, <1>6 DEF PointerInv
<1> QED
  BY <1>2, <1>7

LEMMA FingerDownKeeps ==
    ASSUME InputInv, FingerDown
    PROVE  KeyboardInv' /\ PointerInv'
<1>1. PICK id \in Fingers \ user.touches :
          user' = [user EXCEPT !.touches = @ \cup {id}] /\ Hears(TouchStart(Quiet, id))
  BY DEF FingerDown
<1>2. PICK e : e = TouchStart(Quiet, id)
  OBVIOUS
<1>3. Tells(Quiet, e) /\ Calm(e) /\ e.events = <<>>
  BY <1>2, QuietDetector, TouchStartTells
<1>4. Hears(e)
  BY <1>1, <1>2
<1>5. /\ DOMAIN user' = UserFields /\ user'.touches = user.touches \cup {id} /\ user.touches \subseteq Fingers
      /\ user'.buttons = user.buttons /\ user'.keys = user.keys /\ user'.muted = user.muted
      /\ user'.fakeCtrl = user.fakeCtrl
  BY <1>1 DEF InputInv, KeyboardInv, UserTyped, UserFields
<1>6. (odd => odd') /\ (~ odd' /\ mouse.drag => user.buttons = {})
  BY DEF FingerDown
<1> QED
  BY <1>3, <1>4, <1>5, <1>6, HearsKeeps

\* With the fingers as they are.
LEMMA HearsAsBefore ==
    ASSUME InputInv, NEW e, Hears(e), Tells(Quiet, e), Calm(e), user.touches # {}, UNCHANGED <<user, odd>>
    PROVE  KeyboardInv' /\ PointerInv'
<1>1. DOMAIN user = UserFields /\ user.touches \subseteq Fingers
  BY DEF InputInv, KeyboardInv, UserTyped
<1>2. ~ odd' /\ mouse.drag => user.buttons = {} \/ user'.touches = {}
  BY DEF InputInv, PointerInv, Apart
<1> QED
  BY <1>1, <1>2, HearsKeeps

LEMMA FingerMovesKeeps ==
    ASSUME InputInv, FingerMoves
    PROVE  KeyboardInv' /\ PointerInv'
<1>1. PICK id \in user.touches, far \in BOOLEAN, verdict \in TwoFinger :
          Hears(TouchMove(Quiet, id, far, verdict))
  BY DEF FingerMoves
<1>2. PICK e : e = TouchMove(Quiet, id, far, verdict)
  OBVIOUS
<1>3. Tells(Quiet, e) /\ Calm(e)
  BY <1>2, QuietDetector, TouchMoveTells
<1>4. Hears(e) /\ user.touches # {} /\ UNCHANGED <<user, odd>>
  BY <1>1, <1>2 DEF FingerMoves
<1> QED
  BY <1>3, <1>4, HearsAsBefore

LEMMA FingerUpKeeps ==
    ASSUME InputInv, FingerUp
    PROVE  KeyboardInv' /\ PointerInv'
<1>1. PICK id \in user.touches :
          user' = [user EXCEPT !.touches = @ \ {id}] /\ Hears(TouchEnd(Quiet, id))
  BY DEF FingerUp
<1>2. PICK e : e = TouchEnd(Quiet, id)
  OBVIOUS
<1>3. Tells(Quiet, e) /\ Calm(e)
  BY <1>2, QuietDetector, TouchEndTells
<1>4. Hears(e) /\ user.touches # {} /\ UNCHANGED odd
  BY <1>1, <1>2 DEF FingerUp
<1>5. /\ DOMAIN user' = UserFields /\ user'.touches = user.touches \ {id} /\ user.touches \subseteq Fingers
      /\ user'.buttons = user.buttons /\ user'.keys = user.keys /\ user'.muted = user.muted
      /\ user'.fakeCtrl = user.fakeCtrl
  BY <1>1 DEF InputInv, KeyboardInv, UserTyped, UserFields
<1>6. ~ odd' /\ mouse.drag => user.buttons = {} \/ user'.touches = {}
  BY <1>4, <1>5 DEF InputInv, PointerInv, Apart
<1>7. user'.touches \subseteq Fingers
  BY <1>5
<1> QED
  BY <1>3, <1>4, <1>5, <1>6, <1>7, HearsKeeps

\* A timer runs only while there is a finger.
LEMMA TimersTouch ==
    ASSUME NEW d, NEW touches, Detector(d, touches), d.longpress \/ d.twoTouch = "running"
    PROVE  touches # {}
<1>1. d.tracked # <<>>
  <2>1. Len(d.tracked) = 1 \/ Len(d.tracked) > 1
    BY DEF Detector, Timers
  <2>2. d.tracked = <<>> => Len(d.tracked) = 0
    OBVIOUS
  <2> QED
    BY <2>1, <2>2
<1>2. ActiveIds(d) # {}
  BY <1>1 DEF Detector, Follows, SomeActive
<1> QED
  BY <1>2 DEF Detector, Follows

LEMMA LongpressTimeoutKeeps ==
    ASSUME InputInv, Longpress
    PROVE  KeyboardInv' /\ PointerInv'
<1>1. g.longpress /\ Hears(LongpressTimeout(Quiet)) /\ UNCHANGED <<user, odd>>
  BY DEF Longpress
<1>2. PICK e : e = LongpressTimeout(Quiet)
  OBVIOUS
<1>3. Tells(Quiet, e) /\ Calm(e) /\ user.touches # {}
  BY <1>1, <1>2, QuietDetector, LongpressTells, TimersTouch
<1> QED
  BY <1>1, <1>2, <1>3, HearsAsBefore

LEMMA TwoTouchTimeoutKeeps ==
    ASSUME InputInv, TwoTouch
    PROVE  KeyboardInv' /\ PointerInv'
<1>1. PICK verdict \in TwoFinger : Hears(TwoTouchTimeout(Quiet, verdict))
  BY DEF TwoTouch
<1>2. g.twoTouch = "running" /\ UNCHANGED <<user, odd>>
  BY DEF TwoTouch
<1>3. PICK e : e = TwoTouchTimeout(Quiet, verdict)
  OBVIOUS
<1>4. Tells(Quiet, e) /\ Calm(e) /\ user.touches # {}
  BY <1>2, <1>3, QuietDetector, TwoTouchTells, TimersTouch
<1> QED
  BY <1>1, <1>2, <1>3, <1>4, HearsAsBefore

LEMMA TickKeeps ==
    ASSUME InputInv, Tick
    PROVE  KeyboardInv' /\ PointerInv'
<1>1. UNCHANGED <<os, user, queue, kb, mouse, odd>> /\ g' = Ticked(g)
  BY DEF Tick
<1>2. g'.state = g.state /\ g'.waiting = g.waiting /\ g'.events = g.events
  BY <1>1 DEF Ticked, InputInv, DetectorInv, Detector, Shape, Fields
<1>3. KeyboardInv'
  <2>1. /\ KeyboardInv /\ DOMAIN user' = UserFields /\ user'.touches \subseteq Fingers
        /\ KeyboardTyped(kb)' /\ (Sound(kb) => Sound(kb)')
    BY <1>1 DEF InputInv, KeyboardInv, UserTyped
  <2> QED
    BY <1>1, <2>1, OtherKeeps
<1>4. PointerInv'
  BY <1>1, <1>2 DEF InputInv, PointerInv, Calm, Pointing, Holding, Apart
<1> QED
  BY <1>3, <1>4
-----------------------------------------------------------------------------
(* The theorems.                                                           *)

LEMMA InputInit == Init => InputInv
  BY DetectorInit, KeyboardInit, PointerInit DEF InputInv

LEMMA InputNext == InputInv /\ [Next]_vars => InputInv'
<1> SUFFICES ASSUME InputInv, [Next]_vars
             PROVE  KeyboardInv' /\ PointerInv'
  BY DetectorNext DEF InputInv
<1>0. DOMAIN user = UserFields /\ "buttons" \in UserFields /\ "touches" \in UserFields
  BY DEF InputInv, KeyboardInv, UserTyped, UserFields
<1>1. CASE Keyboard
  <2>1. KeyboardInv'
    BY <1>1, PressKeyKeeps, RepeatKeyKeeps, ReleaseKeyKeeps, KeyEventKeeps, AltGrTimeoutKeeps,
       BlurKeeps, SetViewOnlyKeeps DEF Keyboard, InputInv
  <2>2. UNCHANGED <<g, mouse>> /\ user'.buttons = user.buttons /\ user'.touches = user.touches
    BY <1>1, <1>0 DEF Keyboard, PressKey, RepeatKey, ReleaseKey, KeyEvent, AltGrTimeout, Blur, SetViewOnly
  <2>3. odd => odd'
    BY <1>1 DEF Keyboard, PressKey, RepeatKey, ReleaseKey, KeyEvent, AltGrTimeout, Blur, SetViewOnly
  <2> QED
    BY <2>1, <2>2, <2>3, SameKeeps DEF InputInv
<1>2. CASE Mouse
  <2>1. PointerInv'
    BY <1>2, PressButtonKeeps, ReleaseButtonKeeps, MoveMouseKeeps, HandleWheelKeeps,
       DelayedMouseMoveKeeps, ToggleViewDragKeeps DEF Mouse
  <2>2. UNCHANGED <<os, queue, kb>>
    BY <1>2 DEF Mouse, PressButton, ReleaseButton, MoveMouse, HandleWheel, DelayedMouseMove, ToggleViewDrag
  <2>3. /\ DOMAIN user' = UserFields /\ user'.touches = user.touches
        /\ user'.keys = user.keys /\ user'.muted = user.muted /\ user'.fakeCtrl = user.fakeCtrl
    <3>1. CASE PressButton \/ ReleaseButton
      BY <1>0, <3>1 DEF PressButton, ReleaseButton, UserFields
    <3>2. CASE UNCHANGED user
      BY <1>0, <3>2
    <3> QED
      BY <1>2, <3>1, <3>2 DEF Mouse, MoveMouse, HandleWheel, DelayedMouseMove, ToggleViewDrag
  <2>4. odd => odd'
    BY <1>2 DEF Mouse, PressButton, ReleaseButton, MoveMouse, HandleWheel, DelayedMouseMove, ToggleViewDrag
  <2>5. /\ KeyboardInv /\ user'.touches \subseteq Fingers
        /\ KeyboardTyped(kb)' /\ (Sound(kb) => Sound(kb)')
    BY <2>2, <2>3 DEF InputInv, KeyboardInv, UserTyped
  <2> QED
    BY <2>1, <2>2, <2>5, <2>4, <2>3, OtherKeeps
<1>3. CASE Touch
  BY <1>3, FingerDownKeeps, FingerMovesKeeps, FingerUpKeeps, LongpressTimeoutKeeps, TwoTouchTimeoutKeeps,
     TickKeeps DEF Touch
<1>4. CASE UNCHANGED vars
  <2>1. UNCHANGED <<os, user, queue, kb, mouse, g, odd>>
    BY <1>4 DEF vars
  <2>2. /\ KeyboardInv /\ DOMAIN user' = UserFields /\ user'.touches \subseteq Fingers
        /\ KeyboardTyped(kb)' /\ (Sound(kb) => Sound(kb)')
    BY <2>1 DEF InputInv, KeyboardInv, UserTyped
  <2> QED
    BY <2>1, <2>2, OtherKeeps, SameKeeps DEF InputInv
<1> QED
  BY <1>1, <1>2, <1>3, <1>4 DEF Next

LEMMA InputTyped == InputInv => TypeOK
<1> SUFFICES ASSUME InputInv
             PROVE  TypeOK
  OBVIOUS
<1>1. kb.server \subseteq Symbols /\ DOMAIN kb.down \subseteq Keys /\ Len(queue) <= 2
  BY DEF InputInv, KeyboardInv, KeyboardTyped, UserTyped
<1>2. mouse.mask \subseteq Buttons /\ mouse.server \subseteq Buttons /\ Len(g.events) <= 2
  BY DEF InputInv, PointerInv, MouseTyped
<1>3. g.state \subseteq AllGestures /\ g.tracked \in Seq(Touched)
  BY DEF InputInv, DetectorInv, Detector, Shape
<1>4. \A i \in DOMAIN g.tracked : g.tracked[i].age \in 0 .. Old /\ g.tracked[i].id \in Fingers
  <2>1. ASSUME NEW i \in DOMAIN g.tracked PROVE g.tracked[i] \in Touched
    BY <1>3
  <2> QED
    BY <2>1 DEF Touched
<1>5. TrackedIds(g) \subseteq Fingers
  BY <1>3, <1>4 DEF TrackedIds
<1>6. g.ignored \subseteq Fingers \ ActiveIds(g)
  <2>1. g.ignored \subseteq user.touches /\ ActiveIds(g) \cap g.ignored = {}
    BY DEF InputInv, DetectorInv, Detector, Follows
  <2>2. user.touches \subseteq Fingers
    BY DEF InputInv, KeyboardInv, UserTyped
  <2> QED
    BY <2>1, <2>2
<1> QED
  BY <1>1, <1>2, <1>3, <1>4, <1>5, <1>6 DEF TypeOK, Symbols, Keys

LEMMA ButtonsAreReleased == InputInv => NoStuckButtons
<1> SUFFICES ASSUME InputInv, ~ odd, user.buttons = {}, user.touches = {}
             PROVE  mouse.server = {}
  BY DEF NoStuckButtons, ButtonsReleased
<1>1. Pointing(mouse, {}, g) /\ Detector(g, {})
  BY DEF InputInv, PointerInv, DetectorInv
<1>2. mouse.mask = {}
  BY <1>1, HoldingTouches DEF Pointing
<1> QED
  BY <1>1, <1>2 DEF Pointing, Faithful

LEMMA PointerHasArrived == InputInv => PointerInPlace
  BY DEF InputInv, PointerInv, Pointing, Faithful, PointerInPlace

\* The detector of GestureHandler throws in no handler, and when no finger is
\* down any more no touch is remembered, no timer runs and every gesture is
\* possible, whatever the fingers did.  The id of a two finger timer that has
\* fired is not claimed to be gone.
THEOREM DetectorForgets == Spec => []DetectorResets
<1>1. Spec => []DetectorInv
  BY DetectorInit, DetectorNext, PTL DEF Spec
<1> QED
  BY <1>1, DetectorReady, PTL

\* Unless that id is there, a finger that taps alone is heard as a tap: what
\* earlier fingers did, in any number and order, cannot take it away.
THEOREM NextTapIsHeard == Spec => []TapIsLostToTimerOnly
<1>1. Spec => []DetectorInv
  BY DetectorInit, DetectorNext, PTL DEF Spec
<1> QED
  BY <1>1, DetectorHearsTaps, PTL

\* The records of Keyboard, RFB and GestureHandler keep their shape, the
\* server never holds a key or a button there is none of, and a step of the
\* detector tells the RFB of two events at most.
THEOREM InputIsTyped == Spec => []TypeOK
<1>1. Spec => []InputInv
  BY InputInit, InputNext, PTL DEF Spec
<1> QED
  BY <1>1, InputTyped, PTL

\* Whatever the three systems swallow, fake or repeat, no key stays pressed
\* at the server: with every key up, and no Control held back for an AltGr,
\* it holds none.  Only view-only mode or a page left at that moment excepts.
THEOREM NoKeyStaysDown == Spec => []NoStuckKeys
<1>1. Spec => []InputInv
  BY InputInit, InputNext, PTL DEF Spec
<1>2. InputInv => NoStuckKeys
  BY KeysInvReleased DEF InputInv
<1> QED
  BY <1>1, <1>2, PTL

\* The same for buttons: when the mouse holds none and no finger is down the
\* server holds none, though gestures, wheel steps, drags of the viewport and
\* the mouse itself all press and release through the same handler.
THEOREM NoButtonStaysDown == Spec => []NoStuckButtons
<1>1. Spec => []InputInv
  BY InputInit, InputNext, PTL DEF Spec
<1> QED
  BY <1>1, ButtonsAreReleased, PTL

\* A move is held back for a moment and never lost: whenever the timer of
\* the delayed move does not run the server has the user's last place.
THEOREM PointerArrives == Spec => []PointerInPlace
<1>1. Spec => []InputInv
  BY InputInit, InputNext, PTL DEF Spec
<1> QED
  BY <1>1, PointerHasArrived, PTL
=============================================================================
