------------------------------ MODULE Gestures ------------------------------
(***************************************************************************)
(* The gesture detector of noVNC (core/input/gesturehandler.js): touches   *)
(* in, gesturestart, gesturemove and gestureend events out.  A detector is *)
(* a record                                                                *)
(*                                                                         *)
(*    state      the gestures still possible (the bits of _state),         *)
(*    tracked    the touches of the gesture, first to last,                *)
(*    ignored    the touches that are waited for to end,                   *)
(*    waiting    a touch has ended and the others must end soon,           *)
(*    release    the age of that first end,                                *)
(*    longpress  the long press timer runs,                                *)
(*    twoTouch   the timer that tells a pinch from a two finger drag:      *)
(*               "none", "running", or "fired", its id being kept,         *)
(*    events     what has been pushed,                                     *)
(*    threw      a handler has thrown.                                     *)
(*                                                                         *)
(* Time is counted in quarters of a second; ages stop at Old.  Geometry is *)
(* reduced to what is asked of it: whether a touch is farther than the     *)
(* threshold from where it began, and what two touches look like.          *)
(***************************************************************************)
EXTENDS Integers, Sequences, FiniteSets

Taps == {"onetap", "twotap", "threetap"}
TwoFinger == {"twodrag", "pinch"}
AllGestures == Taps \cup TwoFinger \cup {"drag", "longpress"}

Multitouch == 1     \* GH_MULTITOUCH_TIMEOUT: 250 ms
TapTimeout == 4     \* GH_TAP_TIMEOUT and GH_LONGPRESS_TIMEOUT: 1000 ms
Old == 5

NoTouches == [state |-> AllGestures, tracked |-> <<>>, ignored |-> {}, waiting |-> FALSE,
              release |-> 0, longpress |-> FALSE, twoTouch |-> "none", events |-> <<>>,
              threw |-> FALSE]

TrackedIds(g) == {g.tracked[i].id : i \in DOMAIN g.tracked}
ActiveIds(g) == {g.tracked[i].id : i \in {j \in DOMAIN g.tracked : g.tracked[j].active}}
SomeActive(g) == ActiveIds(g) # {}

\* One gesture is left, and a tap has no finger down any more.
HasDetectedGesture(g) ==
    /\ Cardinality(g.state) = 1
    /\ g.state \subseteq Taps => ~ SomeActive(g)

PushEvent(g, type) ==
    [g EXCEPT !.events = Append(@, [type |-> type, gesture |-> CHOOSE x \in g.state : TRUE])]

Dead(g) == [g EXCEPT !.state = {}]

\* Touches that end one by one leave nothing behind when the last has ended.
ResetIfAlone(g) ==
    IF g.ignored = {} /\ g.tracked = <<>>
    THEN [g EXCEPT !.state = AllGestures, !.waiting = FALSE]
    ELSE g
-----------------------------------------------------------------------------
Ignore(g, id) == [g EXCEPT !.ignored = @ \cup {id}]

TooLate(g) == g.tracked # <<>> /\ g.tracked[1].age > Multitouch

Track(g, id) ==
    LET t == Append(g.tracked, [id |-> id, age |-> 0, active |-> TRUE, far |-> FALSE])
        n == Len(t)
    IN  [g EXCEPT !.tracked = t,
                  !.longpress = (n = 1) \/ (@ /\ n # 2),
                  !.state = CASE n = 1 -> @
                              [] n = 2 -> @ \ {"onetap", "drag", "longpress"}
                              [] n = 3 -> @ \ ({"twotap"} \cup TwoFinger)
                              [] OTHER -> {}]

TouchStart(g, id) ==
    CASE HasDetectedGesture(g) \/ g.state = {} -> Ignore(g, id)
      [] ~ HasDetectedGesture(g) /\ g.state # {} /\ (TooLate(g) \/ g.waiting) -> Dead(Ignore(g, id))
      [] OTHER -> Track(g, id)
-----------------------------------------------------------------------------
Moved(g, id, far) ==
    [g EXCEPT !.tracked = [i \in DOMAIN @ |-> IF @[i].id = id THEN [@[i] EXCEPT !.far = far] ELSE @[i]]]

\* Movement rules out taps and long presses, and what has the wrong number
\* of fingers.
RuledOut(g) ==
    Taps \cup {"longpress"} \cup (IF Len(g.tracked) = 1 THEN {} ELSE {"drag"})
         \cup (IF Len(g.tracked) = 2 THEN {} ELSE TwoFinger)

\* With two touches: both moved far and their angle decides, or a timer will.
Tell(g, id, verdict) ==
    IF Len(g.tracked) # 2 THEN g
    ELSE IF \E i \in 1 .. 2 : g.tracked[i].id # id /\ g.tracked[i].far
    THEN [g EXCEPT !.state = @ \ (TwoFinger \ {verdict}), !.twoTouch = "none"]
    ELSE [g EXCEPT !.twoTouch = IF @ = "none" THEN "running" ELSE @]

TouchMove(g, id, far, verdict) ==
    LET m == Moved(g, id, far)
        told == Tell([m EXCEPT !.state = @ \ RuledOut(m), !.longpress = FALSE], id, verdict)
    IN  CASE id \notin TrackedIds(g) -> g
          [] id \in TrackedIds(g) /\ HasDetectedGesture(g) -> PushEvent(m, "gesturemove")
          [] id \in TrackedIds(g) /\ ~ HasDetectedGesture(g) /\ ~ far -> m
          [] OTHER -> IF HasDetectedGesture(told)
                      THEN PushEvent(PushEvent(told, "gesturestart"), "gesturemove")
                      ELSE told
-----------------------------------------------------------------------------
\* An end before the timer has decided: no gesture comes of it.
EndBeforeTimer(g) ==
    IF ~ HasDetectedGesture(g) /\ g.twoTouch # "none"
    THEN [Dead(g) EXCEPT !.twoTouch = "none"]
    ELSE g

\* A slip: the clock of the first end is not restarted.
BeginReleaseOldClock(g) ==
    IF HasDetectedGesture(g) THEN g
    ELSE LET n == Len(g.tracked)
             others == IF g.waiting THEN {}
                       ELSE IF n = 1 THEN {"twotap", "threetap"}
                       ELSE IF n = 2 THEN {"onetap", "threetap"} ELSE {}
         IN  [g EXCEPT !.state = @ \ (TwoFinger \cup {"drag", "longpress"} \cup others),
                       !.longpress = FALSE, !.waiting = TRUE]

\* Only a tap can still come, of as many fingers as are down.
BeginRelease(g) ==
    IF HasDetectedGesture(g) THEN g
    ELSE LET n == Len(g.tracked)
             others == IF g.waiting THEN {}
                       ELSE IF n = 1 THEN {"twotap", "threetap"}
                       ELSE IF n = 2 THEN {"onetap", "threetap"} ELSE {}
         IN  [g EXCEPT !.state = @ \ (TwoFinger \cup {"drag", "longpress"} \cup others),
                       !.longpress = FALSE, !.waiting = TRUE,
                       !.release = IF g.waiting THEN @ ELSE 0]

Release(g, id) ==
    LET late == g.release > Multitouch \/ \E i \in DOMAIN g.tracked : g.tracked[i].age > TapTimeout
    IN  IF ~ g.waiting THEN g
        ELSE [g EXCEPT !.state = IF late THEN {} ELSE @,
                       !.tracked = [i \in DOMAIN @ |->
                            IF @[i].id = id THEN [@[i] EXCEPT !.active = FALSE] ELSE @[i]]]

\* A slip: fingers that are still down are not waited for.
FinishForgetful(g, id) ==
    ResetIfAlone([Dead(g) EXCEPT !.tracked = <<>>, !.ignored = @ \ {id}])

\* A slip: what was tracked is not forgotten.
FinishTracked(g, id) ==
    ResetIfAlone([Dead(g) EXCEPT !.ignored = (@ \cup TrackedIds(g)) \ {id}])

\* Whatever is still down is ignored until it ends.
Finish(g, id) ==
    ResetIfAlone([Dead(g) EXCEPT !.tracked = <<>>, !.ignored = (@ \cup ActiveIds(g)) \ {id}])

TouchEnd(g, id) ==
    IF id \in g.ignored THEN ResetIfAlone([g EXCEPT !.ignored = @ \ {id}])
    ELSE LET r == Release(BeginRelease(EndBeforeTimer(g)), id)
             started == IF r.waiting /\ HasDetectedGesture(r) THEN PushEvent(r, "gesturestart") ELSE r
             ended == IF HasDetectedGesture(r) THEN PushEvent(started, "gestureend") ELSE started
         IN  IF r.waiting /\ ~ HasDetectedGesture(r) /\ r.state # {}
             THEN r
             ELSE Finish(ended, id)
-----------------------------------------------------------------------------
LongpressTimeout(g) ==
    IF HasDetectedGesture(g) \/ g.tracked = <<>>
    THEN [g EXCEPT !.longpress = FALSE, !.threw = TRUE]
    ELSE PushEvent([g EXCEPT !.longpress = FALSE, !.state = {"longpress"}], "gesturestart")

TwoTouchTimeout(g, verdict) ==
    IF g.tracked = <<>>
    THEN [g EXCEPT !.twoTouch = "fired", !.threw = TRUE]
    ELSE LET d == [g EXCEPT !.twoTouch = "fired", !.state = {verdict}]
         IN  PushEvent(PushEvent(d, "gesturestart"), "gesturemove")

\* A quarter of a second passes.  Timers that are due go first.
MayTick(g) ==
    /\ g.twoTouch # "running"
    /\ ~ (g.longpress /\ g.tracked # <<>> /\ g.tracked[1].age = TapTimeout)

Older(age) == IF age < Old THEN age + 1 ELSE age

Ticked(g) ==
    [g EXCEPT !.tracked = [i \in DOMAIN @ |-> [g.tracked[i] EXCEPT !.age = Older(g.tracked[i].age)]],
              !.release = IF g.waiting THEN Older(@) ELSE @]
=============================================================================
