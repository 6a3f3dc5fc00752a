----------------------------- MODULE ViewerInput -----------------------------
(***************************************************************************)
(* What a noVNC user's keyboard, mouse and fingers do to the desktop:      *)
(* core/input/keyboard.js, the gesture detector and the input handlers of  *)
(* core/rfb.js, in a session that stays connected.  The server's view, the *)
(* keys and buttons it holds for pressed, is kept beside each handler's    *)
(* own record.                                                             *)
(***************************************************************************)
EXTENDS Gestures, Functions

CONSTANTS Codes,    (* the keys of the keyboard: values of event.code      *)
          Fingers,  (* identifiers of touches                              *)
          Mixes     (* the user's system, and the bound: how much of each  *)
                    (* kind of input there may be                          *)

VARIABLES os,      (* the user's system: its quirks differ                 *)
          user,    (* the keys, buttons and fingers that really are down   *)
          queue,   (* keyboard events on their way to the page             *)
          kb,      (* the Keyboard, and the keys the server holds          *)
          mouse,   (* the pointer state of the RFB, and the server's       *)
          g,       (* the gesture detector                                 *)
          left,    (* bound: input left                                    *)
          odd      (* history: something known to upset the state happened *)

vars == <<os, user, queue, kb, mouse, g, left, odd>>

Systems == {"windows", "mac", "other"}
Buttons == {"left", "middle", "right", "up", "down"}
Places == 1 .. 2
Shifts == {"ShiftLeft", "ShiftRight"}
Metas == {"MetaLeft", "MetaRight"}

Init ==
    /\ user = [keys |-> {}, buttons |-> {}, touches |-> {}, muted |-> {}, fakeCtrl |-> FALSE,
               caps |-> FALSE]
    /\ queue = <<>>
    /\ kb = [down |-> <<>>, armed |-> FALSE, server |-> {}, viewOnly |-> FALSE]
    /\ mouse = [mask |-> {}, timer |-> FALSE, pos |-> 1, drag |-> FALSE, dragging |-> FALSE,
                hasMoved |-> FALSE, server |-> {}, at |-> 1, last |-> 1]
    /\ g = NoTouches
    /\ \E mix \in Mixes : left = mix.input /\ os = mix.os
    /\ odd = FALSE

Spend(kind) == left[kind] > 0 /\ left' = [left EXCEPT ![kind] = @ - 1]
-----------------------------------------------------------------------------
(* The keyboard.                                                           *)

\* RFB.sendKey, behind the bookkeeping of Keyboard._sendKeyEvent.
SendKeyEvent(k, keysym, code, down) ==
    LET heard == IF k.viewOnly THEN k.server
                 ELSE IF down THEN k.server \cup {keysym} ELSE k.server \ {keysym}
    IN  IF down
        THEN [k EXCEPT !.down = [c \in DOMAIN @ \cup {code} |-> IF c = code THEN keysym ELSE @[c]],
                       !.server = heard]
        ELSE IF code \in DOMAIN k.down
        THEN [k EXCEPT !.down = Restrict(@, DOMAIN @ \ {code}), !.server = heard]
        ELSE k

PressAndRelease(k, keysym, code) ==
    SendKeyEvent(SendKeyEvent(k, keysym, code, TRUE), keysym, code, FALSE)

ReleaseCode(k, code) ==
    IF code \in DOMAIN k.down THEN SendKeyEvent(k, k.down[code], code, FALSE) ELSE k

\* Alt behaves like AltGraph on macOS: the keysyms are shuffled.
Shuffled(keysym) ==
    CASE os = "mac" /\ keysym = "MetaLeft" -> "AltLeft"
      [] os = "mac" /\ keysym = "MetaRight" -> "MetaLeft"
      [] os = "mac" /\ keysym = "AltLeft" -> "Mode_switch"
      [] os = "mac" /\ keysym = "AltRight" -> "AltGraph"
      [] OTHER -> keysym

\* The Control that might have been the start of an AltGr is sent after all.
Disarm(k) ==
    IF k.armed
    THEN SendKeyEvent([k EXCEPT !.armed = FALSE], "ControlLeft", "ControlLeft", TRUE)
    ELSE k

\* Keys whose release never comes are released at once.
NeverReleased(e) ==
    \/ os = "mac" /\ e.meta /\ e.code \notin Metas
    \/ os = "mac" /\ e.code = "CapsLock"
    \/ os = "windows" /\ e.code = "Zenkaku"
    \/ e.code = "Unidentified"

HandleKeyDown(k, e) ==
    LET altGr == k.armed /\ e.code = "AltRight" /\ e.quick
        ready == IF altGr THEN [k EXCEPT !.armed = FALSE] ELSE Disarm(k)
        keysym == CASE e.code \in DOMAIN ready.down -> ready.down[e.code]
                    [] e.code \notin DOMAIN ready.down /\ altGr -> "AltGraph"
                    [] OTHER -> Shuffled(e.keysym)
        mayBeAltGr == os = "windows" /\ e.code = "ControlLeft" /\ e.code \notin DOMAIN ready.down
    IN  CASE NeverReleased(e) -> PressAndRelease(ready, keysym, e.code)
          [] ~ NeverReleased(e) /\ mayBeAltGr -> [ready EXCEPT !.armed = TRUE]
          [] OTHER -> SendKeyEvent(ready, keysym, e.code, TRUE)

\* A slip: of two Shifts held at once only the one Windows reports is released.
HandleKeyUpOneShift(k, e) ==
    IF os = "mac" /\ e.code = "CapsLock"
    THEN PressAndRelease(Disarm(k), "CapsLock", "CapsLock")
    ELSE ReleaseCode(Disarm(k), e.code)

HandleKeyUp(k, e) ==
    LET ready == Disarm(k)
        released == ReleaseCode(ready, e.code)
    IN  CASE os = "mac" /\ e.code = "CapsLock" -> PressAndRelease(ready, "CapsLock", "CapsLock")
          [] os = "windows" /\ e.code \in Shifts ->
                ReleaseCode(ReleaseCode(released, "ShiftRight"), "ShiftLeft")
          [] OTHER -> released

AllKeysUp(k) ==
    [k EXCEPT !.down = <<>>, !.server = IF k.viewOnly THEN @ ELSE @ \ Range(k.down)]
-----------------------------------------------------------------------------
(* The user's keyboard and system (external).  A letter's keysym depends   *)
(* on the layout and on what else is held; other keys have one.            *)

Modifiers == {"ControlLeft", "ControlRight", "AltLeft", "AltRight"} \cup Metas \cup Shifts
MetaHeld == user.keys \cap Metas # {}

Keysyms(code) == IF code = "KeyA" THEN {"a", "A"} ELSE {code}

Event(type, code, keysym, quick) ==
    [type |-> type, code |-> code, keysym |-> keysym, quick |-> quick, meta |-> MetaHeld]

\* Windows makes a Control and an Alt of AltGr, macOS tells the state of
\* CapsLock by either event.
EventsOfPress(code, keysym, quick) ==
    CASE os = "windows" /\ code = "AltRight" /\ "ControlLeft" \notin user.keys ->
            <<Event("down", "ControlLeft", "ControlLeft", FALSE), Event("down", code, keysym, quick)>>
      [] os = "mac" /\ code = "CapsLock" /\ user.caps -> <<Event("up", code, keysym, FALSE)>>
      [] OTHER -> <<Event("down", code, keysym, quick)>>

Unheard(code) ==
    \/ os = "mac" /\ code = "CapsLock"
    \/ os = "mac" /\ code \in user.muted /\ MetaHeld
    \/ os = "windows" /\ code = "Zenkaku"
    \/ os = "windows" /\ code \in Shifts /\ Shifts \subseteq user.keys

EventsOfRelease(code) ==
    CASE Unheard(code) -> <<>>
      [] ~ Unheard(code) /\ os = "windows" /\ code = "AltRight" /\ user.fakeCtrl ->
            <<Event("up", "ControlLeft", "ControlLeft", FALSE), Event("up", code, code, FALSE)>>
      [] OTHER -> <<Event("up", code, code, FALSE)>>

PressKey ==
    /\ queue = <<>> /\ Spend("keys")
    /\ \E code \in Codes \ user.keys :
        /\ \E keysym \in Keysyms(code), quick \in BOOLEAN :
            queue' = EventsOfPress(code, keysym, quick)
        /\ user' = [user EXCEPT !.keys = @ \cup {code},
                                !.muted = IF MetaHeld THEN @ \cup ({code} \ Modifiers) ELSE @,
                                !.fakeCtrl = @ \/ (os = "windows" /\ code = "AltRight"
                                                   /\ "ControlLeft" \notin user.keys),
                                !.caps = IF code = "CapsLock" THEN ~ @ ELSE @]
    /\ UNCHANGED <<os, kb, mouse, g, odd>>

RepeatKey ==
    /\ queue = <<>> /\ Spend("keys")
    /\ \E code \in user.keys \ ({"CapsLock", "Unidentified"} \cup IF os = "mac" THEN Modifiers ELSE {}) :
        /\ \E keysym \in Keysyms(code) : queue' = <<Event("down", code, keysym, FALSE)>>
        /\ user' = [user EXCEPT !.muted = IF MetaHeld THEN @ ELSE @ \ {code}]
    /\ UNCHANGED <<os, kb, mouse, g, odd>>

ReleaseKey ==
    /\ queue = <<>>
    /\ \E code \in user.keys :
        /\ queue' = EventsOfRelease(code)
        /\ user' = [user EXCEPT !.keys = @ \ {code}, !.muted = @ \ {code},
                                !.fakeCtrl = @ /\ code # "AltRight"]
    /\ UNCHANGED <<os, kb, mouse, g, left, odd>>

KeyEvent ==
    /\ queue # <<>> /\ queue' = Tail(queue)
    /\ kb' = IF Head(queue).type = "down" THEN HandleKeyDown(kb, Head(queue)) ELSE HandleKeyUp(kb, Head(queue))
    /\ UNCHANGED <<os, user, mouse, g, left, odd>>

AltGrTimeout ==
    /\ kb.armed /\ kb' = Disarm(kb)
    /\ UNCHANGED <<os, user, queue, mouse, g, left, odd>>

\* The page is left: the keys are released somewhere else.  The timer stays.
Blur ==
    /\ queue = <<>> /\ Spend("page")
    /\ kb' = AllKeysUp(kb)
    /\ user' = [user EXCEPT !.keys = {}, !.muted = {}, !.fakeCtrl = FALSE]
    /\ odd' = (odd \/ kb.armed)
    /\ UNCHANGED <<os, queue, mouse, g>>

\* The setter stops sending before the keyboard is let go of.
SetViewOnly ==
    /\ queue = <<>> /\ Spend("page")
    /\ kb' = LET k == [kb EXCEPT !.viewOnly = ~ @] IN IF k.viewOnly THEN AllKeysUp(k) ELSE k
    /\ odd' = TRUE
    /\ UNCHANGED <<os, user, queue, mouse, g>>
-----------------------------------------------------------------------------
(* The pointer.                                                            *)

SendMouse(m, place, mask) ==
    IF kb.viewOnly THEN m ELSE [m EXCEPT !.server = mask, !.at = place]

Points(m, place) == IF kb.viewOnly THEN m ELSE [m EXCEPT !.last = place]

\* A slip: the move that was held back is sent after the button.
HandleMouseButtonFirst(m, place, down, button) ==
    LET mask == IF down THEN m.mask \cup {button} ELSE m.mask \ {button}
        sent == SendMouse(Points([m EXCEPT !.mask = mask], place), place, mask)
    IN  IF m.timer THEN SendMouse([sent EXCEPT !.timer = FALSE], place, m.mask) ELSE sent

\* A click ends a drag of the viewport that did not move; it is sent whole.
HandleMouseButton(m, place, down, button) ==
    LET clicked == IF m.drag THEN SendMouse([m EXCEPT !.dragging = FALSE], place, {button}) ELSE m
        flushed == IF m.timer
                   THEN SendMouse([clicked EXCEPT !.timer = FALSE], place, m.mask)
                   ELSE clicked
        mask == IF down THEN m.mask \cup {button} ELSE m.mask \ {button}
    IN  CASE m.drag /\ down /\ ~ m.dragging -> [m EXCEPT !.dragging = TRUE, !.hasMoved = FALSE]
          [] m.drag /\ ~ (down /\ ~ m.dragging) /\ m.hasMoved -> [m EXCEPT !.dragging = FALSE]
          [] OTHER -> SendMouse(Points([flushed EXCEPT !.mask = mask], place), place, mask)

\* A slip: a move while the timer runs does not replace the one held back.
HandleMouseMoveOnce(m, place, far, soon) ==
    IF m.timer THEN Points(m, place)
    ELSE IF soon THEN Points([m EXCEPT !.pos = place, !.timer = TRUE], place)
    ELSE SendMouse(Points([m EXCEPT !.pos = place], place), place, m.mask)

\* soon: less than MOUSE_MOVE_DELAY since the last move that was sent.
HandleMouseMove(m, place, far, soon) ==
    CASE m.dragging -> [m EXCEPT !.hasMoved = @ \/ far]
      [] ~ m.dragging /\ (m.timer \/ soon) ->
            Points([m EXCEPT !.pos = place, !.timer = TRUE], place)
      [] OTHER -> SendMouse(Points([m EXCEPT !.pos = place], place), place, m.mask)

HandleDelayedMouseMove(m) == SendMouse([m EXCEPT !.timer = FALSE], m.pos, m.mask)

\* A wheel step, and every step of a scrolling gesture: down and up again.
Step(m, place, button) ==
    HandleMouseButton(HandleMouseButton(m, place, TRUE, button), place, FALSE, button)

PressButton ==
    /\ Spend("mouse")
    /\ \E button \in {"left", "right"} \ user.buttons, place \in Places :
        /\ user' = [user EXCEPT !.buttons = @ \cup {button}]
        /\ mouse' = HandleMouseButton(mouse, place, TRUE, button)
    /\ odd' = (odd \/ (mouse.drag /\ (user.buttons # {} \/ user.touches # {})))
    /\ UNCHANGED <<os, queue, kb, g>>

\* The canvas has captured the mouse: it hears of every release.
ReleaseButton ==
    /\ \E button \in user.buttons, place \in Places :
        /\ user' = [user EXCEPT !.buttons = @ \ {button}]
        /\ mouse' = HandleMouseButton(mouse, place, FALSE, button)
    /\ UNCHANGED <<os, queue, kb, g, left, odd>>

MoveMouse ==
    /\ Spend("mouse")
    /\ \E place \in Places, far, soon \in BOOLEAN : mouse' = HandleMouseMove(mouse, place, far, soon)
    /\ UNCHANGED <<os, user, queue, kb, g, odd>>

HandleWheel ==
    /\ ~ kb.viewOnly /\ Spend("mouse")
    /\ \E place \in Places, button \in {"up", "down"} : mouse' = Step(mouse, place, button)
    /\ UNCHANGED <<os, user, queue, kb, g, odd>>

DelayedMouseMove ==
    /\ mouse.timer /\ mouse' = HandleDelayedMouseMove(mouse)
    /\ UNCHANGED <<os, user, queue, kb, g, left, odd>>

\* UI.toggleViewDrag, and updateViewDrag when nothing is clipped any more.
ToggleViewDrag ==
    /\ Spend("page")
    /\ mouse' = [mouse EXCEPT !.drag = ~ @]
    /\ odd' = (odd \/ user.buttons # {} \/ user.touches # {})
    /\ UNCHANGED <<os, user, queue, kb, g>>
-----------------------------------------------------------------------------
(* Fingers.                                                                *)

TapButton == [onetap |-> "left", twotap |-> "right", threetap |-> "middle"]
HeldButton == [drag |-> "left", longpress |-> "right"]

\* What one gesture event does to the pointer.  steps: how much it scrolled.
HandleGesture(m, ev, place, far, soon, steps) ==
    LET moved == HandleMouseMove(m, place, far, soon)
        tapped == Step(moved, place, TapButton[ev.gesture])
        held == HandleMouseButton(moved, place, ev.type = "gesturestart", HeldButton[ev.gesture])
        scrolled == IF steps = "none" THEN moved ELSE Step(moved, place, steps)
    IN  CASE ev.gesture \in Taps -> IF ev.type = "gesturestart" THEN tapped ELSE m
          [] ev.gesture \in DOMAIN HeldButton -> IF ev.type = "gesturemove" THEN moved ELSE held
          [] OTHER -> CASE ev.type = "gesturestart" -> moved
                        [] ev.type = "gesturemove" -> scrolled
                        [] OTHER -> m

\* A pinch that moves holds Control for its steps and lets it go in any case.
Pinched(k, events) ==
    IF ~ k.viewOnly /\ \E i \in DOMAIN events : events[i] = [type |-> "gesturemove", gesture |-> "pinch"]
    THEN [k EXCEPT !.server = @ \ {"ControlLeft"}]
    ELSE k

\* A step of the detector pushes two events at most.
HandleGestures(m, events, place, far, soon, steps) ==
    LET first == HandleGesture(m, events[1], place, far, soon, steps)
    IN  IF Len(events) = 1 THEN first ELSE HandleGesture(first, events[2], place, far, soon, steps)

\* The detector has made its step: the RFB hears of what it pushed.
Hears(detector) ==
    /\ g' = detector
    /\ IF detector.events = <<>> THEN UNCHANGED mouse
       ELSE \E place \in Places, far, soon \in BOOLEAN, steps \in {"none", "up", "down"} :
                mouse' = HandleGestures(mouse, detector.events, place, far, soon, steps)
    /\ kb' = Pinched(kb, detector.events)
    /\ UNCHANGED <<os, queue>>

Quiet == [g EXCEPT !.events = <<>>]

FingerDown ==
    /\ Spend("touch")
    /\ \E id \in Fingers \ user.touches :
        /\ user' = [user EXCEPT !.touches = @ \cup {id}]
        /\ Hears(TouchStart(Quiet, id))
    /\ odd' = (odd \/ (mouse.drag /\ user.buttons # {}))

FingerMoves ==
    /\ Spend("touch")
    /\ \E id \in user.touches, far \in BOOLEAN, verdict \in TwoFinger :
        Hears(TouchMove(Quiet, id, far, verdict))
    /\ UNCHANGED <<user, odd>>

FingerUp ==
    /\ \E id \in user.touches :
        /\ user' = [user EXCEPT !.touches = @ \ {id}]
        /\ Hears(TouchEnd(Quiet, id))
    /\ UNCHANGED <<left, odd>>

Longpress ==
    /\ g.longpress /\ (g.tracked = <<>> \/ g.tracked[1].age = TapTimeout)
    /\ Hears(LongpressTimeout(Quiet))
    /\ UNCHANGED <<user, left, odd>>

TwoTouch ==
    /\ g.twoTouch = "running"
    /\ \E verdict \in TwoFinger : Hears(TwoTouchTimeout(Quiet, verdict))
    /\ UNCHANGED <<user, left, odd>>

Tick ==
    /\ user.touches # {} /\ MayTick(g) /\ Ticked(g) # g
    /\ g' = Ticked(g)
    /\ UNCHANGED <<os, user, queue, kb, mouse, left, odd>>
-----------------------------------------------------------------------------
Keyboard == PressKey \/ RepeatKey \/ ReleaseKey \/ KeyEvent \/ AltGrTimeout \/ Blur \/ SetViewOnly
Mouse == PressButton \/ ReleaseButton \/ MoveMouse \/ HandleWheel \/ DelayedMouseMove \/ ToggleViewDrag
Touch == FingerDown \/ FingerMoves \/ FingerUp \/ Longpress \/ TwoTouch \/ Tick

Next == Keyboard \/ Mouse \/ Touch

Spec == Init /\ [][Next]_vars
-----------------------------------------------------------------------------
(* Properties.                                                             *)

TypeOK ==
    /\ kb.server \subseteq Codes \cup {"a", "A", "AltGraph", "Mode_switch", "AltLeft", "MetaLeft", "ControlLeft"}
    /\ DOMAIN kb.down \subseteq Codes \cup {"ControlLeft"}
    /\ mouse.mask \subseteq Buttons /\ mouse.server \subseteq Buttons
    /\ g.state \subseteq AllGestures /\ TrackedIds(g) \subseteq Fingers
    /\ g.ignored \subseteq Fingers \ ActiveIds(g)
    /\ \A i \in DOMAIN g.tracked : g.tracked[i].age \in 0 .. Old
    /\ Len(queue) <= 2 /\ Len(g.events) <= 2

\* With no key down the server holds none, whatever the system swallowed,
\* faked or repeated, unless something odd happened first.
KeysReleased == user.keys = {} /\ queue = <<>> /\ ~ kb.armed => kb.server = {}
NoStuckKeys == ~ odd => KeysReleased

\* The same for the buttons, with a mouse and fingers in use together.
ButtonsReleased == user.buttons = {} /\ user.touches = {} => mouse.server = {}
NoStuckButtons == ~ odd => ButtonsReleased

\* Moves are held back, never lost: without a timer the server knows the
\* last place the user pointed at.
PointerInPlace == ~ odd /\ ~ mouse.timer => mouse.at = mouse.last

\* When the last finger is lifted the detector remembers no touch, takes every
\* gesture for possible and has no timer running, and none of its handlers
\* met a state it throws at.  Of what it has at first only the id of a two
\* finger timer may differ: one that has fired leaves its id behind.
DetectorResets ==
    /\ user.touches = {} => /\ g.state = AllGestures /\ g.tracked = <<>> /\ g.ignored = {}
                            /\ ~ g.waiting /\ ~ g.longpress /\ g.twoTouch # "running"
    /\ ~ g.threw

\* The one finger down has been alone, kept its place and not stayed long.
IsATap(id) ==
    /\ user.touches = {id} /\ "onetap" \in g.state
    /\ Len(g.tracked) = 1 /\ ~ g.waiting /\ g.tracked[1].age <= TapTimeout

\* The tests of the detector say that a tap is heard whatever came before it
\* (test.gesturehandler.js, 'should properly reset after a gesture'): lifting
\* such a finger tells of a tap that starts and ends.
TapIsHeard ==
    \A id \in user.touches :
        IsATap(id) => TouchEnd(Quiet, id).events = <<[type |-> "gesturestart", gesture |-> "onetap"],
                                                     [type |-> "gestureend", gesture |-> "onetap"]>>

\* What holds of it: whatever fingers did before, in whatever order they came
\* and went, a tap is lost only to the id a two finger timer has left behind.
TapIsLostToTimerOnly == g.twoTouch # "fired" => TapIsHeard
=============================================================================
