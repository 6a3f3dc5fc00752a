SPECIFICATION Spec
CONSTANTS
    Codes = {"ControlLeft", "AltRight", "KeyA", "ShiftLeft", "ShiftRight", "MetaLeft", "CapsLock", "Zenkaku"}
    Fingers = {1, 2, 3}
    Mixes <- InputMixes
INVARIANTS TypeOK NoStuckKeys NoStuckButtons PointerInPlace DetectorResets TapIsLostToTimerOnly
CHECK_DEADLOCK FALSE
