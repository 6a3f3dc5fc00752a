SPECIFICATION Spec
CONSTANTS
    Codes = {"ControlLeft", "AltRight", "KeyA", "ShiftLeft", "ShiftRight", "MetaLeft", "CapsLock", "Zenkaku"}
    Fingers = {1, 2, 3}
    Mixes <- TouchMixes
INVARIANTS TapIsHeard
CHECK_DEADLOCK FALSE
