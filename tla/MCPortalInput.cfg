SPECIFICATION Spec
CONSTANTS
    keyboard = keyboard
    pointer = pointer
    ctrl = ctrl
    key = key
    button = button
    c1 = c1
    c2 = c2
    Nobody = Nobody
    Devices = {keyboard, pointer}
    Keyboard = keyboard
    Inputs = {ctrl, key, button}
    Device <- BothDevices
    Chords <- BothChords
    Typed = {key, button}
    Controllers = {c1}
    MaxStarts = 2
    MaxCloses = 0
INVARIANTS
    LedgerExact
CHECK_DEADLOCK FALSE
