SPECIFICATION LiveSpec
CONSTANTS
    keyboard = keyboard
    pointer = pointer
    ctrl = ctrl
    key = key
    button = button
    c1 = c1
    c2 = c2
    Nobody = Nobody
    Devices = {keyboard}
    Keyboard = keyboard
    Inputs = {key}
    Device <- BothDevices
    Chords <- OneChord
    Typed = {key}
    Controllers = {c1, c2}
    MaxStarts = 1
    MaxCloses = 1
PROPERTIES
    WaylandReturns
CHECK_DEADLOCK FALSE
