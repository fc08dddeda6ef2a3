SPECIFICATION Spec
CONSTANTS
    r = r
    s = s
    x = x
    y = y
    a = a
    shift = shift
    u = u
    v = v
    Codes = {x, y}
    Buttons = {b}
    Keysyms = {u, v}
    Modifiers <- NoMods
    Native <- MCNative
    NativeMods = {}
    Texts <- TwoTexts
    Images <- MCImages
    Contested = {x, y, b}
INVARIANT
    PendingIsExternal
