SPECIFICATION Spec
CONSTANTS
    r = r
    s = s
    x = x
    y = y
    a = a
    shift = shift
    u = u
    v = v
    Codes = {s, x, y}
    Buttons = {b}
    Keysyms = {shift, u, v}
    Modifiers <- SomeMods
    Native <- MCNative
    NativeMods = {s}
    Texts <- TwoTexts
    Images <- MCImages
    Contested = {x}
INVARIANTS
    Ledger
    TypesItsSymbol
PROPERTIES
    ForeignKept
    CleanClose
