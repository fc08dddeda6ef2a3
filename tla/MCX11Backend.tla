---------------------------- MODULE MCX11Backend ----------------------------
(* A small keyboard: a letter, a shift key and scratch keycodes.               *)
EXTENDS X11Backend, TLC

CONSTANTS r, s, x, y,   \* keycodes: letter, shift, two empty ones
          a, shift, u, v \* keysyms; u and v are not in the layout

MCNative == [c \in Codes |-> IF c = r THEN {a} ELSE IF c = s THEN {shift} ELSE {}]
NoMods == {{}}
SomeMods == {{}, {shift}}
TwoTexts == {<<u, v>>, <<u, u>>}
MCImages == {{}, {u}}
Scratch == Permutations({x, y})
=============================================================================
