---------------------------- MODULE MCPortalInput ----------------------------
(* Ctrl alone and Ctrl with a key, which texts type as well; a button.         *)
EXTENDS PortalInput, TLC

CONSTANTS keyboard, pointer, ctrl, key, button, c1, c2

BothDevices == [i \in Inputs |-> IF i = button THEN pointer ELSE keyboard]

Alone(i) == [main |-> i, mods |-> {}]
With(i, m) == [main |-> i, mods |-> {m}]

BothChords == {Alone(ctrl), With(key, ctrl), Alone(button)}
OneChord == {Alone(key)}
=============================================================================
