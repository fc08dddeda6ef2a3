----------------------------- MODULE MCScreenCast -----------------------------
(* Two attempts.                                                               *)
EXTENDS ScreenCast

CONSTANTS c1, c2, r1

TwoAttempts == 1..2
=============================================================================
