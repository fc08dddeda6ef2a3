---------------------------- MODULE MCX11Guardian ----------------------------
(* Small instances of X11Guardian.  Two foreign images; one scratch image that *)
(* the server stores as written, or turns into a canonical form.               *)
EXTENDS X11Guardian, TLC

MCTheirs == {"empty", "foreign"}
MCOurs == {"scratch", "canonical"}
MCCanon == [i \in MCTheirs \cup MCOurs |-> IF i = "scratch" THEN "canonical" ELSE i]
Symmetry == Permutations(Codes)
=============================================================================
