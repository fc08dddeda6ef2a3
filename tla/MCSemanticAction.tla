-------------------------- MODULE MCSemanticAction --------------------------
(* Two callers, one or two leases, one tree, at most one image.                *)
EXTENDS SemanticAction, TLC

CONSTANTS c1, c2, l1, l2

Callees == Permutations({c1, c2})
=============================================================================
