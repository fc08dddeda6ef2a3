--------------------------- MODULE MCAgentSession ---------------------------
(* One button and one key, two sessions one after the other.                   *)
EXTENDS AgentSession

CONSTANTS p1, p2, s1, s2, b1, k1, o1

Act(k, i, p, v) == [kind |-> k, input |-> i, dry |-> FALSE, pre |-> p, verify |-> v]
AllKinds ==
    {Act("scroll", None, o1, TRUE), Act("click", b1, None, FALSE),
     Act("drag", b1, o1, FALSE), Act("chord", k1, None, FALSE),
     Act("plain", k1, None, FALSE),
     [Act("plain", None, o1, TRUE) EXCEPT !.dry = TRUE]}

(* The first session may verify an action, the other only observe.             *)
Reads == [s \in Sessions |-> IF s = s1 THEN 3 ELSE 1]
=============================================================================
